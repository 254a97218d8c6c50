------------------------------- MODULE Fanout -------------------------------
(***************************************************************************)
(* The coordinator of tools/serverless/fanout.py: one aggregate query over *)
(* many worker Lambdas.  It asks the worker function whether it knows      *)
(* structured plans, has it prepare the query, cuts the row groups into    *)
(* contiguous runs, invokes one worker per run and merges their partial    *)
(* aggregates.  With the caller's row-group counts the preparation of all  *)
(* inputs runs beside the scatter and may still refuse the query.          *)
(*                                                                         *)
(* A warm coordinator answers one query after another and remembers the    *)
(* published versions that acknowledged; an alias may be moved to another  *)
(* version at any moment.  A worker's own answers (Reply and what it       *)
(* uses) are external: the engine's, as fanout.py relies on them.          *)
(***************************************************************************)
EXTENDS Integers, FiniteSets, SequencesExt

CONSTANTS
    Functions,  \* what a request may name: published versions and aliases
    Published,  \* the immutable ones, name:7 (fanout.py:145-160)
    Versions,   \* worker code
    Speaks,     \* the versions that know structured plan v1
    Code0,      \* the version each function names at the start
    Table,      \* input -> its row groups, each a sequence of rows [g, v]
    Schema,     \* input -> its schema
    Expand,     \* a request's input or pattern -> the inputs it stands for
    Requests,   \* the requests that may come
    Precision,  \* the decimal context: sums below it are exact
    MaxQueries, \* bound: queries in the life of the process
    MaxDeploys  \* bound: times an alias is moved

ASSUME FunctionsAssumption ==
    /\ Published \subseteq Functions
    /\ Speaks \subseteq Versions
    /\ Code0 \in [Functions -> Versions]
    /\ MaxQueries \in Nat /\ MaxDeploys \in Nat
    /\ \A x \in DOMAIN Table : Len(Table[x]) \in Nat
    /\ \A x \in DOMAIN Expand : Expand[x] \in Seq(DOMAIN Table)
    /\ \A r \in Requests :
          /\ r.function \in Functions /\ r.inputs \in Seq(DOMAIN Expand)
          /\ r.counts \in Seq(Nat) /\ r.workers \in Nat

VARIABLES
    q,          \* the request being answered
    pc,         \* where run stands
    caps,       \* CAPABILITIES: published versions that acknowledged
    code,       \* what each function names now
    calls,      \* the invocations of the current step, in payload order
    prepared,   \* the preparation the plan came from
    outcome,    \* how the query ended
    answer,     \* its rows
    acked,      \* whether this query has seen an acknowledgement
    queries, deploys

vars == <<q, pc, caps, code, calls, prepared, outcome, answer, acked,
          queries, deploys>>

-----------------------------------------------------------------------------
(* Values: a number, NULL, or a text, as JSON gives them to the merge.  A  *)
(* text of n is "NaN" written n times; an error is a TypeError raised.     *)

Num(n) == [t |-> "num", v |-> n]
Null == [t |-> "null", v |-> 0]
Text(n) == [t |-> "text", v |-> n]
Error == [t |-> "error", v |-> 0]

Lesser(m, n) == IF m < n THEN m ELSE n
Greater(m, n) == IF m < n THEN n ELSE m

\* Decimal + Decimal in a context of bounded precision (28 digits unless set):
\* past it the last digit is rounded away, half to even.
Rounded(n) ==
    LET tens == n \div 10
    IN  IF n < Precision /\ -n < Precision THEN n
        ELSE IF n % 10 < 5 \/ (n % 10 = 5 /\ tens % 2 = 0) THEN 10 * tens
        ELSE 10 * (tens + 1)

\* fanout.add: numbers add, a string can only be joined to a string.
Plus(a, b) ==
    CASE a = Null -> b
      [] b = Null -> a
      [] a.t = "num" /\ b.t = "num" -> Num(Rounded(a.v + b.v))
      [] a.t = "text" /\ b.t = "text" -> Text(a.v + b.v)
      [] OTHER -> Error

\* min(have, v) and max(have, v) under Pick; Python compares no number with
\* a text, and equal texts are the same text.
Extreme(Pick(_, _), a, b) ==
    CASE b = Null -> a
      [] a = Null -> b
      [] a.t = "num" /\ b.t = "num" -> Num(Pick(a.v, b.v))
      [] a.t = "text" /\ b.t = "text" -> a
      [] OTHER -> Error

Column(parts, name) == [i \in DOMAIN parts |-> parts[i][name]]

\* fanout.fold: of one aggregate, over the workers' partials in payload order.
Folded(name, parts) ==
    LET column == Column(parts, name)
    IN  CASE name \in {"count", "sum"} -> FoldLeft(Plus, Null, column)
          [] name = "min" -> FoldLeft(LAMBDA m, x : Extreme(Lesser, m, x), Null, column)
          [] name = "max" -> FoldLeft(LAMBDA m, x : Extreme(Greater, m, x), Null, column)
          [] OTHER -> [sum |-> FoldLeft(Plus, Null, Column(column, "sum")),
                       count |-> FoldLeft(+, 0, Column(column, "count"))]

\* fanout.finish: an average is float(sum) / count, kept here as the pair, or
\* NULL; float("NaNNaN") raises.  Every other aggregate is what was folded.
Finished(name, v) ==
    IF name # "avg" THEN v
    ELSE IF v.count = 0 \/ v.sum = Null THEN [sum |-> Null, count |-> 0]
    ELSE IF v.sum.t = "text" /\ v.sum.v > 1 THEN [v EXCEPT !.sum = Error]
    ELSE v

\* What is asked for is folded, and nothing else.
Told(asked, parts) == [name \in asked |-> Finished(name, Folded(name, parts))]

Raises(a) == \E name \in DOMAIN a : Error = IF name = "avg" THEN a[name].sum ELSE a[name]

\* fanout.merge of the agg members: one accumulator, or one per group, the
\* groups in their order of arrival.
Merge(answers, r) ==
    LET rows == FlattenSeq(answers)
        isFirst(i) == \A j \in 1..i - 1 : rows[j].g # rows[i].g
        firsts == SelectSeq([i \in DOMAIN rows |-> i], isFirst)
        partsOf(g) == Column(SelectSeq(rows, LAMBDA row : row.g = g), "a")
    IN  IF r.grouped
        THEN [k \in DOMAIN firsts |->
                [g |-> rows[firsts[k]].g, a |-> Told(r.asked, partsOf(rows[firsts[k]].g))]]
        ELSE << [g |-> Null, a |-> Told(r.asked, partsOf(Null))] >>

-----------------------------------------------------------------------------
(* fanout.order: the last item of ORDER BY sorts first, stably.  (No        *)
(* request here orders by an average.)                                     *)

Cell(row, name) == IF name = "g" THEN row.g ELSE row.a[name]

\* A strict comparison with NULL after everything, whichever the direction.
Precedes(x, y, item) ==
    LET a == Cell(x, item.name)
        b == Cell(y, item.name)
    IN  /\ a # Null
        /\ b = Null \/ (IF item.desc THEN a.v > b.v ELSE a.v < b.v)

\* sorted() is stable: rows that tie keep their places.
SortedBy(rows, item) ==
    LET before(i) == {j \in DOMAIN rows :
            \/ Precedes(rows[j], rows[i], item)
            \/ j < i /\ ~ Precedes(rows[i], rows[j], item)}
    IN  [k \in DOMAIN rows |->
            rows[CHOOSE i \in DOMAIN rows : Cardinality(before(i)) = k - 1]]

Limited(rows, limit) == IF limit < 0 THEN rows ELSE SubSeq(rows, 1, Lesser(limit, Len(rows)))

Ordered(rows, r) == Limited(FoldLeft(SortedBy, rows, Reverse(r.order)), r.limit)

\* A name that is no output column is refused, when there are rows; a number
\* and a text in one column cannot be compared.
ItemTrouble(rows, r, item) ==
    IF item.name \notin r.asked \cup {"g"} THEN "refused"
    ELSE IF {"num", "text"} \subseteq {Cell(rows[i], item.name).t : i \in DOMAIN rows} THEN "raised"
    ELSE "none"

\* What the last troubling item, the first that is sorted by, comes to.
OrderTrouble(rows, r) ==
    LET bad == SelectSeq(r.order, LAMBDA item : ItemTrouble(rows, r, item) # "none")
    IN  IF rows = <<>> \/ bad = <<>> THEN "none" ELSE ItemTrouble(rows, r, Last(bad))

-----------------------------------------------------------------------------
(* fanout.split: at most `workers` contiguous runs of near-equal length.   *)

Units(counts) ==
    FlattenSeq([i \in DOMAIN counts |-> [rg \in 1..counts[i] |-> [i |-> i, rg |-> rg]]])

\* The unit joins the run's last range when it is of the same input.
Joined(run, unit) ==
    IF run # <<>> /\ Last(run).i = unit.i
    THEN Front(run) \o << [Last(run) EXCEPT !.end = unit.rg] >>
    ELSE Append(run, [i |-> unit.i, start |-> unit.rg, end |-> unit.rg])

\* MUTANT: equal shares, the remainder left to nobody.
Split_EqualShares(counts, workers) ==
    LET units == Units(counts)
        n == Lesser(workers, Len(units))
        share == Len(units) \div n
    IN  [k \in 1..n |-> FoldLeft(Joined, <<>>, SubSeq(units, (k - 1) * share + 1, k * share))]

Split(counts, workers) ==
    LET units == Units(counts)
        n == Lesser(workers, Len(units))
    IN  [k \in 1..n |-> FoldLeft(Joined, <<>>,
            SubSeq(units, ((k - 1) * Len(units)) \div n + 1, (k * Len(units)) \div n))]

-----------------------------------------------------------------------------
(* What a worker answers (external).                                       *)

\* The rows of a list of ranges, in order.
RowsOf(inputs, ranges) ==
    FlattenSeq([k \in DOMAIN ranges |->
        FlattenSeq(SubSeq(Table[inputs[ranges[k].i]], ranges[k].start, ranges[k].end))])

\* One range over each whole input.
Whole(inputs) ==
    [i \in DOMAIN inputs |-> [i |-> i, start |-> 1, end |-> Len(Table[inputs[i]])]]

Values(rows) == LET kept == SelectSeq(rows, LAMBDA row : row.v # Null)
                IN  [i \in DOMAIN kept |-> kept[i].v]

\* A NaN makes a sum NaN and lies above every number (statistics-trust.md:17).
SumOf(values) ==
    IF values = <<>> THEN Null
    ELSE IF Text(1) \in ToSet(values) THEN Text(1)
    ELSE Num(FoldLeft(LAMBDA s, x : s + x.v, 0, values))

ExtremeOf(Pick(_, _), values) ==
    LET numbers == SelectSeq(values, LAMBDA x : x.t = "num")
    IN  IF values = <<>> THEN Null
        ELSE IF numbers = <<>> THEN Text(1)
        ELSE FoldLeft(LAMBDA m, x : Num(Pick(m.v, x.v)), Head(numbers), numbers)

Partial(rows) ==
    LET values == Values(rows)
    IN  [count |-> Num(Len(values)), sum |-> SumOf(values),
         min |-> ExtremeOf(Lesser, values),
         max |-> IF Text(1) \in ToSet(values) THEN Text(1) ELSE ExtremeOf(Greater, values),
         avg |-> [sum |-> SumOf(values), count |-> Len(values)]]

\* The agg member: one row of partials, or one per group among the rows.
Agg(rows, grouped) ==
    IF grouped
    THEN LET keys == SetToSeq({rows[i].g : i \in DOMAIN rows})
         IN  [j \in DOMAIN keys |->
                [g |-> keys[j],
                 a |-> Partial(SelectSeq(rows, LAMBDA row : row.g = keys[j]))]]
    ELSE << [g |-> Null, a |-> Partial(rows)] >>

Failure == [kind |-> "failure"]

\* Native preparation: every input's footer is opened and its schema checked.
Preparation(version, inputs, asks) ==
    LET files == FlattenSeq([i \in DOMAIN inputs |-> Expand[inputs[i]]])
    IN  IF /\ version \in Speaks
           /\ files # <<>> /\ asks = "merge"
           /\ \A i, j \in DOMAIN files : Schema[files[i]] = Schema[files[j]]
        THEN [kind |-> "prepared", plan |-> version,
              inputs |-> files, counts |-> [i \in DOMAIN files |-> Len(Table[files[i]])]]
        ELSE Failure

\* A worker binds the plan, which names no schema, against its own footers:
\* a range past one fails it, and inputs it is not given cannot.
Execution(version, call) ==
    IF /\ version \in Speaks
       /\ \A k \in DOMAIN call.ranges :
            call.ranges[k].end <= Len(Table[call.inputs[call.ranges[k].i]])
       /\ \A i, j \in DOMAIN call.inputs : Schema[call.inputs[i]] = Schema[call.inputs[j]]
    THEN [kind |-> "agg", rows |-> Agg(RowsOf(call.inputs, call.ranges), q.grouped)]
    ELSE Failure

Reply(call) ==
    CASE call.op = "capabilities" ->
            [kind |-> IF call.version \in Speaks THEN "v1" ELSE "unrelated"]
      [] call.op = "prepare" -> Preparation(call.version, call.inputs, q.asks)
      [] OTHER -> Execution(call.version, call)

-----------------------------------------------------------------------------
(* The coordinator.                                                        *)

NoReply == [kind |-> "none"]

\* Every call goes to the function the request names, whatever code that is
\* when the call arrives (fanout.py:173).
Call(op, inputs, ranges, plan) ==
    [op |-> op, inputs |-> inputs, ranges |-> ranges, plan |-> plan,
     state |-> "ready", version |-> "none", reply |-> NoReply]

\* MUTANT: an invocation that raised is waited for still.
Landed_OnlyReturned(call) == call.state = "returned"

Landed(call) == call.state \in {"returned", "raised"}

AllLanded == \A i \in DOMAIN calls : Landed(calls[i])

Init ==
    /\ q \in Requests
    /\ pc = "idle"
    /\ caps = {}
    /\ code = Code0
    /\ calls = <<>>
    /\ prepared = NoReply
    /\ outcome = "none" /\ answer = <<>>
    /\ acked = FALSE
    /\ queries = 0 /\ deploys = 0

\* The query ends with an error: Refused and WorkerFailed are answered by
\* name (fanout.py:307), anything else raises out of the handler.
EndWith(how) ==
    /\ pc' = "idle"
    /\ outcome' = how
    /\ UNCHANGED <<calls, prepared, answer>>

Answered(rows) ==
    /\ pc' = "idle"
    /\ outcome' = "answered"
    /\ answer' = rows
    /\ UNCHANGED <<calls, prepared>>

\* Only literal inputs with counts may be planned from the first footer.
Early(r) ==
    r.counts # <<>> /\ r.inputs # <<>> /\ \A i \in DOMAIN r.inputs : Expand[r.inputs[i]] = <<r.inputs[i]>>

PrepareCall(inputs) == Call("prepare", inputs, <<>>, "none")

FirstPreparation(r) ==
    << PrepareCall(IF Early(r) THEN SubSeq(r.inputs, 1, 1) ELSE r.inputs) >>

\* Whether run may skip the question (fanout.py:210-212).
Known(function) == function \in caps

\* run's entry: what the coordinator cannot take is refused before any call;
\* then negotiate asks, unless this published version has answered before.
Begin(r) ==
    /\ pc = "idle" /\ queries < MaxQueries
    /\ queries' = queries + 1
    /\ q' = r
    /\ acked' = FALSE
    /\ prepared' = NoReply /\ answer' = <<>>
    /\ IF r.asks \in {"sql", "nothing"}
       THEN pc' = "idle" /\ outcome' = "refused" /\ calls' = <<>>
       ELSE /\ outcome' = "none"
            /\ IF Known(r.function)
               THEN pc' = "prepare" /\ calls' = FirstPreparation(r)
               ELSE pc' = "negotiate" /\ calls' = <<Call("capabilities", <<>>, <<>>, "none")>>
    /\ UNCHANGED <<caps, code, deploys>>

\* One thread's client.invoke leaves; the version is the one that receives it.
Invoke(i) ==
    /\ i \in DOMAIN calls /\ calls[i].state = "ready"
    /\ calls' = [calls EXCEPT ![i].state = "flying", ![i].version = code[q.function]]
    /\ UNCHANGED <<q, pc, caps, code, prepared, outcome, answer, acked, queries, deploys>>

\* ... and comes back, in any order.
Return(i) ==
    /\ i \in DOMAIN calls /\ calls[i].state = "flying"
    /\ \E reply \in {Reply(calls[i])} :
         calls' = [calls EXCEPT ![i].state = "returned", ![i].reply = reply]
    /\ UNCHANGED <<q, pc, caps, code, prepared, outcome, answer, acked, queries, deploys>>

\* ... or raises: throttled, timed out, broken off; it is never retried.
Raise(i) ==
    /\ i \in DOMAIN calls /\ calls[i].state = "flying"
    /\ calls' = [calls EXCEPT ![i].state = "raised"]
    /\ UNCHANGED <<q, pc, caps, code, prepared, outcome, answer, acked, queries, deploys>>

\* MUTANT: an alias is remembered as well.
Remembered_Any(function) == TRUE

\* Which functions may be remembered: lambda_invoker's capability_key.
Remembered(function) == function \in Published

\* The end of negotiate: an exact acknowledgement or a refusal.
Negotiate ==
    /\ pc = "negotiate" /\ AllLanded
    /\ IF calls[1].state = "returned" /\ calls[1].reply.kind = "v1"
       THEN /\ pc' = "prepare"
            /\ calls' = FirstPreparation(q)
            /\ acked' = TRUE
            /\ caps' = IF Remembered(q.function) THEN caps \cup {q.function} ELSE caps
            /\ UNCHANGED <<prepared, outcome, answer>>
       ELSE /\ EndWith(IF calls[1].state = "raised" THEN "raised" ELSE "refused")
            /\ UNCHANGED <<caps, acked>>
    /\ UNCHANGED <<q, code, queries, deploys>>

\* The payloads of the scatter: each run's ranges, or, with no row group to
\* read, one worker over the inputs as they are (fanout.py:263-266).
Payloads(inputs, counts, workers, plan) ==
    LET runs == Split(counts, workers)
    IN  IF runs = <<>> THEN << Call("execute", inputs, Whole(inputs), plan) >>
        ELSE [k \in DOMAIN runs |->
                Call("execute", [j \in DOMAIN runs[k] |-> inputs[runs[k][j].i]],
                     [j \in DOMAIN runs[k] |-> [runs[k][j] EXCEPT !.i = j]], plan)]

\* With supplied counts, the full preparation is sent beside the payloads.
FullCheck == IF Early(q) THEN << PrepareCall(q.inputs) >> ELSE <<>>

\* The plan is in: the row groups are cut and everything is handed to the
\* pools of threads (fanout.py:247-278).
Scatter ==
    /\ pc = "prepare" /\ AllLanded
    /\ LET reply == calls[1].reply
           inputs == IF Early(q) THEN q.inputs ELSE reply.inputs
           counts == IF q.counts = <<>> THEN reply.counts ELSE q.counts
       IN  IF reply.kind # "prepared"
           THEN EndWith(IF calls[1].state = "raised" THEN "raised" ELSE "refused")
           ELSE IF Len(counts) # Len(inputs) THEN EndWith("raised")
           ELSE /\ pc' = "execute"
                /\ prepared' = reply
                /\ \E payloads \in {Payloads(inputs, counts, q.workers, reply.plan)} :
                     calls' = FullCheck \o payloads
                /\ UNCHANGED <<outcome, answer>>
    /\ UNCHANGED <<q, caps, code, acked, queries, deploys>>

Parts == IF Early(q) THEN Tail(calls) ELSE calls

\* What the full preparation says of the query; a refusal wins over whatever
\* the scatter brought (fanout.py:272).
FullVerdict ==
    IF ~ Early(q) THEN "agreed"
    ELSE IF calls[1].state = "raised" THEN "raised"
    ELSE IF calls[1].reply.kind # "prepared" THEN "refused"
    ELSE IF calls[1].reply.plan # prepared.plan THEN "differs" ELSE "agreed"

PartsVerdict ==
    IF \E i \in DOMAIN Parts : Parts[i].state = "raised" THEN "raised"
    ELSE IF \E i \in DOMAIN Parts : Parts[i].reply.kind # "agg" THEN "failed"
    ELSE "whole"

\* Both pools are joined before anything is decided, so every invocation has
\* come back by then (fanout.py:194, 269).
Gather ==
    /\ pc = "execute" /\ AllLanded
    /\ IF FullVerdict \in {"raised", "refused"} THEN EndWith(FullVerdict)
       ELSE IF PartsVerdict # "whole" THEN EndWith(PartsVerdict)
       ELSE IF FullVerdict = "differs" THEN EndWith("refused")
       ELSE \E merged \in {Merge([i \in DOMAIN Parts |-> Parts[i].reply.rows], q)} :
              IF \E i \in DOMAIN merged : Raises(merged[i].a) THEN EndWith("raised")
              ELSE IF ~ q.grouped THEN Answered(merged)
              ELSE IF OrderTrouble(merged, q) # "none" THEN EndWith(OrderTrouble(merged, q))
              ELSE \E rows \in {Ordered(merged, q)} : Answered(rows)
    /\ UNCHANGED <<q, caps, code, acked, queries, deploys>>

\* Someone points an alias at another version; a published one never changes.
Deploy(f, version) ==
    /\ deploys < MaxDeploys
    /\ f \in Functions \ Published /\ code[f] # version
    /\ code' = [code EXCEPT ![f] = version]
    /\ deploys' = deploys + 1
    /\ UNCHANGED <<q, pc, caps, calls, prepared, outcome, answer, acked, queries>>

Next ==
    \/ \E r \in Requests : Begin(r)
    \/ \E i \in DOMAIN calls : Invoke(i) \/ Return(i) \/ Raise(i)
    \/ Negotiate
    \/ Scatter
    \/ Gather
    \/ \E f \in Functions, version \in Versions : Deploy(f, version)

Spec == Init /\ [][Next]_vars

\* The threads run, and every invocation comes back: read_timeout is 900 s.
Progress ==
    \/ \E i \in DOMAIN calls : Invoke(i) \/ Return(i) \/ Raise(i)
    \/ Negotiate \/ Scatter \/ Gather

FairSpec == Spec /\ WF_vars(Progress)

-----------------------------------------------------------------------------
(* Properties.                                                             *)

Files == FlattenSeq([i \in DOMAIN q.inputs |-> Expand[q.inputs[i]]])

\* The one answer over every row group: what a single worker would give.
Reference ==
    LET rows == Agg(RowsOf(Files, Whole(Files)), q.grouped)
    IN  {[g |-> rows[i].g, a |-> [name \in q.asked |-> Finished(name, rows[i].a[name])]] : i \in DOMAIN rows}

\* A row with its sum read as a NaN, however often "NaN" is written in it: one
\* worker writes it once (docs/output-format.md:109), and the texts of two are
\* put together (fanout.py:88).
Read(row) ==
    IF "sum" \in DOMAIN row.a /\ row.a["sum"].t = "text" THEN [row EXCEPT !.a["sum"] = Text(1)] ELSE row

\* A comes before B in the requested order, by the first item that tells.
OrderedBefore(a, b) ==
    \E k \in DOMAIN q.order :
        /\ Precedes(a, b, q.order[k])
        /\ \A j \in 1..k - 1 : ~ Precedes(a, b, q.order[j]) /\ ~ Precedes(b, a, q.order[j])

\* An answer is the reference's rows, in order and cut at the limit, of inputs
\* that agree on their schema, but for how a sum that is a NaN is written
\* (Read).  Only counts that leave row groups out may change that;
\* counts past a footer never answer wrongly (fanout.py:233-238).
AnswerIsWhole ==
    outcome = "answered" =>
        /\ \A i, j \in DOMAIN Files : Schema[Files[i]] = Schema[Files[j]]
        /\ (q.counts = <<>> \/ \A i \in DOMAIN Files : q.counts[i] >= Len(Table[Files[i]])) =>
            LET told == [i \in DOMAIN answer |-> Read(answer[i])]
            IN  /\ ToSet(told) \subseteq Reference
                /\ IsInjective(told)
                /\ Len(told) = IF q.grouped /\ q.limit >= 0
                               THEN Lesser(q.limit, Cardinality(Reference))
                               ELSE Cardinality(Reference)
                /\ q.grouped =>
                    /\ \A i, j \in DOMAIN told : i < j => ~ OrderedBefore(told[j], told[i])
                    /\ \A left \in Reference \ ToSet(told) :
                         \A i \in DOMAIN told : ~ OrderedBefore(left, told[i])

\* No inputs leave for code that has not acknowledged structured plans: a
\* published version has, in this query or an earlier one; of an alias, the
\* same query has an acknowledgement (fanout.py:202-219, PLAN-V1.md).
InputsAfterAcknowledgement ==
    \A i \in DOMAIN calls :
        calls[i].op # "capabilities" /\ calls[i].state # "ready" =>
            IF q.function \in Published THEN calls[i].version \in Speaks ELSE acked

\* A query ends, however its invocations fare, and none of them outlives it.
QueryEnds == [](pc # "idle" => <>(pc = "idle" /\ AllLanded))
=============================================================================
