------------------------------ MODULE Fanout_proofs ------------------------------
(***************************************************************************)
(* The coordinator for any functions, versions, tables and requests, and   *)
(* however often aliases are moved: no inputs leave for code that has not  *)
(* acknowledged structured plans, and what is answered is of one schema.   *)
(* What the merge adds up to stays with TLC: it is rounded past Precision. *)
(***************************************************************************)
EXTENDS Fanout, DataLemmas, SequenceTheorems, TLAPS

\* The inputs a list stands for are of one schema.
Agree(inputs) ==
    LET files == FlattenSeq([i \in DOMAIN inputs |-> Expand[inputs[i]]])
    IN  \A i, j \in DOMAIN files : Schema[files[i]] = Schema[files[j]]

\* What may be sent may be: the published version knows the plans, or the query
\* has seen an acknowledgement.
Trusted == IF q.function \in Published THEN Code0[q.function] \in Speaks ELSE acked

IsCall(x) ==
    x \in [op : {x.op}, inputs : {x.inputs}, ranges : {x.ranges}, plan : {x.plan},
           state : {x.state}, version : {x.version}, reply : {x.reply}]

\* A call carries inputs only if it may, a published version is what it always
\* was, and a reply says what the version that gave it does.
CallInv(x) ==
    /\ IsCall(x)
    /\ x.op # "capabilities" => Trusted
    /\ x.op = "prepare" => x.inputs \in Seq(DOMAIN Expand)
    /\ x.state # "ready" /\ q.function \in Published => x.version = Code0[q.function]
    /\ x.state # "returned" => x.reply = NoReply
    /\ x.op = "capabilities" /\ x.reply.kind = "v1" => x.version \in Speaks
    /\ x.op = "prepare" /\ x.reply.kind = "prepared" => Agree(x.inputs) /\ x.reply.counts \in Seq(Nat)

Types ==
    /\ q \in Requests
    /\ pc \in {"idle", "negotiate", "prepare", "execute"}
    /\ code \in [Functions -> Versions]
    /\ Len(calls) \in Nat /\ calls = [i \in 1..Len(calls) |-> calls[i]]

\* A published version never changes, and what is remembered are such versions
\* that know the plans.
Remembers ==
    /\ \A f \in Published : code[f] = Code0[f]
    /\ \A f \in caps : f \in Published /\ Code0[f] \in Speaks

Calls == \A i \in 1..Len(calls) : CallInv(calls[i])

\* The calls of a step, and what is known when it is reached.
Stage ==
    /\ pc = "negotiate" => Len(calls) = 1 /\ calls[1].op = "capabilities"
    /\ pc \in {"prepare", "execute"} => Trusted
    /\ pc = "prepare" =>
         Len(calls) = 1 /\ calls[1].op = "prepare" /\ (~ Early(q) => calls[1].inputs = q.inputs)
    /\ pc = "execute" =>
         IF Early(q) THEN Len(calls) >= 1 /\ calls[1].op = "prepare" /\ calls[1].inputs = q.inputs
         ELSE Agree(q.inputs)
    /\ outcome = "answered" => Agree(q.inputs)

FanoutInv == Types /\ Remembers /\ Calls /\ Stage

-----------------------------------------------------------------------------
(* Calls as they are made, sent and answered.                               *)

\* A call not sent yet says nothing.
LEMMA ReadyCall ==
    ASSUME NEW op, NEW inputs, NEW ranges, NEW plan, op # "capabilities" => Trusted,
           op = "prepare" => inputs \in Seq(DOMAIN Expand)
    PROVE  CallInv(Call(op, inputs, ranges, plan)) /\ Call(op, inputs, ranges, plan).op = op
           /\ Call(op, inputs, ranges, plan).inputs = inputs
    BY DEF CallInv, IsCall, Call, NoReply

\* A step of one call leaves the others, and the list as long as it is.
LEMMA OneCall ==
    ASSUME FanoutInv, NEW i \in DOMAIN calls, NEW y, calls' = [calls EXCEPT ![i] = y],
           UNCHANGED <<q, pc, caps, code, prepared, outcome, answer, acked, queries, deploys>>,
           CallInv(y), y.op = calls[i].op, y.inputs = calls[i].inputs
    PROVE  FanoutInv'
<1> USE DEF FanoutInv
<1>1. DOMAIN calls = 1..Len(calls) /\ Len(calls) \in Nat
    BY DEF Types
<1>2. /\ DOMAIN calls' = 1..Len(calls) /\ calls' = [j \in 1..Len(calls) |-> calls'[j]]
      /\ \A j \in 1..Len(calls) : calls'[j] = IF j = i THEN y ELSE calls[j]
    BY <1>1
<1>3. Len(calls') = Len(calls)
    BY <1>1, <1>2
<1>4. Types'
    BY <1>2, <1>3 DEF Types
<1>5. Remembers'
    BY DEF Remembers
<1>6. Trusted' = Trusted
    BY DEF Trusted
<1>8. Calls'
    <2>1. \A j \in 1..Len(calls) : CallInv(calls'[j])
        BY <1>2 DEF Calls
    <2>2. ASSUME NEW j \in 1..Len(calls) PROVE CallInv(calls[j])'
        BY <2>1, <1>6 DEF CallInv, IsCall
    <2> QED
        BY <2>2, <1>3 DEF Calls
<1>9. \A j \in 1..Len(calls) : calls'[j].op = calls[j].op /\ calls'[j].inputs = calls[j].inputs
    BY <1>2
<1>7. Early(q)' = Early(q) /\ Agree(q.inputs)' = Agree(q.inputs)
    BY DEF Early, Agree
<1>10. Stage'
    BY <1>1, <1>3, <1>6, <1>7, <1>9 DEF Stage
<1> QED
    BY <1>4, <1>5, <1>8, <1>10

LEMMA InvokeKeeps == ASSUME FanoutInv, NEW i, Invoke(i) PROVE FanoutInv'
<1> DEFINE x == calls[i]
           y == [x EXCEPT !.state = "flying", !.version = code[q.function]]
<1>1. i \in DOMAIN calls /\ CallInv(x) /\ x.state = "ready"
    BY DEF Invoke, FanoutInv, Calls, Types
<1>2. calls' = [calls EXCEPT ![i] = y]
    BY DEF Invoke
<1>3. CallInv(y) /\ y.op = x.op /\ y.inputs = x.inputs
    <2>1. /\ IsCall(y) /\ y.op = x.op /\ y.inputs = x.inputs /\ y.reply = x.reply
          /\ y.version = code[q.function] /\ y.state = "flying"
        BY <1>1 DEF CallInv, IsCall
    <2>2. q.function \in Published => code[q.function] = Code0[q.function]
        BY DEF FanoutInv, Remembers
    <2>3. x.reply = NoReply
        BY <1>1 DEF CallInv
    <2> HIDE DEF y
    <2> QED
        BY <1>1, <2>1, <2>2, <2>3 DEF CallInv, NoReply
<1> HIDE DEF y
<1> QED
    BY <1>1, <1>2, <1>3, OneCall DEF Invoke

\* A prepared plan is of inputs that agree, with as many counts as numbers.
LEMMA PreparedAgrees ==
    ASSUME NEW version, NEW inputs, NEW asks, Preparation(version, inputs, asks).kind = "prepared",
           inputs \in Seq(DOMAIN Expand)
    PROVE  Agree(inputs) /\ Preparation(version, inputs, asks).counts \in Seq(Nat)
<1> DEFINE files == FlattenSeq([i \in DOMAIN inputs |-> Expand[inputs[i]]])
<1>1. /\ \A i, j \in DOMAIN files : Schema[files[i]] = Schema[files[j]]
      /\ Preparation(version, inputs, asks).counts = [i \in DOMAIN files |-> Len(Table[files[i]])]
    BY DEF Preparation, Failure
<1>2. files \in Seq(DOMAIN Table)
    <2> DEFINE each == [i \in DOMAIN inputs |-> Expand[inputs[i]]]
    <2>1. Len(each) = Len(inputs) /\ Len(inputs) \in Nat /\ \A n \in 1..Len(inputs) : each[n] \in Seq(DOMAIN Table)
        BY FunctionsAssumption
    <2>2. Len(each) = 0 => each = <<>>
        BY <2>1
    <2> HIDE DEF each
    <2>3. FlattenSeq(each) \in Seq(DOMAIN Table)
        BY <2>1, <2>2, Flattened
    <2> QED
        BY <2>3 DEF each
<1> HIDE DEF files
<1> DEFINE counts == [i \in 1..Len(files) |-> Len(Table[files[i]])]
<1>3. Len(files) \in Nat /\ DOMAIN files = 1..Len(files) /\ \A i \in 1..Len(files) : files[i] \in DOMAIN Table
    BY <1>2
<1>4. counts \in [1..Len(files) -> Nat]
    BY <1>3, FunctionsAssumption
<1> HIDE DEF counts
<1>5. counts \in Seq(Nat)
    BY <1>3, <1>4
<1>6. counts = [i \in DOMAIN files |-> Len(Table[files[i]])]
    BY <1>3 DEF counts
<1> QED
    BY <1>1, <1>5, <1>6 DEF Agree, files

LEMMA ReturnKeeps == ASSUME FanoutInv, NEW i, Return(i) PROVE FanoutInv'
<1> DEFINE x == calls[i]
           reply == Reply(calls[i])
           y == [x EXCEPT !.state = "returned", !.reply = reply]
<1>1. i \in DOMAIN calls /\ CallInv(x) /\ x.state = "flying"
    BY DEF Return, FanoutInv, Calls, Types
<1>2. calls' = [calls EXCEPT ![i] = y]
    BY DEF Return
<1>3. x.op = "capabilities" /\ reply.kind = "v1" => x.version \in Speaks
    BY DEF Reply
<1>4. x.op = "prepare" /\ reply.kind = "prepared" => Agree(x.inputs) /\ reply.counts \in Seq(Nat)
    <2>1. SUFFICES ASSUME x.op = "prepare", reply.kind = "prepared"
                   PROVE  Agree(x.inputs) /\ reply.counts \in Seq(Nat)
        OBVIOUS
    <2>2. reply = Preparation(x.version, x.inputs, q.asks)
        BY <2>1 DEF Reply
    <2>3. x.inputs \in Seq(DOMAIN Expand)
        BY <1>1, <2>1 DEF CallInv
    <2> QED
        BY <2>1, <2>2, <2>3, PreparedAgrees
<1> HIDE DEF reply
<1>5. CallInv(y) /\ y.op = x.op /\ y.inputs = x.inputs
    <2>1. /\ IsCall(y) /\ y.op = x.op /\ y.inputs = x.inputs /\ y.reply = reply
          /\ y.version = x.version /\ y.state = "returned"
        BY <1>1 DEF CallInv, IsCall
    <2> HIDE DEF y
    <2> QED
        BY <1>1, <1>3, <1>4, <2>1 DEF CallInv
<1> HIDE DEF y
<1> QED
    BY <1>1, <1>2, <1>5, OneCall DEF Return

LEMMA RaiseKeeps == ASSUME FanoutInv, NEW i, Raise(i) PROVE FanoutInv'
<1> DEFINE x == calls[i]
           y == [x EXCEPT !.state = "raised"]
<1>1. i \in DOMAIN calls /\ CallInv(x) /\ x.state = "flying"
    BY DEF Raise, FanoutInv, Calls, Types
<1>2. calls' = [calls EXCEPT ![i] = y]
    BY DEF Raise
<1>3. CallInv(y) /\ y.op = x.op /\ y.inputs = x.inputs
    <2>1. /\ IsCall(y) /\ y.op = x.op /\ y.inputs = x.inputs /\ y.reply = x.reply
          /\ y.version = x.version /\ y.state = "raised"
        BY <1>1 DEF CallInv, IsCall
    <2> HIDE DEF y
    <2> QED
        BY <1>1, <2>1 DEF CallInv
<1> HIDE DEF y
<1> QED
    BY <1>1, <1>2, <1>3, OneCall DEF Raise

-----------------------------------------------------------------------------
(* The steps of the coordinator.                                            *)

\* One call, of a list of its own.
LEMMA JustOne ==
    ASSUME NEW x
    PROVE  Len(<<x>>) = 1 /\ Len(<<x>>) \in Nat /\ <<x>> = [i \in 1..1 |-> <<x>>[i]] /\ <<x>>[1] = x
    OBVIOUS

\* The first preparation is one call, over the inputs themselves or the first.
LEMMA FirstIs ==
    ASSUME NEW r \in Requests
    PROVE  \E inputs \in Seq(DOMAIN Expand) :
              FirstPreparation(r) = <<PrepareCall(inputs)>> /\ (~ Early(r) => inputs = r.inputs)
<1>1. r.inputs \in Seq(DOMAIN Expand)
    BY FunctionsAssumption
<1>2. CASE ~ Early(r)
    BY <1>1, <1>2 DEF FirstPreparation
<1>3. CASE Early(r)
    <2>1. SubSeq(r.inputs, 1, 1) \in Seq(DOMAIN Expand)
        BY <1>1, <1>3, SubSeqProperties DEF Early
    <2> QED
        BY <1>3, <2>1 DEF FirstPreparation
<1> QED
    BY <1>2, <1>3

\* A list of one new call.
LEMMA OneNew ==
    ASSUME FanoutInv, NEW x, calls' = <<x>>, CallInv(x)'
    PROVE  Len(calls') = 1 /\ calls'[1] = x /\ Calls' /\ calls' = [i \in 1..Len(calls') |-> calls'[i]]
<1>1. Len(calls') = 1 /\ calls'[1] = x /\ calls' = [i \in 1..Len(calls') |-> calls'[i]]
    BY JustOne
<1> QED
    BY <1>1 DEF Calls

LEMMA BeginKeeps == ASSUME FanoutInv, NEW r \in Requests, Begin(r) PROVE FanoutInv'
<1> USE DEF FanoutInv
<1>1. q' = r /\ acked' = FALSE /\ UNCHANGED <<caps, code, deploys>>
    BY DEF Begin
<1>2. Remembers'
    BY <1>1 DEF Remembers
<1>3. CASE r.asks \in {"sql", "nothing"}
    <2>1. pc' = "idle" /\ outcome' = "refused" /\ calls' = <<>>
        BY <1>3 DEF Begin
    <2>2. Len(calls') = 0 /\ calls' = [i \in 1..Len(calls') |-> calls'[i]]
        BY <2>1
    <2>3. Types' /\ Calls' /\ Stage'
        BY <1>1, <2>1, <2>2 DEF Types, Calls, Stage
    <2> QED
        BY <1>2, <2>3
<1>4. CASE r.asks \notin {"sql", "nothing"} /\ Known(r.function)
    <2>1. pc' = "prepare" /\ outcome' = "none" /\ calls' = FirstPreparation(r)
        BY <1>4 DEF Begin
    <2>2. Trusted'
        BY <1>1, <1>4 DEF Remembers, Known, Trusted
    <2>3. PICK inputs \in Seq(DOMAIN Expand) : calls' = <<PrepareCall(inputs)>> /\ (~ Early(r) => inputs = r.inputs)
        BY <2>1, FirstIs
    <2> DEFINE x == PrepareCall(inputs)
    <2>4. CallInv(x)' /\ x.op = "prepare" /\ x.inputs = inputs
        BY <2>2 DEF CallInv, IsCall, PrepareCall, Call, NoReply
    <2> HIDE DEF x
    <2>5. Len(calls') = 1 /\ calls'[1] = x /\ Calls' /\ calls' = [i \in 1..Len(calls') |-> calls'[i]]
        BY <2>3, <2>4, OneNew DEF x
    <2>6. Types'
        BY <1>1, <2>1, <2>5 DEF Types
    <2>7. Early(q)' = Early(r)
        BY <1>1 DEF Early
    <2>8. Stage'
        BY <1>1, <2>1, <2>2, <2>3, <2>4, <2>5, <2>7 DEF Stage
    <2> QED
        BY <1>2, <2>5, <2>6, <2>8
<1>5. CASE r.asks \notin {"sql", "nothing"} /\ ~ Known(r.function)
    <2> DEFINE x == Call("capabilities", <<>>, <<>>, "none")
    <2>1. pc' = "negotiate" /\ outcome' = "none" /\ calls' = <<x>>
        BY <1>5 DEF Begin
    <2>2. CallInv(x)' /\ x.op = "capabilities"
        BY DEF CallInv, IsCall, Call, NoReply
    <2> HIDE DEF x
    <2>3. Len(calls') = 1 /\ calls'[1] = x /\ Calls' /\ calls' = [i \in 1..Len(calls') |-> calls'[i]]
        BY <2>1, <2>2, OneNew
    <2>4. Types' /\ Stage'
        BY <1>1, <2>1, <2>2, <2>3 DEF Types, Stage
    <2> QED
        BY <1>2, <2>3, <2>4
<1> QED
    BY <1>3, <1>4, <1>5

\* A step that ends the query leaves its calls and what they may carry.
LEMMA Ends ==
    ASSUME FanoutInv, pc' = "idle", UNCHANGED <<q, code, caps, calls, acked>>,
           outcome' = "answered" => Agree(q.inputs)
    PROVE  FanoutInv'
<1> USE DEF FanoutInv
<1>1. Types' /\ Remembers' /\ Trusted' = Trusted
    BY DEF Types, Remembers, Trusted
<1>2. Calls'
    BY <1>1 DEF Calls, CallInv
<1>3. Stage'
    BY DEF Stage
<1> QED
    BY <1>1, <1>2, <1>3

LEMMA NegotiateKeeps == ASSUME FanoutInv, Negotiate PROVE FanoutInv'
<1> USE DEF FanoutInv
<1>1. pc = "negotiate" /\ UNCHANGED <<q, code>> /\ Len(calls) = 1 /\ CallInv(calls[1]) /\ calls[1].op = "capabilities"
      /\ q \in Requests
    BY DEF Negotiate, Stage, Calls, Types
<1>2. CASE calls[1].state = "returned" /\ calls[1].reply.kind = "v1"
    <2>1. /\ pc' = "prepare" /\ calls' = FirstPreparation(q) /\ acked' = TRUE /\ outcome' = outcome
          /\ caps' = IF Remembered(q.function) THEN caps \cup {q.function} ELSE caps
        BY <1>2 DEF Negotiate
    <2>2. q.function \in Published => Code0[q.function] \in Speaks
        BY <1>1, <1>2 DEF CallInv
    <2>3. Trusted' /\ Remembers'
        BY <1>1, <2>1, <2>2 DEF Trusted, Remembers, Remembered
    <2>4. PICK inputs \in Seq(DOMAIN Expand) : calls' = <<PrepareCall(inputs)>> /\ (~ Early(q) => inputs = q.inputs)
        BY <1>1, <2>1, FirstIs
    <2> DEFINE x == PrepareCall(inputs)
    <2>5. CallInv(x)' /\ x.op = "prepare" /\ x.inputs = inputs
        BY <2>3 DEF CallInv, IsCall, PrepareCall, Call, NoReply
    <2> HIDE DEF x
    <2>6. Len(calls') = 1 /\ calls'[1] = x /\ Calls' /\ calls' = [i \in 1..Len(calls') |-> calls'[i]]
        BY <2>4, <2>5, OneNew DEF x
    <2>7. Types'
        BY <1>1, <2>1, <2>6 DEF Types
    <2>8. Early(q)' = Early(q)
        BY <1>1 DEF Early
    <2>9. Stage'
        BY <1>1, <2>1, <2>3, <2>4, <2>5, <2>6, <2>8 DEF Stage
    <2> QED
        BY <2>3, <2>6, <2>7, <2>9
<1>3. CASE ~ (calls[1].state = "returned" /\ calls[1].reply.kind = "v1")
    <2>1. pc' = "idle" /\ UNCHANGED <<q, code, caps, calls, acked>> /\ outcome' \in {"raised", "refused"}
        BY <1>1, <1>3 DEF Negotiate, EndWith
    <2> QED
        BY <2>1, Ends
<1> QED
    BY <1>2, <1>3

LEMMA DeployKeeps == ASSUME FanoutInv, NEW f \in Functions, NEW version \in Versions, Deploy(f, version) PROVE FanoutInv'
<1> USE DEF FanoutInv
<1>1. /\ UNCHANGED <<q, pc, caps, calls, prepared, outcome, answer, acked, queries>>
      /\ code' = [code EXCEPT ![f] = version] /\ f \notin Published
    BY DEF Deploy
<1>2. Types' /\ Remembers'
    BY <1>1, FunctionsAssumption DEF Types, Remembers
<1>3. Trusted' = Trusted
    BY <1>1 DEF Trusted
<1>4. Calls'
    BY <1>1, <1>3 DEF Calls, CallInv
<1>5. Early(q)' = Early(q)
    BY <1>1 DEF Early
<1>6. Stage'
    BY <1>1, <1>3, <1>5 DEF Stage
<1> QED
    BY <1>2, <1>4, <1>6

-----------------------------------------------------------------------------
(* The scatter and the gather.                                              *)

LEMMA FunctionIsSeq ==
    ASSUME NEW S, NEW n \in Nat, NEW f \in [1..n -> S]
    PROVE  f \in Seq(S) /\ Len(f) = n /\ f = [k \in 1..n |-> f[k]]
    OBVIOUS

LEMMA SplitIs ==
    ASSUME NEW counts \in Seq(Nat), NEW workers \in Nat
    PROVE  Len(Split(counts, workers)) \in Nat /\ DOMAIN Split(counts, workers) = 1..Len(Split(counts, workers))
<1> DEFINE each == [i \in DOMAIN counts |-> [rg \in 1..counts[i] |-> [i |-> i, rg |-> rg]]]
           S == [i : Nat, rg : Nat]
<1>1. Len(each) \in Nat /\ Len(each) = Len(counts) /\ (Len(each) = 0 => each = <<>>)
    OBVIOUS
<1>2. ASSUME NEW n \in 1..Len(each) PROVE each[n] \in Seq(S)
    <2>1. n \in DOMAIN counts /\ n \in Nat /\ counts[n] \in Nat
        BY <1>1
    <2> DEFINE m == counts[n]
               block == [rg \in 1..m |-> [i |-> n, rg |-> rg]]
    <2>2. block \in [1..m -> S]
        BY <2>1
    <2>3. each[n] = block
        BY <2>1
    <2> HIDE DEF block, m, S
    <2>4. block \in Seq(S)
        BY <2>1, <2>2, FunctionIsSeq DEF m
    <2> QED
        BY <2>3, <2>4
<1> HIDE DEF each, S
<1>3. FlattenSeq(each) \in Seq(S)
    BY <1>1, <1>2, Flattened
<1>4. Len(Units(counts)) \in Nat
    BY <1>3 DEF Units, each
<1>5. Lesser(workers, Len(Units(counts))) \in Nat
    BY <1>4 DEF Lesser
<1> DEFINE n == Lesser(workers, Len(Units(counts)))
<1>6. DOMAIN Split(counts, workers) = 1..n
    BY DEF Split
<1>7. Len(Split(counts, workers)) = n
    <2> DEFINE run(k) == Split(counts, workers)[k]
    <2>1. Split(counts, workers) = [k \in 1..n |-> run(k)]
        BY DEF Split
    <2> HIDE DEF n, run
    <2> QED
        BY <2>1, <1>5 DEF n
<1> QED
    BY <1>5, <1>6, <1>7

\* The payloads are executions.
Handed(ps, plan) ==
    /\ Len(ps) \in Nat /\ ps = [k \in 1..Len(ps) |-> ps[k]]
    /\ \A k \in 1..Len(ps) : \E mine, ranges : ps[k] = Call("execute", mine, ranges, plan)

LEMMA PayloadsAre ==
    ASSUME NEW inputs, NEW counts \in Seq(Nat), NEW workers \in Nat, NEW plan
    PROVE  Handed(Payloads(inputs, counts, workers, plan), plan)
<1> DEFINE runs == Split(counts, workers)
           Mine(k) == [j \in DOMAIN runs[k] |-> inputs[runs[k][j].i]]
           Ranges(k) == [j \in DOMAIN runs[k] |-> [runs[k][j] EXCEPT !.i = j]]
           cut == [k \in DOMAIN runs |-> Call("execute", Mine(k), Ranges(k), plan)]
           ps == Payloads(inputs, counts, workers, plan)
<1>1. CASE runs = <<>>
    <2>1. ps = <<Call("execute", inputs, Whole(inputs), plan)>>
        BY <1>1 DEF Payloads
    <2> HIDE DEF ps
    <2>2. Len(ps) = 1 /\ ps = [k \in 1..1 |-> ps[k]] /\ ps[1] = Call("execute", inputs, Whole(inputs), plan)
        BY <2>1, JustOne
    <2> QED
        BY <2>2 DEF ps, Handed
<1>2. CASE runs # <<>>
    <2>1. ps = cut
        BY <1>2 DEF Payloads
    <2>2. Len(runs) \in Nat /\ DOMAIN runs = 1..Len(runs)
        BY SplitIs
    <2> HIDE DEF runs, ps, Mine, Ranges
    <2>4. Len(cut) = Len(runs) /\ cut = [k \in 1..Len(runs) |-> cut[k]]
          /\ \A k \in 1..Len(runs) : cut[k] = Call("execute", Mine(k), Ranges(k), plan)
        BY <2>2
    <2> HIDE DEF cut
    <2> QED
        BY <2>1, <2>2, <2>4 DEF ps, Handed
<1> QED
    BY <1>1, <1>2

LEMMA ScatterKeeps == ASSUME FanoutInv, Scatter PROVE FanoutInv'
<1> USE DEF FanoutInv
<1> DEFINE first == calls[1]
           inputs == IF Early(q) THEN q.inputs ELSE first.reply.inputs
           counts == IF q.counts = <<>> THEN first.reply.counts ELSE q.counts
           ps == Payloads(inputs, counts, q.workers, first.reply.plan)
<1>1. /\ pc = "prepare" /\ UNCHANGED <<q, caps, code, acked, queries, deploys>> /\ q \in Requests
      /\ Trusted /\ first.op = "prepare" /\ (~ Early(q) => first.inputs = q.inputs) /\ CallInv(first)
    BY DEF Scatter, Stage, Calls, Types
<1>2. ASSUME NEW how \in {"raised", "refused"}, EndWith(how) PROVE FanoutInv'
    <2>1. pc' = "idle" /\ UNCHANGED <<q, code, caps, calls, acked>> /\ outcome' = how
        BY <1>1, <1>2 DEF EndWith
    <2> QED
        BY <2>1, Ends
<1>3. ASSUME first.reply.kind = "prepared", pc' = "execute", outcome' = outcome, calls' = FullCheck \o ps
      PROVE  FanoutInv'
    <2>1. q.inputs \in Seq(DOMAIN Expand) /\ q.workers \in Nat /\ q.counts \in Seq(Nat)
        BY <1>1, FunctionsAssumption
    <2>2. counts \in Seq(Nat) /\ (~ Early(q) => Agree(q.inputs))
        BY <1>1, <1>3, <2>1 DEF CallInv
    <2>3. PICK all : calls' = FullCheck \o all /\ \E plan : Handed(all, plan)
        <3> DEFINE plan == first.reply.plan
                   workers == q.workers
        <3> HIDE DEF inputs, counts, plan, workers
        <3>1. workers \in Nat
            BY <2>1 DEF workers
        <3>2. Handed(Payloads(inputs, counts, workers, plan), plan)
            BY <2>2, <3>1, PayloadsAre
        <3> QED
            BY <1>3, <3>2 DEF plan, workers
    <2>4. Trusted' /\ Remembers' /\ Early(q)' = Early(q)
        BY <1>1 DEF Trusted, Remembers, Early
    <2>5. ASSUME NEW k \in 1..Len(all) PROVE CallInv(all[k])'
        <3>1. PICK mine, ranges, plan : all[k] = Call("execute", mine, ranges, plan)
            BY <2>3 DEF Handed
        <3> QED
            BY <2>4, <3>1 DEF CallInv, IsCall, Call, NoReply
    <2>6. PICK x : x = PrepareCall(q.inputs)
        OBVIOUS
    <2>7. CallInv(x)' /\ x.op = "prepare" /\ x.inputs = q.inputs
        BY <2>1, <2>4, <2>6, <1>1 DEF CallInv, IsCall, PrepareCall, Call, NoReply
    <2> DEFINE S == {all[k] : k \in 1..Len(all)} \cup {x}
    <2>8. all \in Seq(S) /\ Len(all) \in Nat
        <3>1. \A k \in 1..Len(all) : all[k] \in S
            OBVIOUS
        <3> HIDE DEF S
        <3> QED
            BY <2>3, <3>1 DEF Handed
    <2>9. \A y \in S : CallInv(y)'
        BY <2>5, <2>7
    <2>10. FullCheck = (IF Early(q) THEN <<x>> ELSE <<>>) /\ x \in S
        BY <2>6 DEF FullCheck
    <2> HIDE DEF S
    <2>11. FullCheck \in Seq(S) /\ (Early(q) => Len(FullCheck) = 1 /\ FullCheck[1] = x)
        <3>1. <<x>> \in Seq(S) /\ Len(<<x>>) = 1 /\ <<x>>[1] = x /\ <<>> \in Seq(S)
            BY <2>10
        <3> QED
            BY <2>10, <3>1
    <2>12. /\ calls' \in Seq(S) /\ Len(calls') = Len(FullCheck) + Len(all)
           /\ \A k \in 1..Len(FullCheck) : calls'[k] = FullCheck[k]
        BY <2>3, <2>8, <2>11, Concatenated
    <2>13. Len(calls') \in Nat /\ calls' = [k \in 1..Len(calls') |-> calls'[k]] /\ \A k \in 1..Len(calls') : calls'[k] \in S
        BY <2>12
    <2>14. Calls'
        BY <2>9, <2>13 DEF Calls
    <2>15. Types'
        BY <1>1, <1>3, <2>13 DEF Types
    <2>16. ASSUME Early(q) PROVE Len(calls') >= 1 /\ calls'[1] = x
        <3>1. Len(FullCheck) = 1 /\ FullCheck[1] = x
            BY <2>11, <2>16
        <3>2. 1 \in 1..Len(FullCheck) /\ Len(calls') = 1 + Len(all)
            BY <2>12, <3>1
        <3>3. calls'[1] = x
            BY <2>12, <3>1, <3>2
        <3> QED
            BY <2>8, <3>2, <3>3
    <2>17. Agree(q.inputs)' = Agree(q.inputs)
        BY <1>1 DEF Agree
    <2>18. Stage'
        BY <1>1, <1>3, <2>2, <2>4, <2>7, <2>16, <2>17 DEF Stage
    <2> QED
        BY <2>4, <2>14, <2>15, <2>18
<1> QED
    BY <1>2, <1>3 DEF Scatter

LEMMA GatherKeeps == ASSUME FanoutInv, Gather PROVE FanoutInv'
<1> USE DEF FanoutInv
<1>1. pc = "execute" /\ UNCHANGED <<q, caps, code, acked, queries, deploys>>
    BY DEF Gather
<1>2. pc' = "idle" /\ calls' = calls
    BY DEF Gather, EndWith, Answered
<1>3. outcome' = "answered" => FullVerdict \notin {"raised", "refused"}
    BY DEF Gather, EndWith
<1>4. ASSUME FullVerdict \notin {"raised", "refused"} PROVE Agree(q.inputs)
    <2>1. CASE ~ Early(q)
        BY <1>1, <2>1 DEF Stage
    <2>2. CASE Early(q)
        <3>1. calls[1].reply.kind = "prepared"
            BY <1>4, <2>2 DEF FullVerdict
        <3>2. Len(calls) >= 1 /\ Len(calls) \in Nat /\ calls[1].op = "prepare" /\ calls[1].inputs = q.inputs
            BY <1>1, <2>2 DEF Stage, Types
        <3>3. CallInv(calls[1])
            BY <3>2 DEF Calls
        <3> QED
            BY <3>1, <3>2, <3>3 DEF CallInv
    <2> QED
        BY <2>1, <2>2
<1> QED
    BY <1>1, <1>2, <1>3, <1>4, Ends

-----------------------------------------------------------------------------

LEMMA FanoutInitInv == Init => FanoutInv
<1> SUFFICES ASSUME Init PROVE FanoutInv
    OBVIOUS
<1>1. Len(calls) = 0 /\ calls = [i \in 1..Len(calls) |-> calls[i]] /\ code = Code0 /\ caps = {} /\ q \in Requests
    BY DEF Init
<1> QED
    BY <1>1, FunctionsAssumption DEF Init, FanoutInv, Types, Remembers, Calls, Stage

LEMMA FanoutKeeps == FanoutInv /\ [Next]_vars => FanoutInv'
<1> SUFFICES ASSUME FanoutInv, [Next]_vars PROVE FanoutInv'
    OBVIOUS
<1>1. CASE UNCHANGED vars
    <2>1. UNCHANGED <<q, code, caps, calls, acked, pc, outcome>>
        BY <1>1 DEF vars
    <2>2. Trusted' = Trusted /\ Early(q)' = Early(q)
        BY <2>1 DEF Trusted, Early
    <2>3. Types' /\ Remembers' /\ Calls' /\ Stage'
        BY <2>1, <2>2 DEF FanoutInv, Types, Remembers, Calls, CallInv, Stage
    <2> QED
        BY <2>3 DEF FanoutInv
<1> QED
    BY <1>1, BeginKeeps, InvokeKeeps, ReturnKeeps, RaiseKeeps, NegotiateKeeps, ScatterKeeps, GatherKeeps, DeployKeeps DEF Next

LEMMA FanoutAlways == Spec => []FanoutInv
    BY FanoutInitInv, FanoutKeeps, PTL DEF Spec

\* No inputs leave for code that has not acknowledged structured plans, for any
\* functions and requests and however aliases move between two calls
\* (fanout.py:202-219).
THEOREM InputsWait == Spec => []InputsAfterAcknowledgement
<1>1. FanoutInv => InputsAfterAcknowledgement
    <2> SUFFICES ASSUME FanoutInv, NEW i \in DOMAIN calls, calls[i].op # "capabilities", calls[i].state # "ready"
                 PROVE  IF q.function \in Published THEN calls[i].version \in Speaks ELSE acked
        BY DEF InputsAfterAcknowledgement
    <2>1. CallInv(calls[i])
        BY DEF FanoutInv, Types, Calls
    <2> QED
        BY <2>1 DEF CallInv, Trusted
<1> QED
    BY <1>1, FanoutAlways, PTL

\* The inputs of an answered query are of one schema: with counts supplied only
\* the first was prepared before the scatter, and the preparation of all that
\* runs beside it has the last word (fanout.py:263-275).
AnswersAgree == outcome = "answered" => \A i, j \in DOMAIN Files : Schema[Files[i]] = Schema[Files[j]]

THEOREM OneSchema == Spec => []AnswersAgree
<1>1. FanoutInv => AnswersAgree
    BY DEF FanoutInv, Stage, AnswersAgree, Agree, Files
<1> QED
    BY <1>1, FanoutAlways, PTL

================================================================================
