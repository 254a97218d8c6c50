------------------------------ MODULE BenchExport ------------------------------
(***************************************************************************)
(* bench/export.py and bench/requests.py: the saved runs a request names,   *)
(* read while a lane may still be adding to their journals, become cells,  *)
(* an audit of every attempt and a package of files.  An export may die    *)
(* at any write and be retried over what it left.                          *)
(*                                                                         *)
(* A run is [kind, lane, host, zpq, base, planned, expected, head]:    *)
(* native, or of the earlier (legacy) harness; zpq and base are the pins   *)
(* its header recorded ("none" when it did not), expected its engines, a   *)
(* sequence, and head what BenchScore takes.  A request is                 *)
(*   [lanes, targets, controls, runs, selection, expected, host,           *)
(*    candidate, baseline, receipt, stored]                                *)
(* with sequences for what must not repeat; a selection is a set of        *)
(* [lane, case, run], runs a sequence of [id, lane, at].                   *)
(***************************************************************************)
EXTENDS BenchScore, Functions

CONSTANTS
    Requests,    \* what request.json may hold
    Saved,       \* location -> the run saved there
    Most,        \* bound: location -> records of its journal
    MaxOdd,      \* bound: location -> records of it that go wrong
    MaxGrowth,   \* bound: records added under an export
    MaxExports   \* bound: exports started

ASSUME ExportAssumption ==
    /\ \A l \in DOMAIN Saved : Saved[l].head.reps \in Nat \ {0}
    /\ \A r \in Requests : /\ DOMAIN r.runs = 1..Len(r.runs) /\ Len(r.runs) \in Nat
                          /\ \A i \in DOMAIN r.runs : r.runs[i].at \in DOMAIN Saved

VARIABLES
    request,
    journals,    \* location -> the run's journal.jsonl (results.jsonl)
    stage,
    loaded,      \* load_run: the runs read, [run, hashed, records]
    digested,    \* the length of the journal whose bytes were hashed
    pack,        \* make_export: [evidence, cells, audit]
    dst,         \* the destination: file -> [at, data]
    growth, exports

exportVars == <<request, journals, stage, loaded, digested, pack, dst, growth, exports>>

-----------------------------------------------------------------------------
(* What the harnesses may add to a journal.                                *)

Rec(case, engine, rep, rnd, status, hash, valid) ==
    [case |-> case, engine |-> engine, rep |-> rep, round |-> rnd, status |-> status,
     validation |-> IF status = "ok" THEN "ok" ELSE "unchecked", hash |-> hash, valid |-> valid,
     elapsed |-> 1, stall |-> 0, hostFull |-> FALSE, read |-> 1]

Odd(records) == Cardinality({i \in DOMAIN records : records[i].status # "ok" \/ ~ records[i].valid})

\* A lane's turns: the planned cases, and again those a round found disturbed;
\* but for cold, every cell is warmed up by a repetition 0.
LaneTurns(run, records) ==
    UNION {[case : IF rnd = 0 THEN ToSet(run.planned) ELSE Disturbed(run.head.psi, ToSet(records), rnd - 1),
            engine : ToSet(run.expected),
            rep : (IF run.lane = "cold" THEN 1 ELSE 0)..run.head.reps,
            round : {rnd}] : rnd \in 0..run.head.maxRound}

\* Rep by rep, case by case, engine by engine; in the engine lane an engine has
\* all its repetitions of a case together.
Place(run, t) ==
    LET case == CHOOSE i \in DOMAIN run.planned : run.planned[i] = t.case
        engine == CHOOSE i \in DOMAIN run.expected : run.expected[i] = t.engine
    IN  IF run.lane = "engine" THEN <<t.round, case, engine, t.rep>> ELSE <<t.round, t.rep, case, engine>>

Precedes(a, b) == \E k \in 1..4 : a[k] < b[k] /\ \A j \in 1..k - 1 : a[j] = b[j]

\* One process runs all the repetitions of a cell, which its lane records one
\* by one and, killed among them, runs all again.
InSession(run, x) == run.lane = "engine" /\ x.engine \notin {"zpq", "base"} /\ x.rep < run.head.reps

NativeNext(l, records) ==
    LET run == Saved[l]
        open == {t \in LaneTurns(run, records) :
                    \A i \in DOMAIN records : t # [case |-> records[i].case, engine |-> records[i].engine,
                                                   rep |-> records[i].rep, round |-> records[i].round]}
        first == {t \in open : \A u \in open \ {t} : Precedes(Place(run, t), Place(run, u))}
        statuses == IF Odd(records) < MaxOdd[l] THEN {"ok", "disturbed", "failed"} ELSE {"ok"}
        last == records[Len(records)]
    IN  IF records # <<>> /\ InSession(run, last)
        THEN {Rec(last.case, last.engine, last.rep + 1, last.round, last.status, "none", TRUE)}
             \cup {Rec(last.case, last.engine, 0, last.round, status, "none", TRUE) : status \in statuses}
        ELSE UNION {{Rec(t.case, t.engine, t.rep, t.round, status, "none", TRUE) : status \in statuses} : t \in first}

\* The order of an earlier round of two engines: rep by rep.
Turn(n) == <<IF n % 2 = 1 THEN "zpq" ELSE "base", (n + 1) \div 2>>

\* The earlier harness: a rep it rejected is tried again, a round is a rep.
LegacyNext(l, records) ==
    LET reps == Saved[l].head.reps
        open == {n \in 1..2 * reps : ~ \E i \in DOMAIN records :
                    /\ <<records[i].engine, records[i].rep>> = Turn(n)
                    /\ records[i].valid}
        turn == Turn(Min(open))
    IN  IF open = {} THEN {}
        ELSE {Rec("q", turn[1], turn[2], turn[2], "ok", hash, TRUE) :
                hash \in IF turn[1] = "zpq" THEN {"none", "x"} ELSE {"x", "y"}}
             \cup {x \in {Rec("q", turn[1], turn[2], turn[2], "ok", "x", FALSE),
                          Rec("q", turn[1], turn[2], turn[2], "failed", "none", TRUE)} : Odd(records) < MaxOdd[l]}

MayAdd(l) ==
    IF Len(journals[l]) >= Most[l] THEN {}
    ELSE IF Saved[l].kind = "native" THEN NativeNext(l, journals[l])
    ELSE LegacyNext(l, journals[l])

-----------------------------------------------------------------------------
(* requests.validate                                                       *)

\* What a request leaves out is missing evidence, never an error; a receipt names the clean candidate.
ReceiptOk(r) == r.receipt = "none" \/ (r.receipt = r.candidate.sha /\ r.receipt # "dirty")

Valid(r) ==
    /\ IsInjective(r.targets) /\ IsInjective(r.controls) /\ IsInjective(r.lanes)
    /\ r.targets # <<>> /\ r.lanes # <<>>
    /\ ToSet(r.targets) \cap ToSet(r.controls) = {}
    /\ ToSet(r.lanes) \subseteq {"cold", "hot-fresh", "engine"}
    /\ \A i, j \in DOMAIN r.runs : r.runs[i].id = r.runs[j].id => i = j
    /\ \A i \in DOMAIN r.runs : r.runs[i].lane \in ToSet(r.lanes)
    /\ \A s \in r.selection : /\ s.lane \in ToSet(r.lanes)
                              /\ \E i \in DOMAIN r.runs : r.runs[i].id = s.run
    /\ ReceiptOk(r)

-----------------------------------------------------------------------------
(* load_run                                                                *)

Normalized(lane) == IF lane = "hot" THEN "hot-fresh" ELSE lane

\* A pin refutes another only when both are there.
Matches(supplied, observed) == "none" \in {supplied, observed} \/ supplied = observed

PinsAgree(r, run) ==
    /\ Matches(r.candidate.sha, run.zpq.sha) /\ Matches(r.candidate.binary, run.zpq.binary)
    /\ Matches(r.baseline.sha, run.base.sha) /\ Matches(r.baseline.binary, run.base.binary)

Declared(run, records) ==
    \A i \in DOMAIN records : /\ records[i].case \in ToSet(run.planned)
                              /\ records[i].engine \in ToSet(run.expected)

LoadsRun(r, spec, run, records) ==
    /\ run.kind \in {"native", "legacy"}
    /\ IsInjective(run.planned)
    /\ Normalized(run.lane) = spec.lane
    /\ Matches(r.host, run.host)
    /\ PinsAgree(r, run)
    /\ Declared(run, records)

-----------------------------------------------------------------------------
(* engine_summary.  v is one of loaded, its attempts numbered as read.     *)

Accepted(x) == x.status = "ok" /\ x.validation = "ok" /\ x.valid

\* A native round replaces the cohort before it; legacy rounds only rotate reps.
InCohort(v, case, x) ==
    x.rep >= 1 /\ (v.run.kind = "legacy" \/ x.round = LatestRound(v.records, case))

CohortOf(v, case, engine) ==
    {i \in DOMAIN v.records :
        /\ v.records[i].case = case /\ v.records[i].engine = engine
        /\ InCohort(v, case, v.records[i])}

GoodOf(v, case, engine) == {i \in CohortOf(v, case, engine) : Accepted(v.records[i])}

RepsOf(v, is) == {v.records[i].rep : i \in is}

\* Refused: a repetition accepted twice.
AcceptedTwice(v, case, engine) ==
    LET good == GoodOf(v, case, engine) IN Cardinality(RepsOf(v, good)) # Cardinality(good)

\* MUTANT: only a re-run to come holds a case back.
Held_Pending(v, case) ==
    IF v.run.kind # "legacy" /\ case \in Pending(v.run.head, v.records) THEN "pending" ELSE "no"

\* What scoring the run adds to it (legacy runs are not scored).
Held(v, case) ==
    IF v.run.kind = "legacy" THEN "no"
    ELSE IF case \in Quarantined(v.run.head, v.records) THEN "quarantined"
    ELSE IF case \in Pending(v.run.head, v.records) THEN "pending" ELSE "no"

StateOf(v, case, engine) ==
    IF Held(v, case) # "no" THEN Held(v, case)
    ELSE IF \E i \in CohortOf(v, case, engine) :
                v.records[i].status \in {"failed", "wrong", "incorrect", "timeout"} THEN "failed"
    ELSE IF Cardinality(GoodOf(v, case, engine)) = v.run.head.reps THEN "complete" ELSE "pending"

\* raw_hash_count == n: every accepted attempt has a raw digest.
AllHashed(v, good) == \A i \in good : v.records[i].hash # "none"

Hashes(v, good) == {v.records[i].hash : i \in good} \ {"none"}

Summary(v, case, engine) ==
    LET good == GoodOf(v, case, engine)
    IN  [state |-> StateOf(v, case, engine), n |-> Cardinality(good),
         allHashed |-> AllHashed(v, good), hashes |-> Hashes(v, good)]

Unplanned == [state |-> "pending", n |-> 0, allHashed |-> FALSE, hashes |-> {}]

-----------------------------------------------------------------------------
(* make_export                                                             *)

Chosen(r, lane, case) == {s.run : s \in {s \in r.selection : s.lane = lane /\ s.case = case}}

\* The runs that plan a case of a lane: the one chosen for it, or all of them.
Available(r, lane, case) ==
    {i \in DOMAIN loaded :
        /\ r.runs[i].lane = lane /\ case \in ToSet(loaded[i].run.planned)
        /\ Chosen(r, lane, case) # {} => r.runs[i].id \in Chosen(r, lane, case)}

CaseLanes(r) ==
    UNION {{<<lane, case>> : case \in ToSet(r.targets \o r.controls)
                \cup UNION {ToSet(loaded[i].run.planned) : i \in {i \in DOMAIN loaded : r.runs[i].lane = lane}}}
           : lane \in ToSet(r.lanes)}

Expected(r, lane, case) ==
    r.expected \cup UNION {ToSet(loaded[i].run.expected) : i \in Available(r, lane, case)}

\* A missing or an ambiguous cohort, a choice of nothing, a repetition counted
\* twice: the export is refused whole.
Refuses(r) ==
    \/ r.runs = <<>>
    \/ \E p \in CaseLanes(r) :
         LET runs == Available(r, p[1], p[2])
         IN  \/ Cardinality(runs) > 1
             \/ Chosen(r, p[1], p[2]) # {} /\ runs = {}
             \/ Expected(r, p[1], p[2]) = {}
             \/ \E i \in runs : \E e \in ToSet(loaded[i].run.expected) : AcceptedTwice(loaded[i], p[2], e)
    \/ \E s \in r.selection : <<s.lane, s.case>> \notin CaseLanes(r)

\* Raw bytes are compared only when every accepted attempt of both has a digest.
Identical(pair) ==
    IF /\ \A x \in pair : x.state = "complete" /\ x.allHashed /\ Cardinality(x.hashes) = 1
    THEN IF Cardinality({x.hashes : x \in pair}) = 1 THEN "yes" ELSE "no"
    ELSE "unknown"

Measured(r, lane, case) ==
    [e \in Expected(r, lane, case) |->
        IF \E i \in Available(r, lane, case) : e \in ToSet(loaded[i].run.expected)
        THEN Summary(loaded[CHOOSE i \in Available(r, lane, case) : TRUE], case, e) ELSE Unplanned]

\* A stored median fills what was not measured, and says so; the first row stays.
WithStored(r, lane, case, engines) ==
    LET rows == {s.engine : s \in {s \in r.stored : s.lane = lane /\ s.case = case}}
        filled == {e \in rows : e \notin DOMAIN engines \/ engines[e].state = "pending"}
    IN  [e \in DOMAIN engines \cup filled |->
            IF e \in filled THEN [Unplanned EXCEPT !.state = "stored"] ELSE engines[e]]

Cells(r) ==
    {LET engines == Measured(r, p[1], p[2])
     IN  [lane |-> p[1], case |-> p[2], engines |-> WithStored(r, p[1], p[2], engines),
          runs |-> Available(r, p[1], p[2]),
          identical |-> IF {"zpq", "base"} \subseteq DOMAIN engines
                        THEN Identical({engines["zpq"], engines["base"]}) ELSE "unknown"]
     : p \in CaseLanes(r)}

\* MUTANT: what a cell accepted is accepted, whether the cell is complete or not.
Counted_Good(v, x) == Accepted(x)

\* The attempts of a complete cell, and only they, are accepted.
Counted(v, x) ==
    /\ StateOf(v, x.case, x.engine) = "complete"
    /\ InCohort(v, x.case, x) /\ Accepted(x)

\* Every attempt read, with what became of it.
Audit(r) ==
    {LET i == at[1]  x == loaded[i].records[at[2]]
     IN  [run |-> i, sequence |-> at[2],
          disposition |-> IF i \notin Available(r, r.runs[i].lane, x.case) THEN "replaced-cohort"
                          ELSE IF x.rep < 1 THEN "warmup"
                          ELSE IF Counted(loaded[i], x) THEN "accepted" ELSE "excluded-or-incomplete"]
     : at \in UNION {{i} \X DOMAIN loaded[i].records : i \in DOMAIN loaded}}

\* What was hashed is the journal as it was before its records were read.
Evidence == {<<i, loaded[i].hashed>> : i \in DOMAIN loaded}

-----------------------------------------------------------------------------
(* export: the package, checked whole before any file is written           *)

PackageFiles == <<"request", "report", "cells", "attempts", "tracker", "export">>

Nothing == [at |-> "absent", data |-> <<{}, {}, {}>>]

\* What each file holds of a package; request.json is the request alone.
Data(file, p) ==
    CASE file = "request" -> <<{}, {}, {}>>
      [] file = "cells" -> <<{}, p.cells, {}>>
      [] file = "attempts" -> <<{}, {}, p.audit>>
      [] OTHER -> <<p.evidence, p.cells, p.audit>>

WholeFile(file) == [at |-> "whole", data |-> Data(file, pack)]

NoPack == [evidence |-> {}, cells |-> {}, audit |-> {}]

ExportInit ==
    /\ request \in Requests
    /\ journals = [l \in DOMAIN Saved |-> <<>>]
    /\ stage = "off"
    /\ loaded = <<>> /\ digested = 0 /\ pack = NoPack
    /\ dst = [f \in ToSet(PackageFiles) |-> Nothing]
    /\ growth = 0 /\ exports = 0

Locations == {request.runs[i].at : i \in DOMAIN request.runs}

\* A run's harness adds a record: under an export, at most MaxGrowth times, and
\* while the journals are still to be read (later, it is as if it came after).
Grow ==
    /\ stage \in {"off", "load", "read"}
    /\ \E l \in Locations : \E x \in MayAdd(l) :
         journals' = [journals EXCEPT ![l] = Append(@, x)]
    /\ exports > 0 => growth < MaxGrowth
    /\ growth' = IF exports > 0 THEN growth + 1 ELSE 0
    /\ UNCHANGED <<request, stage, loaded, digested, pack, dst, exports>>

\* bench export: the packet first.
StartExport ==
    /\ stage = "off" /\ exports < MaxExports
    /\ exports' = exports + 1
    /\ stage' = IF Valid(request) THEN "load" ELSE "refused"
    /\ loaded' = <<>> /\ digested' = 0 /\ pack' = NoPack
    /\ UNCHANGED <<request, journals, dst, growth>>

NextSpec == request.runs[Len(loaded) + 1]

\* read: the bytes of the journal, for their digest...
HashJournal ==
    /\ stage = "load" /\ Len(loaded) < Len(request.runs)
    /\ digested' = Len(journals[NextSpec.at])
    /\ stage' = "read"
    /\ UNCHANGED <<request, journals, loaded, pack, dst, growth, exports>>

\* ... and again, for its records: a journal may have grown between.
ReadJournal ==
    /\ stage = "read"
    /\ LET run == Saved[NextSpec.at]  records == journals[NextSpec.at]
       IN  IF LoadsRun(request, NextSpec, run, records)
           THEN /\ stage' = "load"
                /\ loaded' = Append(loaded, [run |-> run, hashed |-> digested, records |-> records])
           ELSE stage' = "refused" /\ UNCHANGED loaded
    /\ UNCHANGED <<request, journals, digested, pack, dst, growth, exports>>

Make ==
    /\ stage = "load" /\ Len(loaded) = Len(request.runs)
    /\ IF Refuses(request) THEN stage' = "refused" /\ UNCHANGED pack
       ELSE /\ stage' = "check"
            /\ pack' = [evidence |-> Evidence, cells |-> Cells(request), audit |-> Audit(request)]
    /\ UNCHANGED <<request, journals, loaded, digested, dst, growth, exports>>

\* MUTANT: what is there is left there.
Conflicts_None(file) == FALSE

\* A file that is there and not to the byte what it would be.
Conflicts(file) == dst[file].at # "absent" /\ dst[file] # WholeFile(file)

\* The destination may overlap the sources.
CheckPackage ==
    /\ stage = "check"
    /\ \E overlaps \in BOOLEAN :
         stage' = IF overlaps \/ \E f \in ToSet(PackageFiles) : Conflicts(f) THEN "refused" ELSE "write"
    /\ UNCHANGED <<request, journals, loaded, digested, pack, dst, growth, exports>>

Absent(file) == dst[file].at = "absent"

\* open("xb"), of the first that is not there: the file is, with nothing in it...
OpenFile ==
    /\ stage = "write"
    /\ \E n \in DOMAIN PackageFiles :
         /\ Absent(PackageFiles[n]) /\ \A m \in 1..n - 1 : ~ Absent(PackageFiles[m])
         /\ dst' = [dst EXCEPT ![PackageFiles[n]] = [at |-> "torn", data |-> Nothing.data]]
    /\ stage' = "fill"
    /\ UNCHANGED <<request, journals, loaded, digested, pack, growth, exports>>

\* ... until its bytes are.
FillFile ==
    /\ stage = "fill"
    /\ \E f \in ToSet(PackageFiles) : dst[f].at = "torn" /\ dst' = [dst EXCEPT ![f] = WholeFile(f)]
    /\ stage' = "write"
    /\ UNCHANGED <<request, journals, loaded, digested, pack, growth, exports>>

FinishExport ==
    /\ stage = "write" /\ \A f \in ToSet(PackageFiles) : ~ Absent(f)
    /\ stage' = "done"
    /\ UNCHANGED <<request, journals, loaded, digested, pack, dst, growth, exports>>

\* The process dies writing, or has ended, and is run once more (dying before
\* it writes, it leaves nothing behind).
Again ==
    /\ stage \in {"write", "fill", "done"} /\ exports < MaxExports
    /\ stage' = "off"
    /\ loaded' = <<>> /\ digested' = 0 /\ pack' = NoPack
    /\ UNCHANGED <<request, journals, dst, growth, exports>>

ExportNext ==
    \/ Grow \/ StartExport \/ HashJournal \/ ReadJournal \/ Make \/ CheckPackage
    \/ OpenFile \/ FillFile \/ FinishExport \/ Again

ExportSpec == ExportInit /\ [][ExportNext]_exportVars

-----------------------------------------------------------------------------
\* No two whole files of a destination tell different stories, however many
\* exports died over it and whatever the journals gained between them
\* (export.py:266 "so retry never mixes two generations"); and one that
\* finished is all there, and all its own.
OneGeneration ==
    /\ \A f, g \in ToSet(PackageFiles) :
         dst[f].at = "whole" /\ dst[g].at = "whole" =>
            \A part \in 1..3 : {} \in {dst[f].data[part], dst[g].data[part]} \/ dst[f].data[part] = dst[g].data[part]
    /\ stage = "done" => \A f \in ToSet(PackageFiles) : dst[f] = WholeFile(f)

\* A cell of a native run exported as complete is one the scorer gives a median
\* and no quarantine or re-run holds back; and the other way round
\* (README.md:228 "The existing scorer determines native quarantine and pending reruns").
CompleteAsScored ==
    \A c \in pack.cells : \A i \in c.runs :
        loaded[i].run.kind = "native" =>
            \A e \in ToSet(loaded[i].run.expected) :
                LET v == loaded[i]
                    scored == /\ Cell(v.run.head, v.records, c.case, e) = "median"
                              /\ c.case \notin DisturbedLast(v.run.head, v.records)
                IN  (c.engines[e].state = "complete") <=> scored

\* The attempts of a cell's lane and case audited as accepted for an engine.
AcceptedOf(c, e) ==
    {a \in pack.audit : /\ a.disposition = "accepted"
                        /\ request.runs[a.run].lane = c.lane
                        /\ loaded[a.run].records[a.sequence].case = c.case
                        /\ loaded[a.run].records[a.sequence].engine = e}

\* The attempts audited as accepted are of the run chosen for their case, and of
\* an engine all its repetitions, each once, or none (README.md:260: never
\* "mixes engines from different confirmation cohorts").
AcceptedAreCohorts ==
    \A c \in pack.cells : \A e \in DOMAIN c.engines :
        LET mine == AcceptedOf(c, e)
        IN  mine # {} =>
                /\ \E i \in c.runs : /\ \A a \in mine : a.run = i
                                     /\ {loaded[i].records[a.sequence].rep : a \in mine} = 1..loaded[i].run.head.reps
                                     /\ Cardinality(mine) = loaded[i].run.head.reps
                /\ c.engines[e].state = "complete"

\* Candidate and baseline are called byte-identical, or different, only when
\* each accepted attempt of both has a raw digest, one digest an engine
\* (README.md:272 "only when every selected output has a raw digest").
IdentityIsProven ==
    \A c \in pack.cells :
        c.identical # "unknown" =>
            LET digests(e) == {loaded[a.run].records[a.sequence].hash : a \in AcceptedOf(c, e)}
            IN  /\ \A e \in {"zpq", "base"} : Cardinality(digests(e)) = 1 /\ "none" \notin digests(e)
                /\ (c.identical = "yes") <=> (digests("zpq") = digests("base"))

\* What the package says of a cell, the scorer and its accepted attempts bear out.
CellsAreBorneOut == CompleteAsScored /\ AcceptedAreCohorts /\ IdentityIsProven
=============================================================================
