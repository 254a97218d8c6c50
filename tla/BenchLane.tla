------------------------------ MODULE BenchLane ------------------------------
(***************************************************************************)
(* One lane of the scorecard on one host (bench/lane.py, __main__.run):    *)
(* every case by every engine, repetition after repetition, each answer    *)
(* judged and each record synced to the journal before the next rep; cases *)
(* the host disturbed run again whole, twice at most.  The lane's process  *)
(* may die anywhere and be resumed from its journal, and `bench score` may *)
(* read the journal at any time.                                           *)
(***************************************************************************)
EXTENDS BenchScore

CONSTANTS
    Setups,     \* what may be asked for (below)
    Kind,       \* engine -> "zpq", "duckdb" or "polars"
    Replies,    \* what the spawner may say of a process
    Outputs,    \* what one answer of it may be: [answer, elapsed]
    UsualTime,  \* engine -> the time it takes when nothing goes wrong
    MaxRounds,  \* rounds of a lane (Lane.run)
    MaxCrashes  \* bound: how often the lane's process dies

ASSUME LaneAssumption ==
    /\ MaxRounds \in Nat \ {0}
    /\ Kind["zpq"] = "zpq"
    /\ \A o \in Outputs : o.elapsed \in Int
    /\ \A g \in Setups :
          /\ g.reps \in Nat \ {0} /\ g.maxRound = MaxRounds - 1
          /\ g.cases \in Seq(ToSet(g.cases))
          /\ g.engines \in Seq(ToSet(g.engines)) /\ g.engines # <<>>

\* A setup is [lane, reps, psi, smoke, maxRound, cases, engines, trouble]:
\* cases and engines in order, trouble a bound on what goes wrong.

VARIABLES
    head,       \* header.json and planned.json
    pins,       \* what the binaries and inputs are now; the header has 0
    pc,
    rnd, ids,   \* Lane.run: the round, and the cases it runs
    done,       \* Lane.done: the records in memory, one per key
    cur,        \* the attempt under way: its item, rep and process reply
    rec,        \* the record being made or written
    journal, torn,  \* journal.jsonl, and a torn last line
    procs,      \* what the attempts started: of engine, child, session
    left,       \* the groups that lanes which died left behind
    trouble, crashes

laneVars == <<head, pins, pc, rnd, ids, done, cur, rec, journal, torn, procs, left, trouble, crashes>>

-----------------------------------------------------------------------------

Rivals == {head.engines[i] : i \in DOMAIN head.engines} \ {"zpq", "zpq_prev"}
Planned == ToSet(head.cases)

KeyOf(r) == <<r.case, r.engine, r.rep, r.round>>

\* Lane.note: a later record of a key replaces the earlier.
Noted(rs, r) == {d \in rs : KeyOf(d) # KeyOf(r)} \cup {r}

\* What a lane loads of a journal: noted line by line, the last of a key stays.
Loaded(lines) ==
    {lines[i] : i \in {i \in DOMAIN lines : \A j \in i + 1..Len(lines) : KeyOf(lines[j]) # KeyOf(lines[i])}}

Keys == {KeyOf(d) : d \in done}

\* hot: rep 0 is the warm-up; cold reps are all timed (lane.py:250).
FirstRep == IF head.lane = "hot" THEN 0 ELSE 1

Item(case, engine, rep, session) ==
    [case |-> case, engine |-> engine, rep |-> rep, session |-> session]

\* Something done for each case of the round, in order.
EachCase(Of(_)) ==
    FlattenSeq([i \in DOMAIN head.cases |-> IF head.cases[i] \in ids THEN Of(head.cases[i]) ELSE <<>>])

\* hot and cold: every engine's rep of a case, a process each.
OneRep(case, rep) == [e \in DOMAIN head.engines |-> Item(case, head.engines[e], rep, FALSE)]

\* engine: zpq rep after rep, any other engine all of them in one session.
AllReps(case, engine) ==
    IF Kind[engine] = "zpq" THEN [j \in 1..head.reps + 1 |-> Item(case, engine, j - 1, FALSE)]
    ELSE << Item(case, engine, 0, TRUE) >>

\* The order of a round: rep-major; in the engine lane case-major (lane.py:210-260).
Order ==
    IF head.lane = "engine"
    THEN EachCase(LAMBDA case :
            FlattenSeq([e \in DOMAIN head.engines |-> AllReps(case, head.engines[e])]))
    ELSE FlattenSeq([j \in 1..head.reps + 1 - FirstRep |->
            EachCase(LAMBDA case : OneRep(case, FirstRep + j - 1))])

\* What the journal has already is not run again; a session only as a whole.
Open(item) ==
    IF item.session THEN \E rep \in 0..head.reps : <<item.case, item.engine, rep, rnd>> \notin Keys
    ELSE <<item.case, item.engine, item.rep, rnd>> \notin Keys

\* The oracle: DuckDB's JSON alone may print a HUGEINT as a string.
JudgeSays(engine, answer) ==
    answer = "right" \/ (answer = "text" /\ Kind[engine] = "duckdb")

\* MUTANT: a verdict is any engine's.
Verdicts_AnyEngine(case, engine, answer) ==
    {journal[i].validation : i \in {i \in DOMAIN journal :
        journal[i].case = case /\ journal[i].answer = answer /\ journal[i].method = "full"}}

\* Lane.verdicts: what the judge has said of this answer of this cell.
Verdicts(case, engine, answer) ==
    {journal[i].validation : i \in {i \in DOMAIN journal :
        /\ journal[i].case = case /\ journal[i].engine = engine
        /\ journal[i].answer = answer /\ journal[i].method = "full"}}

Record(status) ==
    [case |-> cur.case, engine |-> cur.engine, rep |-> cur.rep, round |-> rnd, status |-> status,
     validation |-> "unchecked", method |-> "none", answer |-> "none", elapsed |-> 0,
     stall |-> cur.reply.stall, hostFull |-> cur.reply.hostFull, read |-> cur.reply.read, pin |-> pins]

NoReply == [rc |-> 0, timeout |-> FALSE, contended |-> FALSE, forks |-> "no",
            stall |-> 0, hostFull |-> FALSE, read |-> 1]

\* The attempt under way: an item, what the spawner said, and whether the host
\* refused it.
Attempt(item) ==
    [case |-> item.case, engine |-> item.engine, rep |-> item.rep, session |-> item.session,
     reply |-> NoReply, rejected |-> FALSE]
NoCur == Attempt(Item("none", "none", 0, FALSE))
NoRec == [status |-> "none"]

-----------------------------------------------------------------------------
LaneInit ==
    /\ head \in Setups
    /\ pins = 0
    /\ pc = "off"
    /\ rnd = 0 /\ ids = {} /\ done = {}
    /\ cur = NoCur /\ rec = NoRec
    /\ journal = <<>> /\ torn = FALSE
    /\ procs = {} /\ left = {}
    /\ trouble = 0 /\ crashes = 0

May(bad) == IF bad THEN trouble < head.trouble /\ trouble' = trouble + 1 ELSE trouble' = trouble

SamePins == pins = 0

\* run: the pins against the header's, a quiet host and its lock, then the lane
\* loads its journal; a torn line is no JSON and ends it.
Start ==
    /\ pc = "off"
    /\ IF ~ SamePins THEN pc' = "refused" /\ UNCHANGED <<rnd, ids, done>>
       ELSE IF torn THEN pc' = "broken" /\ UNCHANGED <<rnd, ids, done>>
       ELSE /\ pc' = "next"
            /\ rnd' = 0 /\ ids' = Planned
            /\ done' = Loaded(journal)
    /\ UNCHANGED <<head, pins, cur, rec, journal, torn, procs, left, trouble, crashes>>

\* The next attempt of the round, or the round is over.
NextAttempt ==
    /\ pc = "next"
    /\ \E order \in {Order} :
         \/ /\ \A i \in DOMAIN order : ~ Open(order[i])
            /\ pc' = "round" /\ cur' = NoCur
         \/ \E i \in DOMAIN order :
               /\ Open(order[i]) /\ \A j \in 1..i - 1 : ~ Open(order[j])
               /\ pc' = "condition" /\ cur' = Attempt(order[i])
    /\ UNCHANGED <<head, pins, rnd, ids, done, rec, journal, torn, procs, left, trouble, crashes>>

\* Inputs evicted or warm and verified, the host quiet, memory enough; a smoke
\* run looks and goes on (lane.py:132-142).
Condition ==
    /\ pc = "condition"
    /\ \E bad \in BOOLEAN :
         /\ May(bad)
         /\ IF bad /\ ~ head.smoke
            THEN pc' = "write" /\ rec' = Record("disturbed") /\ cur' = [cur EXCEPT !.rejected = TRUE]
            ELSE pc' = "spawn" /\ UNCHANGED <<rec, cur>>
    /\ UNCHANGED <<head, pins, rnd, ids, done, journal, torn, procs, left, crashes>>

\* What a kill of the group does not reach: a child in a session of its own.
Beyond == {"session"}

\* What the engine is with its child, in its group or in a session of its own.
Family == [no |-> {"engine"}, group |-> {"engine", "child"}, session |-> {"engine", "session"}]

\* spawn.run forks the engine into a process group of its own; it may fork.
Spawn ==
    /\ pc = "spawn"
    /\ \E r \in Replies :
         /\ May(r # NoReply)
         /\ cur' = [cur EXCEPT !.reply = r]
         /\ procs' = (procs \cap Beyond) \cup Family[r.forks]
    /\ pc' = "running"
    /\ UNCHANGED <<head, pins, rnd, ids, done, rec, journal, torn, left, crashes>>

\* The engine ends and is reaped, or its time is up and its group is killed.
Reap ==
    /\ pc = "running"
    /\ pc' = "sweep"
    /\ procs' = IF cur.reply.timeout THEN procs \cap Beyond ELSE procs \ {"engine"}
    /\ UNCHANGED <<head, pins, rnd, ids, done, cur, rec, journal, torn, left, trouble, crashes>>

\* MUTANT: only a group past its time is killed.
SweptGroup_Unswept == procs

\* What is left of the group is killed before the reply (spawn.py:90-93).
SweptGroup == procs \cap Beyond

SweepGroup ==
    /\ pc = "sweep"
    /\ pc' = "finish"
    /\ procs' = SweptGroup
    /\ UNCHANGED <<head, pins, rnd, ids, done, cur, rec, journal, torn, left, trouble, crashes>>

\* Lane.finish: a process that failed has its record; an answer goes on.
Finish ==
    /\ pc = "finish"
    /\ IF cur.reply.timeout \/ cur.reply.rc # 0
       THEN /\ rec' = Record(IF cur.reply.timeout THEN "timeout" ELSE "failed")
            /\ pc' = "write" /\ UNCHANGED trouble
       ELSE \E o \in Outputs :
            /\ May(o.answer # "right" \/ (o.elapsed # UsualTime[cur.engine] /\ cur.reply.stall = 0))
            /\ CASE o.answer = "absent" -> pc' = "write" /\ rec' = Record("failed")
                 [] o.answer = "garbled" ->
                      /\ pc' = "write"
                      /\ rec' = [Record("wrong") EXCEPT !.validation = "wrong", !.method = "full",
                                                        !.elapsed = o.elapsed]
                 [] OTHER ->
                      /\ pc' = "judge"
                      /\ rec' = [Record("none") EXCEPT !.answer = o.answer, !.elapsed = o.elapsed]
    /\ UNCHANGED <<head, pins, rnd, ids, done, cur, journal, torn, procs, left, crashes>>

Settled(validation, method) ==
    [rec EXCEPT !.validation = validation, !.method = method,
                !.status = IF validation # "ok" THEN "wrong"
                           ELSE IF cur.reply.contended /\ ~ head.smoke THEN "disturbed" ELSE "ok"]

\* A known answer takes its verdict, any other the comparer's (lane.py:144-161).
Judge ==
    /\ pc = "judge"
    /\ LET known == Verdicts(rec.case, rec.engine, rec.answer)
           asked == IF JudgeSays(rec.engine, rec.answer) THEN "ok" ELSE "wrong"
       IN  rec' = IF known # {} THEN Settled(CHOOSE v \in known : TRUE, "hash") ELSE Settled(asked, "full")
    /\ pc' = "write"
    /\ UNCHANGED <<head, pins, rnd, ids, done, cur, journal, torn, procs, left, trouble, crashes>>

\* Lane.write: a line, on disk for certain only once synced ...
Write ==
    /\ pc = "write"
    /\ journal' = Append(journal, rec)
    /\ pc' = "sync"
    /\ UNCHANGED <<head, pins, rnd, ids, done, cur, rec, torn, procs, left, trouble, crashes>>

\* ... and only then in memory; a session goes on with its next rep.
Sync ==
    /\ pc = "sync"
    /\ done' = Noted(done, rec)
    /\ rec' = NoRec
    /\ IF cur.session /\ cur.rep < head.reps
       THEN /\ cur' = [cur EXCEPT !.rep = @ + 1]
            /\ pc' = IF cur.rejected THEN "again" ELSE "finish"
       ELSE cur' = NoCur /\ pc' = "next"
    /\ UNCHANGED <<head, pins, rnd, ids, journal, torn, procs, left, trouble, crashes>>

\* A session that was never started is disturbed in every rep.
RejectAgain ==
    /\ pc = "again"
    /\ rec' = Record("disturbed") /\ pc' = "write"
    /\ UNCHANGED <<head, pins, rnd, ids, done, cur, journal, torn, procs, left, trouble, crashes>>

\* MUTANT: one re-run is missed.
MoreRounds_One == rnd + 2 < MaxRounds

MoreRounds == rnd + 1 < MaxRounds

\* MUTANT: the re-run is not a round of its own.
NextRound_Same == rnd

NextRound == rnd + 1

\* Lane.run: the round's disturbed cases are the next round's.
EndRound ==
    /\ pc = "round"
    /\ \E again \in {Disturbed(head.psi, done, rnd)} :
         IF again # {} /\ MoreRounds
         THEN pc' = "next" /\ rnd' = NextRound /\ ids' = again
         ELSE pc' = "ended" /\ UNCHANGED <<rnd, ids>>
    /\ UNCHANGED <<head, pins, done, cur, rec, journal, torn, procs, left, trouble, crashes>>

\* The lane's process dies, or the spawner, the comparer or a full disk raises
\* out of it.  A line not yet synced may be there, lost or torn.  An engine then
\* running has a group of its own and runs on: a spawner that outlives the lane
\* (kept) waits for it first and then sees its input end.
Crash ==
    /\ pc \notin {"off", "ended", "refused", "broken"} /\ crashes < MaxCrashes
    /\ crashes' = crashes + 1
    /\ pc' = "off"
    /\ rnd' = 0 /\ ids' = {} /\ done' = {} /\ cur' = NoCur /\ rec' = NoRec
    /\ procs' = procs \cap Beyond
    /\ IF procs \subseteq Beyond THEN UNCHANGED left
       ELSE \E kept \in BOOLEAN :
            left' = left \cup {[life |-> crashes, kept |-> kept, hangs |-> cur.reply.timeout,
                               procs |-> procs \ Beyond]}
    /\ \/ UNCHANGED <<journal, torn>>
       \/ pc = "sync" /\ journal' = Front(journal) /\ torn' \in BOOLEAN
    /\ UNCHANGED <<head, pins, trouble>>

\* The engine of a group left behind ends; one that would not is killed at its
\* deadline, by a spawner that is still there.
LeftEnds(g) ==
    /\ "engine" \in g.procs /\ (g.hangs => g.kept)
    /\ left' = (left \ {g}) \cup {[g EXCEPT !.procs = IF g.hangs THEN {} ELSE @ \ {"engine"}]}
    /\ UNCHANGED <<head, pins, pc, rnd, ids, done, cur, rec, journal, torn, procs, trouble, crashes>>

\* The spawner that waited for it sweeps the group and exits.
LeftSwept(g) ==
    /\ g.kept /\ "engine" \notin g.procs
    /\ left' = left \ {g}
    /\ UNCHANGED <<head, pins, pc, rnd, ids, done, cur, rec, journal, torn, procs, trouble, crashes>>

\* Between two runs a binary is rebuilt or an input rewritten.
Repin ==
    /\ pc = "off" /\ crashes > 0 /\ pins = 0 /\ trouble < head.trouble
    /\ pins' = 1 /\ trouble' = trouble + 1
    /\ UNCHANGED <<head, pc, rnd, ids, done, cur, rec, journal, torn, procs, left, crashes>>

Stopped == pc \in {"ended", "refused", "broken"} /\ UNCHANGED laneVars

Lane ==
    \/ Start \/ NextAttempt \/ Condition \/ Spawn \/ Reap \/ SweepGroup \/ Finish \/ Judge
    \/ Write \/ Sync \/ RejectAgain \/ EndRound

\* A spawner that outlived its lane ends it.
Leftover(g) == LeftEnds(g) \/ LeftSwept(g)

LaneNext == Lane \/ (\E g \in left : Leftover(g)) \/ Crash \/ Repin \/ Stopped

LaneSpec == LaneInit /\ [][LaneNext]_laneVars

\* A dead lane is resumed, and a running one runs on; so does a kept spawner.
FairLaneSpec ==
    /\ LaneSpec
    /\ WF_laneVars(Lane)
    /\ WF_laneVars(\E g \in left : g.kept /\ Leftover(g))

-----------------------------------------------------------------------------

\* Every verdict in the journal is what the comparer says of that answer of
\* that engine, whether it was asked or an earlier run was (lane.py:144-161);
\* every record is of the builds and inputs the header pins, however often the
\* run was resumed (__main__.py:88-92); and memory is the journal, one record
\* per key, but for the line that is being written.
JournalHolds ==
    /\ \A i \in DOMAIN journal :
          /\ journal[i].answer # "none" =>
                (journal[i].validation = "ok" <=> JudgeSays(journal[i].engine, journal[i].answer))
          /\ journal[i].pin = 0
    /\ \A a, b \in done : KeyOf(a) = KeyOf(b) => a = b
    /\ pc \in {"next", "write", "ended"} => done = Loaded(journal)

\* A session killed between two of its records writes them again.
Doubled == \E i, j \in DOMAIN journal : i # j /\ KeyOf(journal[i]) = KeyOf(journal[j])

\* A lane that ran to its end left nothing of its attempts in a group (a daemon
\* in a session of its own, and what a lane that died left, may run on), and a
\* final result for every planned cell: a case was disturbed in every round
\* before its last, has that one whole, and was disturbed in it only if it could
\* run no more.  The score sees the same: no case is pending, every other than
\* the quarantined has its cells, and without those the verdict is not
\* INCOMPLETE; except that the journal of a session that was killed and run
\* again has lines that the score does not expect (lane.py:262-273,
\* score.py:29-99).
EndedIsFinal ==
    pc = "ended" =>
        /\ procs \subseteq Beyond
        /\ Ran(journal) = Planned
        /\ \A case \in Planned : \E last \in {LatestRound(journal, case)} :
              /\ \A r \in 0..last - 1 : case \in Disturbed(head.psi, done, r)
              /\ case \in Disturbed(head.psi, done, last) => last = head.maxRound
              /\ \A e \in ToSet(head.engines), rep \in 1..head.reps : <<case, e, rep, last>> \in Keys
        /\ \/ Doubled
           \/ /\ Pending(head, journal) = {}
              /\ \A case \in Planned \ Quarantined(head, journal) : \A e \in ToSet(head.engines) :
                    Cell(head, journal, case, e) \in {"median", "failed"}
              /\ \/ Quarantined(head, journal) # {}
                 \/ Verdict(head, journal, Planned, ToSet(head.engines)) # "INCOMPLETE"

\* The times of some records that no more than half of them lie before, or after;
\* and twice their median.
NotLate(rs) ==
    {t \in {r.elapsed : r \in rs} : /\ 2 * Cardinality({r \in rs : r.elapsed < t}) < Cardinality(rs)
                                 /\ Cardinality(rs) <= 2 * Cardinality({r \in rs : r.elapsed <= t})}
NotEarly(rs) ==
    {t \in {r.elapsed : r \in rs} : /\ 2 * Cardinality({r \in rs : r.elapsed < t}) <= Cardinality(rs)
                                 /\ Cardinality(rs) < 2 * Cardinality({r \in rs : r.elapsed <= t})}
Halfway(rs) == {p[1] + p[2] : p \in NotLate(rs) \X NotEarly(rs)}

\* The timed records in memory of the last round that ran a case.
LastOf(case, engine) ==
    {r \in done : r.case = case /\ r.engine = engine /\ r.rep >= 1
                  /\ r.round = LatestRound(journal, case)}

\* Its session was not killed and run again; and all its reps were checked.
RunOnce(case, engine) ==
    \A i, j \in DOMAIN journal :
        KeyOf(journal[i]) = KeyOf(journal[j]) /\ journal[i].case = case /\ journal[i].engine = engine => i = j

AllChecked(case, engine) == RunOnce(case, engine) /\ \A r \in LastOf(case, engine) : r.status = "ok"

\* zpq's median of a case is under a rival's, or at most half as much again.
Faster(case, e) == \A z \in Halfway(LastOf(case, "zpq")), y \in Halfway(LastOf(case, e)) : z < y
NotSlower(case, e) == \A z \in Halfway(LastOf(case, "zpq")), y \in Halfway(LastOf(case, e)) : z <= y
NearEnough(case, e) == \A z \in Halfway(LastOf(case, "zpq")), y \in Halfway(LastOf(case, e)) : 2 * z <= 3 * y

\* The ship bar is met only by what it says of the checked reps in memory: zpq
\* has all of its own in every case that is not quarantined, its median is never
\* more than one and a half times a rival's whose reps are whole, behind such a
\* one in a fifth of the planned cases at most, and for every rival ahead in
\* more than half of them, where a rival that is not whole counts as beaten, one
\* whose session was killed and run again too (score.py:54-77).
BarIsSound ==
    (pc = "ended" /\ ShipBar(head, journal, Planned, Rivals).met) =>
        \E counted \in {Planned \ Quarantined(head, journal)} :
            /\ \A case \in counted :
                  /\ Cardinality(LastOf(case, "zpq")) = head.reps
                  /\ \A r \in LastOf(case, "zpq") : r.status = "ok" /\ JudgeSays("zpq", r.answer)
                  /\ \A e \in Rivals : AllChecked(case, e) => NearEnough(case, e)
            /\ 5 * Cardinality({case \in counted : \E e \in Rivals : AllChecked(case, e) /\ ~ NotSlower(case, e)})
                  <= Cardinality(Planned)
            /\ \A e \in Rivals :
                  2 * Cardinality({case \in counted : AllChecked(case, e) => Faster(case, e)}) > Cardinality(Planned)

\* However the host behaves, the lane ends: disturbed cases run again a bounded
\* number of times, and what is done already is not done again.  What a dead
\* lane left to a spawner that outlived it is gone in the end.
LaneEnds == <>(pc \in {"ended", "refused", "broken"}) /\ <>[](\A g \in left : ~ g.kept)
=============================================================================
