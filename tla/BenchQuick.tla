----------------------------- MODULE BenchQuick -----------------------------
(***************************************************************************)
(* bench/quick.py: the bounded A/B check of a candidate build against a    *)
(* base build on one host.  A coordinator (main, fleet) verifies the       *)
(* inputs under the host's timing lock and starts a supervisor; that runs  *)
(* a worker process and is its watchdog; the worker runs one native        *)
(* command at a time, journals every attempt and writes the report; when   *)
(* it cannot, the watchdog or the coordinator rebuilds one from the        *)
(* journal.                                                                *)
(*                                                                         *)
(* The host is the coordinator's own or a remote one: then the files are   *)
(* shipped to it, each under its timing lock, the supervisor runs behind   *)
(* ssh, and its directory is fetched back.  Elapsed time is one event, the *)
(* end of the measured budget, which may come at any moment.               *)
(***************************************************************************)
EXTENDS InputHashes, Integers, FiniteSets, SequencesExt

CONSTANTS
    Configs,    \* the configurations that may be given
    Results     \* what a native command may give: [exit, bytes]

\* Whatever load refuses may be given, but a manifest without cases
\* (manifest_cases, quick.py:267-283).
ASSUME QuickAssumption ==
    /\ {"setup", "worker"} \subseteq Hashers
    /\ \A g \in Configs : /\ g.reps \in Int
                          /\ g.cases \in Seq(ToSet(g.cases)) /\ g.cases # <<>>

VARIABLES
    cfg,        \* the configuration of the run
    lock,       \* who holds the host's timing lock: nobody, another harness...
    expired,    \* the measured budget is over
    c,          \* the coordinator
    s,          \* the supervisor
    w,          \* the worker: pc, at (step of the plan), cmd, exc, state, hashed
    out,        \* the row being made: what its commands gave
    rows,       \* run.attempts, in the worker's memory
    child,      \* self.child: none, forked (Popen has not returned) or known
    engine,     \* the native command's session: none, running, exited
    term,       \* SIGTERM to the worker: no, sent, taken
    disk,       \* the host's: config, request, active, journal, torn, hashes,
                \* report; and home, what a coordinator elsewhere has of them
    struck      \* history: the worker stopped between fork and active.json

quickVars == <<cfg, lock, expired, c, s, w, out, rows, child, engine, term, disk, struck>>
vars == <<quickVars, hashVars>>

-----------------------------------------------------------------------------
(* The plan of a run.                                                      *)

\* quick.load: what a configuration must be before anything is done.
ValidConfig(g) ==
    /\ g.enabled
    /\ g.budget > 0 /\ g.budget <= 120
    /\ g.reps >= 1 /\ g.reps <= 10
    /\ g.sameBuild

Engines(case) == IF case.paired THEN <<"candidate", "base">> ELSE <<"candidate">>

Attempts(phase, case, rep, engines) ==
    [e \in DOMAIN engines |->
        [phase |-> phase, case |-> case, engine |-> engines[e], rep |-> rep,
         last |-> e = Len(engines)]]

\* What is run once and has no row: the version probes, and a runner of rivals.
Single(phase, build) == [phase |-> phase, case |-> 0, engine |-> build, rep |-> 0, last |-> FALSE]
HasNoRow(step) == step.phase \in {"probe", "rivals"}

\* The version probes, every case's first answers, then the repetitions: the
\* builds' order alternates by repetition (quick.py:598-645).
Plan(g) ==
    LET probes == [e \in 1..2 |-> Single("probe", Engines([paired |-> TRUE])[e])]
        first == [k \in DOMAIN g.cases |-> Attempts("hash-first", k, 0, Engines(g.cases[k]))]
        order(k, rep) == IF rep % 2 = 1 THEN Engines(g.cases[k]) ELSE Reverse(Engines(g.cases[k]))
        hot(rep) == FlattenSeq([k \in DOMAIN g.cases |-> Attempts("hot-fresh", k, rep, order(k, rep))])
    IN  probes \o FlattenSeq(first) \o FlattenSeq([rep \in 1..g.reps |-> hot(rep)])
        \o IF g.rivals THEN <<Single("rivals", "arch")>> ELSE <<>>

\* The step the worker is at; the plan stays what the configuration says.
This == Plan(cfg)[w.at]
Case == cfg.cases[This.case]

\* Parquet answers are read back by two validators after the native command.
Validated(case, row) == case.output = "parquet" /\ row.outcome = "answer"

\* quick.expected: the outcome a native result counts as, or a mismatch.
Outcome(case, result) ==
    IF case.refusal
    THEN IF result = [exit |-> 1, bytes |-> 1] THEN "refusal" ELSE "mismatch"
    ELSE IF result.exit = 0 THEN "answer" ELSE "mismatch"

NoOut == [exit |-> 0, bytes |-> 0, outcome |-> "unknown", valid |-> FALSE]

Row(status) ==
    [case |-> This.case, engine |-> This.engine, phase |-> This.phase, rep |-> This.rep,
     status |-> status, out |-> out]

\* quick.identity
Identity(row) == [exit |-> row.out.exit, bytes |-> row.out.bytes, outcome |-> row.out.outcome]

-----------------------------------------------------------------------------
(* The report.                                                             *)

NoReport == [state |-> "none"]

\* MUTANT: a half pair is selected.
Selected_HalfPair(g, row, all, hashed) ==
    hashed /\ row.phase = "hot-fresh" /\ row.status = "ok"

\* quick.selected: an ok hot sample of a complete pair, after the hash pass.
Selected(g, row, all, hashed) ==
    /\ hashed /\ row.phase = "hot-fresh" /\ row.status = "ok"
    /\ \A e \in ToSet(Engines(g.cases[row.case])) :
         \E i \in DOMAIN all :
            /\ all[i].case = row.case /\ all[i].rep = row.rep /\ all[i].phase = row.phase
            /\ all[i].engine = e /\ all[i].status = "ok"

\* quick.cells_for: an engine of a case is complete with all its repetitions.
Complete(g, all, hashed) ==
    \A k \in DOMAIN g.cases : \A e \in ToSet(Engines(g.cases[k])) :
        Cardinality({i \in DOMAIN all : /\ all[i].case = k /\ all[i].engine = e
                                        /\ Selected(g, all[i], all, hashed)}) = g.reps

\* A case is flagged when the candidate's median answer is the slower one.
Flagged(g, all, hashed) ==
    /\ g.slow /\ Complete(g, all, hashed)
    /\ \E k \in DOMAIN g.cases : g.cases[k].paired /\
         \A i \in DOMAIN all : all[i].case = k => all[i].out.outcome = "answer"

\* quick.result, the report's part that decides anything.
Report(g, all, state, hashed) ==
    LET complete == Complete(g, all, hashed)
        verdict == IF complete /\ Flagged(g, all, hashed) /\ state = "complete" THEN "flagged" ELSE state
    IN  [state |-> verdict, complete |-> complete, rows |-> all,
         selected |-> {i \in DOMAIN all : Selected(g, all[i], all, hashed)},
         gate |-> IF \A k \in DOMAIN g.cases : ~ g.cases[k].paired THEN "not-applicable"
                  ELSE IF verdict = "complete" THEN "pass" ELSE verdict]

\* quick.worker without a request: nothing is known but the state.
BareReport(state) ==
    [state |-> state, complete |-> FALSE, rows |-> <<>>, selected |-> {}, gate |-> "none"]

\* quick.recover: from the journal up to a torn line, never as complete.
Recovered == Report(cfg, disk.journal, "incomplete", FALSE)

-----------------------------------------------------------------------------
(* The worker.                                                             *)

QuickInit ==
    /\ cfg \in Configs
    /\ lock \in {"free", "harness"}
    /\ expired = FALSE
    /\ c = "load" /\ s = "off"
    /\ w = [pc |-> "off", at |-> 1, cmd |-> 1, exc |-> "none", state |-> "incomplete", hashed |-> FALSE]
    /\ out = NoOut /\ rows = <<>>
    /\ child = "none" /\ engine = "none"
    /\ term = "no"
    /\ disk = [config |-> FALSE, request |-> FALSE, active |-> FALSE, journal |-> <<>>,
               torn |-> FALSE, hashes |-> FALSE, report |-> NoReport,
               home |-> [journal |-> <<>>, report |-> NoReport]]
    /\ struck = FALSE

Init == QuickInit /\ HashInit

Ended == w.pc \in {"over", "dead"}

Goto(pc) == w' = [w EXCEPT !.pc = pc]

\* A worker with an undelivered signal takes no further step of its own.
At(pc) == w.pc = pc /\ term # "sent"

\* Where an exception raised at pc goes on: a command's finally drains its
\* child, execute's finally journals the row, the rest is the worker's except.
Unwound(pc) ==
    CASE pc \in {"active", "poll"} -> "drain"
      [] pc = "assign" -> "unlink"
      [] pc \in {"fork", "drain", "unlink", "settle", "quiet"} ->
            IF HasNoRow(This) THEN "except" ELSE "journal"
      [] OTHER -> "except"

RaiseAs(exc) == w' = [w EXCEPT !.pc = Unwound(w.pc), !.exc = exc]

\* python and the resource wrapper come up; before the handler is set a signal
\* kills the process, and without a memory cap it never starts.
WorkerBoots ==
    /\ At("boot")
    /\ Goto("request") \/ Goto("dead")
    /\ UNCHANGED <<cfg, lock, expired, c, s, out, rows, child, engine, term, disk, struck, hashVars>>

\* quick.py:569-589
SaveRequest ==
    /\ At("request")
    /\ Goto("lock")
    /\ disk' = [disk EXCEPT !.request = TRUE]
    /\ UNCHANGED <<cfg, lock, expired, c, s, out, rows, child, engine, term, struck, hashVars>>

WorkerLock ==
    /\ At("lock")
    /\ IF lock = "free" THEN lock' = "worker" /\ Goto("admit")
       ELSE lock' = lock /\ RaiseAs("deferred")
    /\ UNCHANGED <<cfg, expired, c, s, out, rows, child, engine, term, disk, struck, hashVars>>

\* The host must be idle and the manifest the pinned one; then the inputs are
\* verified (quick.py:593-597).
Admit ==
    /\ At("admit")
    /\ \/ Goto("verify") /\ Stat("worker")
       \/ \E exc \in {"deferred", "mismatch"} : RaiseAs(exc) /\ UNCHANGED hashVars
    /\ UNCHANGED <<cfg, lock, expired, c, s, out, rows, child, engine, term, disk, struck>>

Verify ==
    /\ At("verify")
    /\ \/ HashSteps("worker") /\ UNCHANGED w
       \/ h["worker"].pc = "ok" /\ Goto("fork") /\ UNCHANGED hashVars
       \/ h["worker"].pc = "mismatch" /\ RaiseAs("mismatch") /\ UNCHANGED hashVars
    /\ UNCHANGED <<cfg, lock, expired, c, s, out, rows, child, engine, term, disk, struck>>

\* execute: a busy host defers before the attempt has a row.
Idle ==
    /\ At("idle")
    /\ Goto("fork") \/ RaiseAs("deferred")
    /\ out' = NoOut
    /\ UNCHANGED <<cfg, lock, expired, c, s, rows, child, engine, term, disk, struck, hashVars>>

\* Run.command: Popen forks the command into a session of its own; only when it
\* returns does the worker know it, and only active.json tells the watchdog.
Fork ==
    /\ At("fork") /\ ~ expired
    /\ Goto("assign")
    /\ child' = "forked" /\ engine' = "running"
    /\ UNCHANGED <<cfg, lock, expired, c, s, out, rows, term, disk, struck, hashVars>>

Assign ==
    /\ At("assign")
    /\ Goto("active")
    /\ child' = "known"
    /\ UNCHANGED <<cfg, lock, expired, c, s, out, rows, engine, term, disk, struck, hashVars>>

SaveActive ==
    /\ At("active")
    /\ Goto("poll")
    /\ disk' = [disk EXCEPT !.active = TRUE]
    /\ UNCHANGED <<cfg, lock, expired, c, s, out, rows, child, engine, term, struck, hashVars>>

Poll ==
    /\ At("poll") /\ engine = "exited"
    /\ Goto("drain")
    /\ UNCHANGED <<cfg, lock, expired, c, s, out, rows, child, engine, term, disk, struck, hashVars>>

\* The native command ends by itself.
EngineExits ==
    /\ engine = "running"
    /\ engine' = "exited"
    /\ UNCHANGED <<cfg, lock, expired, c, s, w, out, rows, child, term, disk, struck, hashVars>>

\* Run.drain: kill whatever the session holds, reap it, forget it ...
Drain ==
    /\ At("drain")
    /\ Goto("unlink")
    /\ child' = "none"
    /\ engine' = IF child = "known" THEN "none" ELSE engine
    /\ UNCHANGED <<cfg, lock, expired, c, s, out, rows, term, disk, struck, hashVars>>

\* ... and take active.json away.
Unlink ==
    /\ At("unlink")
    /\ Goto(IF w.exc = "none" THEN "settle" ELSE IF HasNoRow(This) THEN "except" ELSE "journal")
    /\ disk' = [disk EXCEPT !.active = FALSE]
    /\ UNCHANGED <<cfg, lock, expired, c, s, out, rows, child, engine, term, struck, hashVars>>

NextStep == [w EXCEPT !.at = @ + 1, !.cmd = 1,
                      !.pc = IF w.at = Len(Plan(cfg)) THEN "certify"
                             ELSE CASE Plan(cfg)[w.at + 1].phase = "probe" -> "fork"
                                    [] Plan(cfg)[w.at + 1].phase = "rivals" -> "rivals"
                                    [] OTHER -> "idle"]

\* A build says which revision it is, or another one (quick.py:601-603).
SettleProbe ==
    /\ At("settle") /\ This.phase = "probe"
    /\ w' = NextStep \/ RaiseAs("mismatch")
    /\ UNCHANGED <<cfg, lock, expired, c, s, out, rows, child, engine, term, disk, struck, hashVars>>

\* The rivals' runner and engine must be the pinned ones, and the run be theirs
\* (quick.py:518-530).
CheckRivals ==
    /\ At("rivals")
    /\ Goto("idle") \/ RaiseAs("mismatch")
    /\ UNCHANGED <<cfg, lock, expired, c, s, out, rows, child, engine, term, disk, struck, hashVars>>

\* The runner fails, or ends without every rival's repetitions, or with them.
SettleRivals ==
    /\ At("settle") /\ This.phase = "rivals"
    /\ w' = NextStep \/ RaiseAs("mismatch") \/ RaiseAs("expired")
    /\ UNCHANGED <<cfg, lock, expired, c, s, out, rows, child, engine, term, disk, struck, hashVars>>

\* What the native command gave: foreign load on the host rejects it, the
\* declared outcome is checked, and a Parquet answer goes to the validators.
SettleNative ==
    /\ At("settle") /\ ~ HasNoRow(This) /\ w.cmd = 1
    /\ \/ out' = out /\ RaiseAs("deferred")
       \/ \E r \in Results :
            LET outcome == Outcome(Case, r)
                row == [exit |-> r.exit, bytes |-> r.bytes, outcome |-> outcome, valid |-> FALSE]
            IN  IF outcome = "mismatch"
                THEN out' = [row EXCEPT !.outcome = "unknown"] /\ RaiseAs("mismatch")
                ELSE /\ out' = row
                     /\ w' = IF Validated(Case, row) THEN [w EXCEPT !.pc = "fork", !.cmd = 2]
                             ELSE [w EXCEPT !.pc = "quiet"]
    /\ UNCHANGED <<cfg, lock, expired, c, s, rows, child, engine, term, disk, struck, hashVars>>

\* DuckDB, then PyArrow, reads the artifact back (quick.py:315-356).
SettleValidator ==
    /\ At("settle") /\ w.cmd > 1
    /\ \/ /\ w' = IF w.cmd = 2 THEN [w EXCEPT !.pc = "fork", !.cmd = 3] ELSE [w EXCEPT !.pc = "quiet"]
          /\ out' = [out EXCEPT !.valid = w.cmd = 3]
       \/ RaiseAs("mismatch") /\ out' = out
    /\ UNCHANGED <<cfg, lock, expired, c, s, rows, child, engine, term, disk, struck, hashVars>>

\* The host must be idle afterwards as well (quick.py:399).
Quiet ==
    /\ At("quiet")
    /\ Goto("journal") \/ RaiseAs("deferred")
    /\ UNCHANGED <<cfg, lock, expired, c, s, out, rows, child, engine, term, disk, struck, hashVars>>

Status == CASE w.exc = "none" -> "ok"
            [] w.exc = "expired" -> "timeout"
            [] w.exc = "deferred" -> "environment-rejected"
            [] OTHER -> "failed"

\* Run.journal: every attempt, whatever became of it, to memory ...
Journal ==
    /\ At("journal")
    /\ rows' = Append(rows, Row(Status))
    /\ Goto("write")
    /\ UNCHANGED <<cfg, lock, expired, c, s, out, child, engine, term, disk, struck, hashVars>>

\* ... and then to disk; a signal in between keeps the row from the journal.
WriteRow ==
    /\ At("write")
    /\ disk' = [disk EXCEPT !.journal = Append(@, Last(rows))]
    /\ Goto(IF w.exc = "none" THEN "pair" ELSE "except")
    /\ UNCHANGED <<cfg, lock, expired, c, s, out, rows, child, engine, term, struck, hashVars>>

\* MUTANT: builds that differ are let through whenever a reason is declared.
Agree_Declared(case, a, b) == Identity(a) = Identity(b) \/ case.declared

\* quick.pair_check: equal, or a declared change of Parquet bytes between two
\* answers that both validators read back.
Agree(case, a, b) ==
    \/ Identity(a) = Identity(b)
    \/ /\ case.output = "parquet" /\ case.declared
       /\ a.out.outcome = "answer" /\ b.out.outcome = "answer"
       /\ a.out.valid /\ b.out.valid
       /\ a.out.exit = 0 /\ b.out.exit = 0

\* The rows of the pair just completed, and the first answer of an engine.
PairRows == {i \in DOMAIN rows : rows[i].case = This.case /\ rows[i].rep = This.rep}

FirstOf(row) == CHOOSE i \in DOMAIN rows :
    rows[i].phase = "hash-first" /\ rows[i].case = row.case /\ rows[i].engine = row.engine

Changed == {i \in PairRows : Identity(rows[i]) # Identity(rows[FirstOf(rows[i])])}

Incorrect(marked) == [i \in DOMAIN rows |->
    IF i \in marked THEN [rows[i] EXCEPT !.status = "incorrect"] ELSE rows[i]]

HashPassEnds == This.phase = "hash-first" /\ This.last /\ This.case = Len(cfg.cases)

\* After a pair the builds must agree, and each with its own first answer; only
\* rows in memory are marked, the journal keeps what was written.
Pair ==
    /\ At("pair")
    /\ IF This.last /\ \E i, j \in PairRows : ~ Agree(Case, rows[i], rows[j])
       THEN rows' = Incorrect(PairRows) /\ RaiseAs("mismatch") /\ disk' = disk
       ELSE IF This.last /\ Changed # {}
       THEN /\ rows' = Incorrect({CHOOSE i \in Changed : \A j \in Changed : i <= j})
            /\ RaiseAs("mismatch") /\ disk' = disk
       ELSE /\ rows' = rows
            /\ disk' = [disk EXCEPT !.hashes = @ \/ HashPassEnds]
            /\ w' = [NextStep EXCEPT !.hashed = @ \/ HashPassEnds]
    /\ UNCHANGED <<cfg, lock, expired, c, s, out, child, engine, term, struck, hashVars>>

\* The fixed target is reached; the lock goes with the end of its block.
Certify ==
    /\ At("certify")
    /\ w' = [w EXCEPT !.pc = "final", !.state = "complete"]
    /\ lock' = "free"
    /\ UNCHANGED <<cfg, expired, c, s, out, rows, child, engine, term, disk, struck, hashVars>>

\* Leaving the block gives the lock back, and the handler names the state.
Except ==
    /\ At("except")
    /\ w' = [w EXCEPT !.pc = "final",
                      !.state = CASE w.exc = "expired" -> "incomplete"
                                  [] w.exc = "deferred" -> "deferred"
                                  [] OTHER -> "failed"]
    /\ lock' = IF lock = "worker" THEN "free" ELSE lock
    /\ UNCHANGED <<cfg, expired, c, s, out, rows, child, engine, term, disk, struck, hashVars>>

\* worker's finally: whatever still runs is drained, then signals are ignored
\* and the report is written, in one rename.
FinalDrain ==
    /\ At("final")
    /\ Goto("ignore")
    /\ child' = "none"
    /\ engine' = IF child = "known" THEN "none" ELSE engine
    /\ disk' = [disk EXCEPT !.active = FALSE]
    /\ UNCHANGED <<cfg, lock, expired, c, s, out, rows, term, struck, hashVars>>

IgnoreTerm ==
    /\ At("ignore")
    /\ Goto("report")
    /\ UNCHANGED <<cfg, lock, expired, c, s, out, rows, child, engine, term, disk, struck, hashVars>>

WriteReport ==
    /\ w.pc = "report"
    /\ Goto("over")
    /\ disk' = [disk EXCEPT !.report = IF disk.request THEN Report(cfg, rows, w.state, w.hashed)
                                       ELSE BareReport(w.state)]
    /\ UNCHANGED <<cfg, lock, expired, c, s, out, rows, child, engine, term, struck, hashVars>>

\* Run.check, wherever the worker calls it, once the budget is over.
BudgetExpired ==
    /\ expired /\ term # "sent"
    /\ \/ w.pc \in {"admit", "verify", "rivals", "idle", "fork", "settle", "quiet"}
       \/ w.pc = "poll" /\ engine = "running"
    /\ RaiseAs("expired")
    /\ UNCHANGED <<cfg, lock, expired, c, s, out, rows, child, engine, term, disk, struck, hashVars>>

\* The handler of SIGTERM raises BudgetExpired where the worker is.  Inside
\* Popen the forked command is not yet self.child and stays; in worker's
\* except or finally it ends the process, the report unwritten; before the
\* handler is set the signal kills, and once ignored it does nothing.
TakeTerm ==
    /\ term = "sent" /\ ~ Ended
    /\ term' = "taken"
    /\ CASE w.pc \in {"boot", "final", "ignore"} -> Goto("dead")
         [] w.pc = "report" -> w' = w
         [] w.pc = "except" -> w' = [w EXCEPT !.pc = "final"]
         [] OTHER -> RaiseAs("expired")
    /\ child' = IF w.pc = "assign" THEN "none" ELSE child
    /\ struck' = (struck \/ w.pc \in {"assign", "active"})
    /\ lock' = IF w.pc \in {"except", "boot", "final", "ignore"} /\ lock = "worker" THEN "free" ELSE lock
    /\ UNCHANGED <<cfg, expired, c, s, out, rows, engine, disk, hashVars>>

Worker ==
    \/ WorkerBoots \/ SaveRequest \/ WorkerLock \/ Admit \/ Verify
    \/ Idle \/ Fork \/ Assign \/ SaveActive \/ Poll \/ Drain \/ Unlink
    \/ CheckRivals \/ SettleRivals \/ SettleProbe \/ SettleNative \/ SettleValidator \/ Quiet
    \/ Journal \/ WriteRow \/ Pair
    \/ Certify \/ Except \/ FinalDrain \/ IgnoreTerm \/ WriteReport
    \/ BudgetExpired \/ TakeTerm

-----------------------------------------------------------------------------
(* The supervisor.                                                         *)

\* The measured budget ends.
Expire ==
    /\ ~ expired /\ s # "off"
    /\ expired' = TRUE
    /\ UNCHANGED <<cfg, lock, c, s, w, out, rows, child, engine, term, disk, struck, hashVars>>

Supervise ==
    /\ s = "start"
    /\ s' = "wait"
    /\ Goto("boot")
    /\ UNCHANGED <<cfg, lock, expired, c, out, rows, child, engine, term, disk, struck, hashVars>>

\* MUTANT: a worker that ended is taken to have written its report.
Collect_Trusting ==
    /\ s = "wait" /\ Ended
    /\ s' = "over"
    /\ UNCHANGED <<cfg, lock, expired, c, w, out, rows, child, engine, term, disk, struck, hashVars>>

\* The worker ended in time: its report, or one made for it.
Collect ==
    /\ s = "wait" /\ Ended
    /\ s' = IF disk.report = NoReport THEN "recover" ELSE "over"
    /\ UNCHANGED <<cfg, lock, expired, c, w, out, rows, child, engine, term, disk, struck, hashVars>>

\* The watchdog: SIGTERM, a quarter of a second, then the sessions it knows.
Timeout ==
    /\ s = "wait" /\ expired /\ ~ Ended
    /\ s' = "grace"
    /\ term' = "sent"
    /\ UNCHANGED <<cfg, lock, expired, c, w, out, rows, child, engine, disk, struck, hashVars>>

\* MUTANT: the grace has no end of its own.
LookForActive_AfterTheWorker ==
    /\ s = "grace" /\ Ended
    /\ s' = IF disk.active THEN "sweep" ELSE "kill"
    /\ UNCHANGED <<cfg, lock, expired, c, w, out, rows, child, engine, term, disk, struck, hashVars>>

LookForActive ==
    /\ s = "grace"
    /\ s' = IF disk.active THEN "sweep" ELSE "kill"
    /\ UNCHANGED <<cfg, lock, expired, c, w, out, rows, child, engine, term, disk, struck, hashVars>>

\* active.json may have gone since it was seen: reading it then raises.
Sweep ==
    /\ s = "sweep"
    /\ IF disk.active
       THEN s' = "kill" /\ engine' = (IF engine = "running" THEN "exited" ELSE engine)
       ELSE s' = "raised" /\ engine' = engine
    /\ UNCHANGED <<cfg, lock, expired, c, w, out, rows, child, term, disk, struck, hashVars>>

\* SIGKILL to the worker's session; a journal line may be torn by it.  The
\* locks a process holds go with it.
Kill ==
    /\ s = "kill"
    /\ s' = "recover"
    /\ IF Ended THEN UNCHANGED <<w, lock, disk, struck>>
       ELSE /\ Goto("dead")
            /\ lock' = IF lock = "worker" THEN "free" ELSE lock
            /\ struck' = (struck \/ w.pc \in {"assign", "active"})
            /\ \E torn \in BOOLEAN : /\ torn => w.pc = "write"
                                   /\ disk' = [disk EXCEPT !.torn = torn]
    /\ UNCHANGED <<cfg, expired, c, out, rows, child, engine, term, hashVars>>

\* quick.recover, over whatever report there was.
Recover ==
    /\ s = "recover"
    /\ s' = "over"
    /\ disk' = [disk EXCEPT !.request = TRUE, !.report = Recovered]
    /\ UNCHANGED <<cfg, lock, expired, c, w, out, rows, child, engine, term, struck, hashVars>>

Supervisor == Supervise \/ Collect \/ Timeout \/ LookForActive \/ Sweep \/ Kill \/ Recover

-----------------------------------------------------------------------------
(* The coordinator: main and fleet, on the host itself.                    *)

Coordinate(pc) == c' = pc

\* A configuration that load refuses leaves no directory behind.
Load ==
    /\ c = "load"
    /\ Coordinate(IF ValidConfig(cfg) THEN "save" ELSE "over")
    /\ UNCHANGED <<cfg, lock, expired, s, w, out, rows, child, engine, term, disk, struck, hashVars>>

SaveConfig ==
    /\ c = "save"
    /\ Coordinate(IF cfg.remote THEN "mkdir" ELSE "lock")
    /\ disk' = [disk EXCEPT !.config = TRUE]
    /\ UNCHANGED <<cfg, lock, expired, s, w, out, rows, child, engine, term, struck, hashVars>>

\* The lock held elsewhere raises Deferred, which main does not catch.
SetupLock ==
    /\ c = "lock"
    /\ IF lock = "free" THEN lock' = "setup" /\ Coordinate("manifest")
       ELSE lock' = lock /\ Coordinate("crash")
    /\ UNCHANGED <<cfg, expired, s, w, out, rows, child, engine, term, disk, struck, hashVars>>

CheckManifest ==
    /\ c = "manifest"
    /\ \/ Coordinate("verify") /\ Stat("setup") /\ lock' = lock
       \/ Coordinate("recover") /\ lock' = "free" /\ UNCHANGED hashVars
    /\ UNCHANGED <<cfg, expired, s, w, out, rows, child, engine, term, disk, struck>>

\* Verifying has a deadline of its own; whatever ends it gives the lock back.
SetupVerify ==
    /\ c = "verify"
    /\ \/ (HashSteps("setup") \/ HashStop("setup")) /\ UNCHANGED <<c, lock>>
       \/ /\ h["setup"].pc \in {"ok", "mismatch", "stopped"}
          /\ Coordinate(IF h["setup"].pc # "ok" THEN "recover" ELSE IF cfg.remote THEN "link" ELSE "start")
          /\ lock' = "free" /\ UNCHANGED hashVars
    /\ UNCHANGED <<cfg, expired, s, w, out, rows, child, engine, term, disk, struck>>

\* supervise refuses a host without a memory cap.
StartSupervisor ==
    /\ c = "start"
    /\ IF cfg.capped THEN s' = "start" /\ Coordinate("wait")
       ELSE s' = s /\ Coordinate("recover")
    /\ UNCHANGED <<cfg, lock, expired, w, out, rows, child, engine, term, disk, struck, hashVars>>

FleetReturns ==
    /\ c = "wait" /\ s \in {"over", "raised"}
    /\ Coordinate(IF s = "over" THEN "over" ELSE "recover")
    /\ UNCHANGED <<cfg, lock, expired, s, w, out, rows, child, engine, term, disk, struck, hashVars>>

-----------------------------------------------------------------------------
(* The coordinator of a remote host.  lock is that host's, taken for each  *)
(* command and transfer by itself; one transfer stands for several.        *)

Onward(pc) ==
    CASE pc = "mkdir" -> "package"   [] pc = "package" -> "pins"    [] pc = "pins" -> "objects"
      [] pc = "objects" -> "hash"    [] pc = "hash" -> "probe"      [] pc = "copy" -> "probe again"
      [] pc = "link" -> "corpus"     [] pc = "corpus" -> "builds"   [] pc = "builds" -> "ship"
      [] pc = "ship" -> "ssh"

\* LOCK_EXEC exits 75 where the lock is held.
LockedOut == lock # "free" /\ Coordinate("defer")

\* What remote runs there, and what transfer copies there (rsync may report a
\* refused lock as an error of its own).
Commands == {"mkdir", "objects", "link"}
Transfers == {"package", "copy", "corpus", "ship"}

\* ssh, the command or rsync may fail, or take too long.
OnHost ==
    /\ c \in Commands \cup Transfers
    /\ \/ lock = "free" /\ Coordinate(Onward(c))
       \/ LockedOut
       \/ Coordinate("recover")
    /\ UNCHANGED <<cfg, lock, expired, s, w, out, rows, child, engine, term, disk, struck, hashVars>>

\* The manifest, the input and the builds must be the pinned ones before they
\* leave; the input has a cache of checksums of its own here.
AtHome ==
    /\ c \in {"pins", "hash", "builds"}
    /\ Coordinate(Onward(c)) \/ Coordinate("recover")
    /\ UNCHANGED <<cfg, lock, expired, s, w, out, rows, child, engine, term, disk, struck, hashVars>>

\* remote_input: the host verifies the object it has, or says it has none; one
\* that was copied and is not there is a mismatch.
Probe ==
    /\ c \in {"probe", "probe again"}
    /\ \/ lock = "free" /\ Stat("setup") /\ lock' = "setup" /\ Coordinate("verify")
       \/ /\ \/ lock = "free" /\ Coordinate(IF c = "probe" THEN "copy" ELSE "recover")
             \/ LockedOut
             \/ Coordinate("recover")
          /\ UNCHANGED <<lock, hashVars>>
    /\ UNCHANGED <<cfg, expired, s, w, out, rows, child, engine, term, disk, struck>>

\* The supervisor is started behind ssh; a connection refused is its exit 255.
StartRemote ==
    /\ c = "ssh"
    /\ \/ s' = (IF cfg.capped THEN "start" ELSE "raised") /\ Coordinate("remote")
       \/ s' = s /\ Coordinate("fetch after 255")
    /\ UNCHANGED <<cfg, lock, expired, w, out, rows, child, engine, term, disk, struck, hashVars>>

\* ssh ends with the supervisor, returned or raised, or with the connection (the
\* supervisor goes on), or past the budget and half a minute.
SshReturns ==
    /\ c = "remote"
    /\ \/ s \in {"over", "raised"} /\ Coordinate("fetch")
       \/ s \notin {"over", "raised"} /\ Coordinate("fetch after 255")
       \/ expired /\ Coordinate("recover")
    /\ UNCHANGED <<cfg, lock, expired, s, w, out, rows, child, engine, term, disk, struck, hashVars>>

Copied(n, report) == disk' = [disk EXCEPT !.home = [journal |-> SubSeq(disk.journal, 1, n), report |-> report]]

\* The run's directory as it is then; a fetch that fails may have brought a part.
Fetch ==
    /\ c \in {"fetch", "fetch after 255"}
    /\ \/ /\ lock = "free" /\ Copied(Len(disk.journal), disk.report)
          /\ Coordinate(IF c = "fetch" THEN "over" ELSE "over after 255")
       \/ LockedOut /\ disk' = disk
       \/ Coordinate("recover") /\ \E n \in {0, Len(disk.journal)} : Copied(n, NoReport)
    /\ UNCHANGED <<cfg, lock, expired, s, w, out, rows, child, engine, term, struck, hashVars>>

\* main's except: the configuration was saved, so a report is made, of what is
\* here; where the host's lock was held it says deferred.
MainRecover ==
    /\ c \in {"recover", "defer"}
    /\ Coordinate("over")
    /\ disk' = IF ~ cfg.remote THEN [disk EXCEPT !.request = TRUE, !.report = Recovered]
               ELSE LET made == Report(cfg, disk.home.journal, "incomplete", FALSE)
                    IN  [disk EXCEPT !.home.report =
                            IF c = "defer" THEN [made EXCEPT !.state = "deferred", !.gate = "deferred"] ELSE made]
    /\ UNCHANGED <<cfg, lock, expired, s, w, out, rows, child, engine, term, struck, hashVars>>

CoordinatorOver == c \in {"over", "over after 255", "crash"}

Coordinator ==
    \/ Load \/ SaveConfig \/ SetupLock \/ CheckManifest \/ SetupVerify
    \/ StartSupervisor \/ FleetReturns \/ MainRecover
    \/ OnHost \/ AtHome \/ Probe \/ StartRemote \/ SshReturns \/ Fetch

-----------------------------------------------------------------------------
(* Everybody else on the host.                                             *)

\* Another harness takes the host's lock, or leaves it.
Harness ==
    /\ lock \in {"free", "harness"}
    /\ lock' = IF lock = "free" THEN "harness" ELSE "free"
    /\ UNCHANGED <<cfg, expired, c, s, w, out, rows, child, engine, term, disk, struck, hashVars>>

\* Where the inputs are shared, others verify them too, and rewrite them.
Others ==
    /\ cfg.shared
    /\ Rewrite \/ \E p \in Hashers \ {"setup", "worker"} : Stat(p) \/ HashSteps(p) \/ HashStop(p)
    /\ UNCHANGED quickVars

\* Whatever is left over does nothing more.
Finished ==
    /\ CoordinatorOver
    /\ UNCHANGED vars

Next == Coordinator \/ Supervisor \/ Worker \/ EngineExits \/ Expire \/ Harness \/ Others \/ Finished

Spec == Init /\ [][Next]_vars

\* The coordinator and the supervisor run, and time passes; nothing is asked
\* of the worker, the native commands or anybody else.
FairSpec == Spec /\ WF_vars(Coordinator) /\ WF_vars(Supervisor) /\ WF_vars(Expire)

-----------------------------------------------------------------------------

\* The row of one attempt that counts.
Good(all, case, build, phase, rep) ==
    {i \in DOMAIN all : /\ all[i].case = case /\ all[i].engine = build /\ all[i].phase = phase
                        /\ all[i].rep = rep /\ all[i].status = "ok"}

\* What an answer of a case must be for its row to count.
Answers(case, row) ==
    /\ row.out.outcome = IF case.refusal THEN "refusal" ELSE "answer"
    /\ case.refusal => row.out.exit = 1 /\ row.out.bytes = 1
    /\ ~ case.refusal => row.out.exit = 0
    /\ case.output = "parquet" /\ ~ case.refusal => row.out.valid

\* Two builds may differ only in declared bytes of validated Parquet.
MayDiffer(case, a, b) ==
    a.out.bytes = b.out.bytes \/ (case.output = "parquet" /\ case.declared /\ a.out.valid /\ b.out.valid)

\* A report that says complete or flagged, or a gate that passes, stands for
\* every repetition of every case by every build, each as declared, the same
\* as the build's first answer, and in agreement with the other build; what a
\* report selects at all comes in whole pairs after the hash pass.  So does the
\* report a coordinator elsewhere has (quick.py:466-515, :605-646, :857-867).
CompleteIsEarned ==
    \A r \in {disk.report, disk.home.report} :
        /\ (r.state \in {"complete", "flagged"} \/ (r.state # "none" /\ r.gate = "pass")) =>
            /\ r.complete /\ disk.hashes
            /\ \A k \in DOMAIN cfg.cases, rep \in 1..cfg.reps :
                 \A e \in ToSet(Engines(cfg.cases[k])) :
                    /\ Cardinality(Good(r.rows, k, e, "hot-fresh", rep)) = 1
                    /\ \A i \in Good(r.rows, k, e, "hot-fresh", rep) :
                        /\ i \in r.selected
                        /\ Answers(cfg.cases[k], r.rows[i])
                        /\ \E j \in Good(r.rows, k, e, "hash-first", 0) :
                                r.rows[i].out = r.rows[j].out
                        /\ \A e2 \in ToSet(Engines(cfg.cases[k])) :
                            \E j \in Good(r.rows, k, e2, "hot-fresh", rep) :
                                MayDiffer(cfg.cases[k], r.rows[i], r.rows[j])
        /\ r.state # "none" => \A i \in r.selected :
              /\ disk.hashes
              /\ \A e \in ToSet(Engines(cfg.cases[r.rows[i].case])) :
                    Good(r.rows, r.rows[i].case, e, "hot-fresh", r.rows[i].rep) # {}

\* No repetition is timed before every case has its first answers and the
\* builds agree on all of them (quick.py:605-624).
TimingAfterAgreement ==
    (w.pc \in {"poll", "journal"} /\ This.phase = "hot-fresh") =>
        \A k \in DOMAIN cfg.cases : \A e1, e2 \in ToSet(Engines(cfg.cases[k])) :
            \E i \in Good(rows, k, e1, "hash-first", 0), j \in Good(rows, k, e2, "hash-first", 0) :
                /\ Answers(cfg.cases[k], rows[i])
                /\ MayDiffer(cfg.cases[k], rows[i], rows[j])

\* When the coordinator ends and the directory was made, a report is there (of a
\* remote host's only if the supervisor did not raise and ssh was not cut); when
\* the supervisor has ended in order, so has the worker, and no native command
\* runs on that the worker knew and had time to name (quick.py:667-703).  The
\* journal has the rows of memory and no other, whatever becomes of a row's
\* status later; it may lack the last one while the worker goes on to write it,
\* and for good where the watchdog's signal came first, but never of a run whose
\* report says complete or flagged (quick.py:230-233, :566-568).
RunEndsReported ==
    /\ c = "over" /\ disk.config =>
         IF cfg.remote THEN disk.home.report # NoReport \/ s = "raised" ELSE disk.report # NoReport
    /\ s = "over" => Ended /\ (engine = "running" => struck)
    /\ Len(disk.journal) \in {Len(rows), Len(rows) - 1}
    /\ \A i \in DOMAIN disk.journal : Identity(disk.journal[i]) = Identity(rows[i])
    /\ Len(disk.journal) # Len(rows) =>
         /\ w.pc = "write" \/ term # "no"
         /\ disk.report.state \notin {"complete", "flagged"}

\* Whatever the worker, a native command or the lock does, the command ends:
\* the watchdog waits for nobody (quick.py:680-703).
CoordinatorEnds == <>CoordinatorOver

=============================================================================
