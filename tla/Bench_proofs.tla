------------------------------ MODULE Bench_proofs ------------------------------
(***************************************************************************)
(* The benches for any parameters.                                         *)
(*                                                                         *)
(* bench/quick.py, for any configurations, results, hashers and versions   *)
(* of the input: what a run does to the hash cache is what the cache       *)
(* allows, and a run that ends is reported, with nothing left running that *)
(* it had the time to name.                                                *)
(*                                                                         *)
(* bench/lane.py and score.py, for any setups, engines, replies, outputs   *)
(* and number of rounds: the journal says of every answer what the judge   *)
(* does, a lane that ends has a final result for every cell, and the ship  *)
(* bar is met only by medians that are what it says.                       *)
(*                                                                         *)
(* bench/export.py and requests.py, for any requests, saved runs and       *)
(* growth of their journals: a destination holds files of one package, and *)
(* the cells of a package are what the scorer and its accepted attempts    *)
(* say.                                                                    *)
(***************************************************************************)
EXTENDS BenchQuick, BenchLane, BenchExport, DataLemmas, SequenceTheorems, FiniteSetTheorems, TLAPS

-----------------------------------------------------------------------------
(* The hash cache: what it says is true, for any number of hashers and of   *)
(* versions, whatever each of them holds.                                   *)

Verifies == {"off", "lookup", "hash", "publish", "recheck", "ok", "mismatch", "stopped"}
Sums == Seq({Content[v] : v \in 0..MaxVersion})

HashTypeOK ==
    /\ file \in 0..MaxVersion
    /\ cache \in [valid : BOOLEAN, version : 0..MaxVersion, sum : Sums]
    /\ h \in [Hashers -> [pc : Verifies, seen : 0..MaxVersion, sum : Sums]]

\* What holds of a hasher that saw version v, now that the file is at n: while
\* the file has not moved, every block read is of that version; from Confirm on
\* the whole checksum is.
HasherInv(x, n) ==
    /\ x.seen <= n
    /\ x.pc = "hash" =>
        /\ Len(x.sum) <= 2
        /\ x.seen = n => \A i \in 1..Len(x.sum) : x.sum[i] = Content[x.seen]
    /\ x.pc \in {"publish", "recheck"} => x.sum = SumOf(x.seen)
    /\ x.pc = "ok" => Content[x.seen] = Pin

HashInv ==
    /\ HashTypeOK
    /\ cache.valid => cache.sum = SumOf(cache.version)
    /\ \A p \in Hashers : HasherInv(h[p], file)

-----------------------------------------------------------------------------

\* Two reads of an unchanging version are its checksum.
LEMMA TwoBlocks ==
    ASSUME NEW t \in Sums, NEW v \in 0..MaxVersion, Len(t) = 2,
           \A i \in 1..Len(t) : t[i] = Content[v]
    PROVE  t = SumOf(v)
<1>1. Content[v] \in {Content[u] : u \in 0..MaxVersion}
    OBVIOUS
<1>2. t[1] = Content[v] /\ t[2] = Content[v]
    OBVIOUS
<1>3. t = <<t[1], t[2]>>
    BY DEF Sums
<1> QED
    BY <1>2, <1>3 DEF SumOf

LEMMA HashInitInv == HashInit => HashInv
<1> SUFFICES ASSUME HashInit PROVE HashInv
    OBVIOUS
<1>1. HashTypeOK
    BY ContentAssumption DEF HashInit, HashTypeOK, NoEntry, Unstarted, Verifies, Sums
<1>2. ~ cache.valid
    BY DEF HashInit, NoEntry
<1>3. \A p \in Hashers : HasherInv(h[p], file)
    <2> SUFFICES ASSUME NEW p \in Hashers PROVE HasherInv(h[p], file)
        OBVIOUS
    <2>1. h[p].seen = 0 /\ h[p].pc = "off" /\ file = 0
        BY DEF HashInit, Unstarted
    <2> QED
        BY <2>1 DEF HasherInv, SumOf
<1> QED
    BY <1>1, <1>2, <1>3 DEF HashInv

\* One hasher's step.
LEMMA HasherKeeps ==
    ASSUME HashInv, NEW p \in Hashers, Stat(p) \/ HashSteps(p) \/ HashStop(p)
    PROVE  HashInv'
<1> USE ContentAssumption
<1>t. /\ h \in [Hashers -> [pc : Verifies, seen : 0..MaxVersion, sum : Sums]]
      /\ file \in 0..MaxVersion
      /\ cache \in [valid : BOOLEAN, version : 0..MaxVersion, sum : Sums]
      /\ cache.valid => cache.sum = SumOf(cache.version)
      /\ \A q \in Hashers : HasherInv(h[q], file)
    BY DEF HashInv, HashTypeOK
<1>1. CASE Stat(p)
    <2>1. HashTypeOK'
        <3> DEFINE x == [pc |-> "lookup", seen |-> file, sum |-> <<>>]
        <3>1. <<>> \in Sums
            BY DEF Sums
        <3>2. x \in [pc : Verifies, seen : 0..MaxVersion, sum : Sums]
            BY <1>t, <3>1 DEF Verifies
        <3>3. h' = [h EXCEPT ![p] = x] /\ UNCHANGED <<file, cache>>
            BY <1>1 DEF Stat
        <3> HIDE DEF x
        <3> QED
            BY <1>t, <3>2, <3>3 DEF HashTypeOK
    <2>2. \A q \in Hashers : HasherInv(h[q], file)'
        BY <1>t, <1>1 DEF Stat, HasherInv
    <2> QED
        BY <1>t, <1>1, <2>1, <2>2 DEF HashInv, Stat, SumOf
<1>2. CASE Lookup(p)
    <2>1. HashTypeOK'
        <3>1. <<>> \in Sums
            BY DEF Sums
        <3> QED
            BY <1>t, <1>2, <3>1 DEF Lookup, HashTypeOK, Verifies
    <2>2. \A q \in Hashers : HasherInv(h[q], file)'
        <3> SUFFICES ASSUME NEW q \in Hashers PROVE HasherInv(h[q], file)'
            OBVIOUS
        <3>1. CASE q # p
            BY <1>t, <1>2, <3>1 DEF Lookup, HasherInv, SumOf
        <3>2. CASE q = p /\ Hit(cache, h[p].seen)
            BY <1>t, <1>2, <3>2 DEF Lookup, HasherInv, Hit, SumOf
        <3>3. CASE q = p /\ ~ Hit(cache, h[p].seen)
            BY <1>t, <1>2, <3>3 DEF Lookup, HasherInv, SumOf
        <3> QED
            BY <3>1, <3>2, <3>3
    <2> QED
        BY <1>t, <1>2, <2>1, <2>2 DEF HashInv, Lookup, SumOf
<1>3. CASE ReadBlock(p)
    <2> DEFINE read == Append(h[p].sum, Content[file])
    <2>1. /\ h[p].sum \in Sums /\ Content[file] \in {Content[v] : v \in 0..MaxVersion}
          /\ h[p].pc = "hash" /\ Len(h[p].sum) < 2
        BY <1>t, <1>3 DEF ReadBlock
    <2>2. /\ read \in Sums /\ Len(read) = Len(h[p].sum) + 1 /\ Len(h[p].sum) \in Nat
          /\ \A i \in 1..Len(h[p].sum) : read[i] = h[p].sum[i]
          /\ read[Len(read)] = Content[file]
        BY <2>1 DEF Sums
    <2>3. /\ UNCHANGED <<file, cache>>
          /\ h' = [h EXCEPT ![p].sum = read]
        BY <1>3 DEF ReadBlock
    <2> HIDE DEF read
    <2>4. HashTypeOK'
        <3>1. [h[p] EXCEPT !.sum = read] \in [pc : Verifies, seen : 0..MaxVersion, sum : Sums]
            BY <1>t, <2>2
        <3>2. h' = [h EXCEPT ![p] = [h[p] EXCEPT !.sum = read]]
            BY <2>3
        <3> QED
            BY <1>t, <2>3, <3>1, <3>2 DEF HashTypeOK
    <2>5. HasherInv(h[p], file)'
        <3>1. h'[p].pc = "hash" /\ h'[p].seen = h[p].seen /\ h'[p].sum = read /\ file' = file
            BY <1>t, <2>1, <2>3
        <3>2. HasherInv(h[p], file)
            BY <1>t
        <3>3. h[p].seen = file => \A i \in 1..Len(read) : read[i] = Content[h[p].seen]
            <4>1. h[p].seen = file => \A i \in 1..Len(h[p].sum) : h[p].sum[i] = Content[h[p].seen]
                BY <2>1, <3>2 DEF HasherInv
            <4>2. \A i \in 1..Len(read) : i \in 1..Len(h[p].sum) \/ i = Len(read)
                BY <2>2
            <4> QED
                BY <2>2, <4>1, <4>2
        <3> QED
            BY <2>1, <2>2, <3>1, <3>2, <3>3 DEF HasherInv
    <2>6. \A q \in Hashers : q # p => HasherInv(h[q], file)'
        BY <1>t, <2>3 DEF HasherInv, SumOf
    <2> QED
        BY <1>t, <2>3, <2>4, <2>5, <2>6 DEF HashInv, SumOf
<1>4. CASE Confirm(p)
    <2>1. SameFile(h[p].seen) => h[p].sum = SumOf(h[p].seen)
        BY <1>t, <1>4, TwoBlocks DEF Confirm, SameFile, HasherInv
    <2>2. HashTypeOK'
        BY <1>t, <1>4 DEF Confirm, HashTypeOK, Verifies
    <2>3. \A q \in Hashers : HasherInv(h[q], file)'
        BY <1>t, <1>4, <2>1 DEF Confirm, HasherInv, SumOf
    <2> QED
        BY <1>t, <1>4, <2>2, <2>3 DEF HashInv, Confirm, SumOf
<1>5. CASE Publish(p)
    <2>1. h[p].sum = SumOf(h[p].seen)
        BY <1>t, <1>5 DEF Publish, HasherInv
    <2>2. HashTypeOK'
        BY <1>t, <1>5 DEF Publish, HashTypeOK, Verifies
    <2>3. \A q \in Hashers : HasherInv(h[q], file)'
        BY <1>t, <1>5, <2>1 DEF Publish, HasherInv, SumOf
    <2>4. cache'.sum = SumOf(cache'.version)
        BY <1>5, <2>1 DEF Publish
    <2> QED
        BY <2>2, <2>3, <2>4 DEF HashInv, SumOf
<1>6. CASE Recheck(p)
    <2>1. h[p].sum = SumOf(h[p].seen)
        BY <1>t, <1>6 DEF Recheck, HasherInv
    <2>2. HashTypeOK'
        BY <1>t, <1>6 DEF Recheck, HashTypeOK, Verifies
    <2>3. h[p].sum = <<Pin, Pin>> => Content[h[p].seen] = Pin
        BY <2>1 DEF SumOf
    <2>4. \A q \in Hashers : HasherInv(h[q], file)'
        BY <1>t, <1>6, <2>1, <2>3 DEF Recheck, HasherInv, SumOf
    <2> QED
        BY <1>t, <1>6, <2>2, <2>4 DEF HashInv, Recheck, SumOf
<1>7. CASE HashStop(p)
    <2>1. HashTypeOK'
        BY <1>t, <1>7 DEF HashStop, HashTypeOK, Verifies
    <2>2. \A q \in Hashers : HasherInv(h[q], file)'
        BY <1>t, <1>7 DEF HashStop, HasherInv, SumOf
    <2> QED
        BY <1>t, <1>7, <2>1, <2>2 DEF HashInv, HashStop, SumOf
<1> QED
    BY <1>1, <1>2, <1>3, <1>4, <1>5, <1>6, <1>7 DEF HashSteps

\* A rewrite moves the file past whatever anybody has seen.
LEMMA RewriteKeeps == HashInv /\ Rewrite => HashInv'
<1> SUFFICES ASSUME HashInv, Rewrite PROVE HashInv'
    OBVIOUS
<1>1. HashTypeOK'
    BY ContentAssumption DEF HashInv, HashTypeOK, Rewrite
<1>2. \A p \in Hashers : HasherInv(h[p], file)'
    BY ContentAssumption DEF HashInv, HashTypeOK, Rewrite, HasherInv, SumOf
<1> QED
    BY <1>1, <1>2 DEF HashInv, Rewrite, SumOf

LEMMA HashNextKeeps == HashInv /\ [HashNext]_hashVars => HashInv'
<1> SUFFICES ASSUME HashInv, [HashNext]_hashVars PROVE HashInv'
    OBVIOUS
<1>1. CASE Rewrite
    BY <1>1, RewriteKeeps
<1>2. ASSUME NEW p \in Hashers, Stat(p) \/ HashSteps(p) \/ HashStop(p) PROVE HashInv'
    BY <1>2, HasherKeeps
<1>3. CASE UNCHANGED hashVars
    BY <1>3 DEF hashVars, HashInv, HashTypeOK, HasherInv, SumOf
<1> QED
    BY <1>1, <1>2, <1>3 DEF HashNext

LEMMA InvIsVerdicts == HashInv => VerdictsAreTrue
    BY DEF HashInv, HasherInv, VerdictsAreTrue

\* What the cache and the hashers say is true for every number of hashers and
\* of versions of the file: an entry holds the checksum of the version it
\* names, and an ok means pinned content (quick.py:91-127).
THEOREM CacheTellsTheTruth == HashSpec => []VerdictsAreTrue
<1>1. HashInit => HashInv
    BY HashInitInv
<1>2. HashInv /\ [HashNext]_hashVars => HashInv'
    BY HashNextKeeps
<1>3. HashInv => VerdictsAreTrue
    BY InvIsVerdicts
<1> QED
    BY <1>1, <1>2, <1>3, PTL DEF HashSpec

-----------------------------------------------------------------------------
(* A run, as the hash cache sees it.                                       *)

LEMMA WorkerHashes == Worker => [HashNext]_hashVars
<1> SUFFICES ASSUME Worker PROVE [HashNext]_hashVars
    OBVIOUS
<1> USE QuickAssumption
<1>1. CASE Admit \/ Verify
    BY <1>1 DEF Admit, Verify, HashNext
<1>2. CASE WorkerBoots \/ SaveRequest \/ WorkerLock \/ Idle \/ Fork \/ Assign \/ SaveActive \/ Poll
    BY <1>2 DEF WorkerBoots, SaveRequest, WorkerLock, Idle, Fork, Assign, SaveActive, Poll
<1>3. CASE Drain \/ Unlink \/ CheckRivals \/ SettleRivals \/ SettleProbe \/ SettleNative \/ SettleValidator
    BY <1>3 DEF Drain, Unlink, CheckRivals, SettleRivals, SettleProbe, SettleNative, SettleValidator
<1>4. CASE Quiet \/ Journal \/ WriteRow \/ Pair \/ Certify \/ Except \/ FinalDrain
    BY <1>4 DEF Quiet, Journal, WriteRow, Pair, Certify, Except, FinalDrain
<1>5. CASE IgnoreTerm \/ WriteReport \/ BudgetExpired \/ TakeTerm
    BY <1>5 DEF IgnoreTerm, WriteReport, BudgetExpired, TakeTerm
<1> QED
    BY <1>1, <1>2, <1>3, <1>4, <1>5 DEF Worker

LEMMA CoordinatorHashes == Coordinator => [HashNext]_hashVars
<1> SUFFICES ASSUME Coordinator PROVE [HashNext]_hashVars
    OBVIOUS
<1> USE QuickAssumption
<1>1. CASE CheckManifest \/ SetupVerify \/ Probe
    BY <1>1 DEF CheckManifest, SetupVerify, Probe, HashNext
<1>2. CASE Load \/ SaveConfig \/ SetupLock \/ StartSupervisor \/ FleetReturns \/ MainRecover
    BY <1>2 DEF Load, SaveConfig, SetupLock, StartSupervisor, FleetReturns, MainRecover
<1>3. CASE OnHost \/ AtHome \/ StartRemote \/ SshReturns \/ Fetch
    BY <1>3 DEF OnHost, AtHome, StartRemote, SshReturns, Fetch
<1> QED
    BY <1>1, <1>2, <1>3 DEF Coordinator

LEMMA StepHashes == [Next]_vars => [HashNext]_hashVars
<1> SUFFICES ASSUME [Next]_vars PROVE [HashNext]_hashVars
    OBVIOUS
<1>1. CASE Worker
    BY <1>1, WorkerHashes
<1>2. CASE Coordinator
    BY <1>2, CoordinatorHashes
<1>3. CASE Supervisor
    BY <1>3 DEF Supervisor, Supervise, Collect, Timeout, LookForActive, Sweep, Kill, Recover
<1>4. CASE EngineExits \/ Expire \/ Harness
    BY <1>4 DEF EngineExits, Expire, Harness
<1>5. CASE Others
    BY <1>5 DEF Others, HashNext
<1>6. CASE Finished \/ UNCHANGED vars
    BY <1>6 DEF Finished, vars
<1> QED
    BY <1>1, <1>2, <1>3, <1>4, <1>5, <1>6 DEF Next

\* Whatever the worker, the coordinators and those who rewrite the input do in
\* a run, the verdicts on its input are true (quick.py:91-143).
THEOREM RunsOnTrueVerdicts == Spec => []VerdictsAreTrue
<1>1. Init => HashInit
    BY DEF Init
<1>2. [Next]_vars => [HashNext]_hashVars
    BY StepHashes
<1>3. HashInit => HashInv
    BY HashInitInv
<1>4. HashInv /\ [HashNext]_hashVars => HashInv'
    BY HashNextKeeps
<1>5. HashInv => VerdictsAreTrue
    BY InvIsVerdicts
<1> QED
    BY <1>1, <1>2, <1>3, <1>4, <1>5, PTL DEF Spec

-----------------------------------------------------------------------------
(* A run that ends is reported.                                            *)

WorkerPCs ==
    {"off", "boot", "request", "lock", "admit", "verify", "idle", "fork", "assign", "active", "poll",
     "drain", "unlink", "rivals", "settle", "quiet", "journal", "write", "pair", "certify", "except",
     "final", "ignore", "report", "over", "dead"}

WorkerTypes ==
    w \in [pc : WorkerPCs, at : Nat, cmd : Nat, exc : {"none", "expired", "deferred", "mismatch"},
           state : {"incomplete", "complete", "deferred", "failed"}, hashed : BOOLEAN]

\* disk is the record its updates take it for.
DiskTypes ==
    /\ disk = [config |-> disk.config, request |-> disk.request, active |-> disk.active,
               journal |-> disk.journal, torn |-> disk.torn, hashes |-> disk.hashes,
               report |-> disk.report, home |-> disk.home]
    /\ disk.home = [journal |-> disk.home.journal, report |-> disk.home.report]

\* Before a supervisor is asked for there is none, and no worker; nothing is
\* saved before the directory is made.
CoordinatorBegins ==
    /\ c \in {"load", "save", "lock", "manifest", "verify", "start", "mkdir", "package", "pins", "objects",
              "hash", "probe", "probe again", "copy", "link", "corpus", "builds", "ship", "ssh"} =>
         s = "off"
    /\ c \in {"load", "save"} => ~ disk.config
    /\ c \in {"lock", "manifest", "start", "wait"} => ~ cfg.remote
    /\ c \in {"mkdir", "package", "pins", "objects", "hash", "probe", "probe again", "copy", "link", "corpus",
              "builds", "ship", "ssh", "remote", "fetch", "fetch after 255", "over after 255", "defer"} =>
         cfg.remote
    /\ c = "fetch" => s \in {"over", "raised"}
    /\ s \in {"off", "start"} => w.pc = "off"
    /\ w.pc = "off" => s \in {"off", "start", "raised"}

\* The signal comes from the watchdog alone; once taken, the worker only winds up.
WindsUp ==
    /\ term \in {"no", "sent", "taken"}
    /\ s \in {"off", "start", "wait"} => term = "no"
    /\ term = "taken" => w.pc \in {"drain", "unlink", "journal", "write", "except", "final", "ignore", "report", "over", "dead"}
    /\ term = "taken" /\ w.pc \in {"drain", "unlink", "journal", "write"} => w.exc # "none"
    /\ w.pc = "off" => term = "no"
    /\ s \in {"grace", "sweep", "kill"} => term # "no"
    /\ w.pc = "unlink" => child # "known"
    /\ term = "no" => (child = "known" <=> w.pc \in {"active", "poll", "drain"})

\* A native command that runs is one the watchdog can find, or the worker was
\* stopped before it could say so.
Findable ==
    engine = "running" /\ ~ struck =>
        \/ w.pc \in {"assign", "active"} /\ term # "taken"
        \/ child = "known" /\ disk.active

\* Past its look at active.json the watchdog has nothing to find any more.
Swept ==
    /\ s = "kill" => (engine = "running" => struck \/ w.pc \in {"assign", "active"})
    /\ s \in {"recover", "over"} => Ended /\ (engine = "running" => struck)

Reported ==
    /\ s = "over" => disk.report # NoReport
    /\ c = "over" /\ disk.config =>
         IF cfg.remote THEN disk.home.report # NoReport \/ s = "raised" ELSE disk.report # NoReport

\* Rows of the one shape.
IsRow(r) == r = [case |-> r.case, engine |-> r.engine, phase |-> r.phase, rep |-> r.rep,
                 status |-> r.status, out |-> r.out]
IsList(x) == Len(x) \in Nat /\ x = [i \in 1..Len(x) |-> x[i]]
Listed ==
    /\ IsList(rows) /\ IsList(disk.journal)
    /\ \A i \in 1..Len(rows) : IsRow(rows[i])

QuickInv ==
    WorkerTypes /\ DiskTypes /\ CoordinatorBegins /\ WindsUp /\ Findable /\ Swept /\ Reported /\ Listed

-----------------------------------------------------------------------------

LEMMA GotoW ==
    ASSUME WorkerTypes, NEW p \in WorkerPCs, Goto(p)
    PROVE  WorkerTypes' /\ w'.pc = p /\ w'.exc = w.exc /\ w'.state = w.state
    BY DEF WorkerTypes, Goto

LEMMA UnwoundW ==
    ASSUME NEW p \in WorkerPCs
    PROVE  /\ Unwound(p) \in {"drain", "unlink", "journal", "except"}
           /\ Unwound(p) = "drain" => p \in {"active", "poll"}
           /\ p \in {"active", "poll"} => Unwound(p) = "drain"
           /\ Unwound(p) = "unlink" => p = "assign"
           /\ p = "assign" => Unwound(p) = "unlink"
    BY DEF Unwound, WorkerPCs

LEMMA RaiseW ==
    ASSUME WorkerTypes, NEW e \in {"expired", "deferred", "mismatch"}, RaiseAs(e)
    PROVE  WorkerTypes' /\ w'.pc = Unwound(w.pc) /\ w'.exc = e /\ w'.state = w.state
<1>1. w.pc \in WorkerPCs
    BY DEF WorkerTypes
<1>2. Unwound(w.pc) \in WorkerPCs
    BY <1>1, UnwoundW DEF WorkerPCs
<1> QED
    BY <1>2 DEF WorkerTypes, RaiseAs

LEMMA NextStepW ==
    ASSUME WorkerTypes
    PROVE  /\ NextStep \in [pc : WorkerPCs, at : Nat, cmd : Nat, exc : {"none", "expired", "deferred", "mismatch"},
                            state : {"incomplete", "complete", "deferred", "failed"}, hashed : BOOLEAN]
           /\ NextStep.pc \in {"certify", "fork", "rivals", "idle"}
           /\ NextStep.exc = w.exc /\ NextStep.state = w.state
<1> DEFINE goes == IF w.at = Len(Plan(cfg)) THEN "certify"
                   ELSE CASE Plan(cfg)[w.at + 1].phase = "probe" -> "fork"
                          [] Plan(cfg)[w.at + 1].phase = "rivals" -> "rivals"
                          [] OTHER -> "idle"
<1>1. goes \in {"certify", "fork", "rivals", "idle"}
    OBVIOUS
<1>2. NextStep = [w EXCEPT !.at = @ + 1, !.cmd = 1, !.pc = goes]
    BY DEF NextStep
<1> HIDE DEF goes
<1>3. goes \in WorkerPCs /\ w.at + 1 \in Nat
    BY <1>1 DEF WorkerTypes, WorkerPCs
<1>4. NextStep \in [pc : WorkerPCs, at : Nat, cmd : Nat, exc : {"none", "expired", "deferred", "mismatch"},
                     state : {"incomplete", "complete", "deferred", "failed"}, hashed : BOOLEAN]
    BY <1>2, <1>3 DEF WorkerTypes
<1>5. NextStep.pc = goes /\ NextStep.exc = w.exc /\ NextStep.state = w.state
    BY <1>2 DEF WorkerTypes
<1> QED
    BY <1>1, <1>4, <1>5

\* A report that was made is not the lack of one.
LEMMA ReportIsOne ==
    ASSUME NEW g, NEW all, NEW state \in {"incomplete", "complete", "deferred", "failed"}, NEW hashed
    PROVE  /\ Report(g, all, state, hashed) # NoReport
           /\ [Report(g, all, state, hashed) EXCEPT !.state = "deferred", !.gate = "deferred"] # NoReport
           /\ BareReport(state) # NoReport
<1> DEFINE verdict == IF Complete(g, all, hashed) /\ Flagged(g, all, hashed) /\ state = "complete"
                      THEN "flagged" ELSE state
<1>1. verdict # "none"
    OBVIOUS
<1>2. Report(g, all, state, hashed).state = verdict
    BY DEF Report
<1>3. [Report(g, all, state, hashed) EXCEPT !.state = "deferred", !.gate = "deferred"].state = "deferred"
    BY DEF Report
<1>4. BareReport(state).state = state /\ NoReport.state = "none"
    BY DEF BareReport, NoReport
<1> QED
    BY <1>1, <1>2, <1>3, <1>4

LEMMA ListedStays ==
    ASSUME Listed, rows' = rows, disk'.journal = disk.journal
    PROVE  Listed'
    BY DEF Listed, IsList, IsRow

Calm == WorkerPCs \ {"off", "assign", "active", "poll", "drain", "unlink", "over", "dead"}

\* A step of the worker while it has no native command.
LEMMA CalmStep ==
    ASSUME QuickInv, UNCHANGED <<cfg, c, s, child, engine, term, struck>>,
           WorkerTypes', DiskTypes', Listed',
           disk'.config = disk.config, disk'.active = disk.active, disk'.home = disk.home,
           disk'.report = disk.report \/ disk'.report # NoReport,
           w.pc \in Calm, w'.pc \in Calm \cup {"over", "dead"},
           term = "taken" => \/ w'.pc \in {"except", "final", "ignore", "report", "over", "dead"}
                             \/ w'.pc = "write" /\ w'.exc # "none"
    PROVE  QuickInv'
<1> USE DEF QuickInv, Calm
<1>1. CoordinatorBegins'
    BY DEF CoordinatorBegins
<1>2. WindsUp'
    BY DEF WindsUp, CoordinatorBegins
<1>3. Findable'
    BY DEF Findable
<1>4. Swept'
    BY DEF Swept, Ended
<1>5. Reported'
    BY DEF Reported
<1> QED
    BY <1>1, <1>2, <1>3, <1>4, <1>5

\* The coordinator's steps touch nothing of the worker's.
LEMMA CoordinatorStep ==
    ASSUME QuickInv, UNCHANGED <<cfg, w, rows, child, engine, term, struck>>,
           DiskTypes', disk'.journal = disk.journal, disk'.active = disk.active,
           CoordinatorBegins', Reported',
           s' = s \/ (s = "off" /\ s' \in {"start", "raised"})
    PROVE  QuickInv'
<1> USE DEF QuickInv
<1>1. WorkerTypes'
    BY DEF WorkerTypes
<1>2. WindsUp'
    BY DEF WindsUp, CoordinatorBegins
<1>3. Findable'
    BY DEF Findable
<1>4. Swept'
    BY DEF Swept, Ended
<1>5. Listed'
    BY ListedStays
<1> QED
    BY <1>1, <1>2, <1>3, <1>4, <1>5

-----------------------------------------------------------------------------
(* The worker's steps.                                                     *)

LEMMA CalmKeeps ==
    ASSUME QuickInv, WorkerBoots \/ WorkerLock \/ Admit \/ Verify \/ Idle \/ CheckRivals \/ SettleRivals
                     \/ SettleProbe \/ SettleNative \/ SettleValidator \/ Quiet \/ Certify \/ Except \/ IgnoreTerm
    PROVE  QuickInv'
<1>0. WorkerTypes /\ DiskTypes /\ WindsUp /\ Listed
    BY DEF QuickInv
<1>1. CASE WorkerBoots
    <2>1. WorkerTypes' /\ w'.pc \in {"request", "dead"}
        BY <1>0, <1>1, GotoW DEF WorkerBoots, WorkerPCs
    <2> QED
        BY <1>0, <1>1, <2>1, CalmStep, ListedStays DEF WorkerBoots, At, Calm, WorkerPCs, DiskTypes, WindsUp
<1>2. CASE WorkerLock \/ Admit \/ Verify
    <2>1. WorkerTypes' /\ w'.pc \in {"lock", "admit", "verify", "fork", "except"} /\ w.pc \in {"lock", "admit", "verify"}
        <3>1. w.pc \in {"lock", "admit", "verify"} => Unwound(w.pc) = "except"
            BY DEF Unwound
        <3>2. w.pc \in {"lock", "admit", "verify"}
            BY <1>2 DEF WorkerLock, Admit, Verify, At
        <3>3. \/ w' = w
              \/ \E p \in {"admit", "verify", "fork"} : Goto(p)
              \/ \E e \in {"deferred", "mismatch"} : RaiseAs(e)
            BY <1>2 DEF WorkerLock, Admit, Verify
        <3>4. CASE w' = w
            BY <1>0, <3>2, <3>4 DEF WorkerTypes
        <3>5. CASE \E p \in {"admit", "verify", "fork"} : Goto(p)
            BY <1>0, <3>2, <3>5, GotoW DEF WorkerPCs
        <3>6. CASE \E e \in {"deferred", "mismatch"} : RaiseAs(e)
            BY <1>0, <3>1, <3>2, <3>6, RaiseW
        <3> QED
            BY <3>3, <3>4, <3>5, <3>6
    <2>2. UNCHANGED <<cfg, c, s, child, engine, term, struck, rows, disk>>
        BY <1>2 DEF WorkerLock, Admit, Verify
    <2> QED
        BY <1>0, <2>1, <2>2, CalmStep, ListedStays DEF Calm, WorkerPCs, DiskTypes, WindsUp
<1>3. CASE Idle \/ CheckRivals \/ SettleRivals \/ SettleProbe \/ SettleNative \/ SettleValidator \/ Quiet
    <2>1. w.pc \in {"idle", "rivals", "settle", "quiet"}
        BY <1>3 DEF Idle, CheckRivals, SettleRivals, SettleProbe, SettleNative, SettleValidator, Quiet, At
    <2>2. UNCHANGED <<cfg, c, s, child, engine, term, struck, rows, disk>>
        BY <1>3 DEF Idle, CheckRivals, SettleRivals, SettleProbe, SettleNative, SettleValidator, Quiet
    <2>3. \/ \E p \in {"fork", "idle", "journal"} : Goto(p)
          \/ \E e \in {"deferred", "mismatch", "expired"} : RaiseAs(e)
          \/ w' = NextStep
          \/ w' = [w EXCEPT !.pc = "quiet"]
          \/ \E k \in {2, 3} : w' = [w EXCEPT !.pc = "fork", !.cmd = k]
        <3>1. CASE Idle \/ CheckRivals \/ SettleRivals \/ SettleProbe \/ Quiet
            BY <3>1 DEF Idle, CheckRivals, SettleRivals, SettleProbe, Quiet
        <3>2. CASE SettleNative
            BY <3>2 DEF SettleNative
        <3>3. CASE SettleValidator
            BY <3>3 DEF SettleValidator
        <3> QED
            BY <1>3, <3>1, <3>2, <3>3
    <2>4. WorkerTypes' /\ w'.pc \in {"fork", "idle", "quiet", "rivals", "certify", "journal", "except"}
        <3>1. CASE \E p \in {"fork", "idle", "journal"} : Goto(p)
            BY <1>0, <3>1, GotoW DEF WorkerPCs
        <3>2. CASE \E e \in {"deferred", "mismatch", "expired"} : RaiseAs(e)
            BY <1>0, <2>1, <3>2, RaiseW, UnwoundW DEF WorkerPCs
        <3>3. CASE w' = NextStep
            BY <1>0, <3>3, NextStepW DEF WorkerTypes
        <3>4. CASE w' = [w EXCEPT !.pc = "quiet"]
            BY <1>0, <3>4 DEF WorkerTypes, WorkerPCs
        <3>5. CASE \E k \in {2, 3} : w' = [w EXCEPT !.pc = "fork", !.cmd = k]
            <4> PICK k \in {2, 3} : w' = [w EXCEPT !.pc = "fork", !.cmd = k]
                BY <3>5
            <4>1. k \in Nat /\ "fork" \in WorkerPCs
                BY DEF WorkerPCs
            <4> QED
                BY <1>0, <4>1 DEF WorkerTypes
        <3> QED
            BY <2>3, <3>1, <3>2, <3>3, <3>4, <3>5
    <2> QED
        BY <1>0, <2>1, <2>2, <2>4, CalmStep, ListedStays DEF Calm, WorkerPCs, DiskTypes, WindsUp
<1>4. CASE Certify \/ Except
    <2>1. WorkerTypes' /\ w'.pc = "final" /\ w.pc \in {"certify", "except"}
        <3>1. CASE Certify
            BY <1>0, <3>1 DEF Certify, At, WorkerTypes, WorkerPCs
        <3>2. CASE Except
            BY <1>0, <3>2 DEF Except, At, WorkerTypes, WorkerPCs
        <3> QED
            BY <1>4, <3>1, <3>2
    <2>2. UNCHANGED <<cfg, c, s, child, engine, term, struck, rows, disk>>
        BY <1>4 DEF Certify, Except
    <2> QED
        BY <1>0, <2>1, <2>2, CalmStep, ListedStays DEF Calm, WorkerPCs, DiskTypes
<1>5. CASE IgnoreTerm
    <2>1. WorkerTypes' /\ w'.pc = "report"
        BY <1>0, <1>5, GotoW DEF IgnoreTerm, WorkerPCs
    <2> QED
        BY <1>0, <1>5, <2>1, CalmStep, ListedStays DEF IgnoreTerm, At, Calm, WorkerPCs, DiskTypes
<1> QED
    BY <1>1, <1>2, <1>3, <1>4, <1>5

\* Lists that grow by a row, or whose rows change but in what counts.
LEMMA AppendList ==
    ASSUME NEW x, IsList(x), NEW e
    PROVE  /\ IsList(Append(x, e))
           /\ Len(Append(x, e)) = Len(x) + 1
           /\ \A i \in 1..Len(x) : Append(x, e)[i] = x[i]
           /\ Append(x, e)[Len(x) + 1] = e
<1> DEFINE S == {x[i] : i \in 1..Len(x)} \cup {e}
<1>1. x \in Seq(S)
    BY DEF IsList
<1>2. e \in S
    OBVIOUS
<1> HIDE DEF S
<1>3. /\ Append(x, e) \in Seq(S) /\ Len(Append(x, e)) = Len(x) + 1
      /\ \A i \in 1..Len(x) : Append(x, e)[i] = x[i]
      /\ Append(x, e)[Len(x) + 1] = e
    BY <1>1, <1>2, AppendProperties
<1>4. IsList(Append(x, e))
    BY <1>3, LenProperties DEF IsList
<1> QED
    BY <1>3, <1>4

LEMMA IncorrectList ==
    ASSUME Listed, NEW marked
    PROVE  /\ IsList(Incorrect(marked)) /\ Len(Incorrect(marked)) = Len(rows)
           /\ \A i \in 1..Len(rows) : /\ IsRow(Incorrect(marked)[i])
                                      /\ Incorrect(marked)[i].out = rows[i].out
<1> DEFINE n == Len(rows)
<1>1. n \in Nat /\ DOMAIN rows = 1..n /\ \A i \in 1..n : IsRow(rows[i])
    BY DEF Listed, IsList
<1> DEFINE f == Incorrect(marked)
<1>2. f = [i \in 1..n |-> IF i \in marked THEN [rows[i] EXCEPT !.status = "incorrect"] ELSE rows[i]]
    BY <1>1 DEF Incorrect
<1> HIDE DEF n, f
<1>3. f = [i \in 1..n |-> f[i]]
    BY <1>2
<1> DEFINE S == {f[i] : i \in 1..n}
<1>4. f \in [1..n -> S]
    BY <1>3
<1>5. f \in Seq(S) /\ Len(f) = n
    BY <1>1, <1>4, LenProperties, IsASeq
<1>6. ASSUME NEW i \in 1..n PROVE IsRow(f[i]) /\ f[i].out = rows[i].out
    <2>1. IsRow(rows[i])
        BY <1>1
    <2>2. CASE i \in marked
        <3>1. f[i] = [rows[i] EXCEPT !.status = "incorrect"]
            BY <1>2, <2>2
        <3> QED
            BY <2>1, <3>1 DEF IsRow
    <2>3. CASE i \notin marked
        BY <1>2, <2>1, <2>3
    <2> QED
        BY <2>2, <2>3
<1> QED
    BY <1>1, <1>3, <1>5, <1>6 DEF IsList, f, n

LEMMA JournalGrows ==
    ASSUME QuickInv, Journal
    PROVE  /\ Listed'
           /\ Len(rows') = Len(rows) + 1 /\ \A i \in 1..Len(rows) : rows'[i] = rows[i]
<1> DEFINE e == Row(Status)  n == Len(rows)
<1>1. IsList(rows) /\ n \in Nat /\ \A i \in 1..n : IsRow(rows[i])
    BY DEF QuickInv, Listed, IsList
<1>2. rows' = Append(rows, e) /\ disk' = disk
    BY DEF Journal
<1>3. IsRow(e)
    BY DEF Row, IsRow
<1> HIDE DEF e
<1>4. /\ IsList(rows') /\ Len(rows') = n + 1 /\ rows'[n + 1] = e
      /\ \A i \in 1..n : rows'[i] = rows[i]
    BY <1>1, <1>2, AppendList
<1>5. ASSUME NEW i \in 1..(n + 1) PROVE IsRow(rows'[i])
    <2>1. CASE i = n + 1
        BY <1>3, <1>4, <2>1
    <2>2. CASE i # n + 1
        <3>1. i \in 1..n
            BY <1>1, <2>2
        <3> QED
            BY <1>1, <1>4, <3>1
    <2> QED
        BY <2>1, <2>2
<1> QED
    BY <1>2, <1>4, <1>5 DEF Listed, IsList, IsRow, QuickInv

LEMMA WriteGrows ==
    ASSUME QuickInv, WriteRow
    PROVE  /\ Listed' /\ rows' = rows
           /\ Len(disk'.journal) = Len(disk.journal) + 1
           /\ \A i \in 1..Len(disk.journal) : disk'.journal[i] = disk.journal[i]
           /\ disk'.journal[Len(disk.journal) + 1] = rows[Len(rows)]
<1> DEFINE e == Last(rows)
<1>1. IsList(disk.journal) /\ rows' = rows /\ disk'.journal = Append(disk.journal, e)
    BY DEF WriteRow, QuickInv, DiskTypes, Listed
<1>2. e = rows[Len(rows)]
    BY DEF Last
<1> HIDE DEF e
<1>3. /\ IsList(disk'.journal) /\ Len(disk'.journal) = Len(disk.journal) + 1
      /\ disk'.journal[Len(disk.journal) + 1] = e
      /\ \A i \in 1..Len(disk.journal) : disk'.journal[i] = disk.journal[i]
    BY <1>1, AppendList
<1> QED
    BY <1>1, <1>2, <1>3 DEF Listed, IsList, IsRow, QuickInv

LEMMA SaveRequestKeeps == QuickInv /\ SaveRequest => QuickInv'
<1> SUFFICES ASSUME QuickInv, SaveRequest PROVE QuickInv'
    OBVIOUS
<1>0. WorkerTypes /\ DiskTypes /\ WindsUp /\ Listed
    BY DEF QuickInv
<1>1. WorkerTypes' /\ w'.pc = "lock"
    BY <1>0, GotoW DEF SaveRequest, WorkerPCs
<1>2. /\ DiskTypes' /\ disk'.config = disk.config /\ disk'.active = disk.active /\ disk'.home = disk.home
      /\ disk'.report = disk.report /\ disk'.journal = disk.journal
    BY <1>0 DEF SaveRequest, DiskTypes
<1> QED
    BY <1>0, <1>1, <1>2, CalmStep, ListedStays DEF SaveRequest, At, Calm, WorkerPCs, WindsUp

LEMMA JournalKeeps == QuickInv /\ Journal => QuickInv'
<1> SUFFICES ASSUME QuickInv, Journal PROVE QuickInv'
    OBVIOUS
<1>0. WorkerTypes /\ DiskTypes /\ WindsUp
    BY DEF QuickInv
<1>1. WorkerTypes' /\ w'.pc = "write" /\ w'.exc = w.exc
    BY <1>0, GotoW DEF Journal, WorkerPCs
<1> QED
    BY <1>0, <1>1, CalmStep, JournalGrows DEF Journal, At, Calm, WorkerPCs, WindsUp, DiskTypes

LEMMA WriteRowKeeps == QuickInv /\ WriteRow => QuickInv'
<1> SUFFICES ASSUME QuickInv, WriteRow PROVE QuickInv'
    OBVIOUS
<1>0. WorkerTypes /\ DiskTypes /\ WindsUp
    BY DEF QuickInv
<1>1. WorkerTypes' /\ w'.pc \in {"pair", "except"} /\ (w.exc # "none" => w'.pc = "except")
    BY <1>0, GotoW DEF WriteRow, WorkerPCs
<1>2. /\ DiskTypes' /\ disk'.config = disk.config /\ disk'.active = disk.active /\ disk'.home = disk.home
      /\ disk'.report = disk.report
    BY <1>0 DEF WriteRow, DiskTypes
<1> QED
    BY <1>0, <1>1, <1>2, CalmStep, WriteGrows DEF WriteRow, At, Calm, WorkerPCs, WindsUp

LEMMA PairKeeps == QuickInv /\ Pair => QuickInv'
<1> SUFFICES ASSUME QuickInv, Pair PROVE QuickInv'
    OBVIOUS
<1>0. WorkerTypes /\ DiskTypes /\ WindsUp /\ Listed
    BY DEF QuickInv
<1>1. \/ \E marked \in {PairRows, {CHOOSE i \in Changed : \A j \in Changed : i <= j}} :
            rows' = Incorrect(marked) /\ RaiseAs("mismatch") /\ disk' = disk
      \/ /\ rows' = rows
         /\ disk' = [disk EXCEPT !.hashes = @ \/ HashPassEnds]
         /\ w' = [NextStep EXCEPT !.hashed = @ \/ HashPassEnds]
    BY DEF Pair
<1>2. w.pc = "pair" /\ UNCHANGED <<cfg, c, s, child, engine, term, struck>>
    BY DEF Pair, At
<1>3. ASSUME NEW marked, rows' = Incorrect(marked), RaiseAs("mismatch"), disk' = disk PROVE QuickInv'
    <2>1. WorkerTypes' /\ w'.pc \in {"journal", "except"}
        BY <1>0, <1>2, <1>3, RaiseW, UnwoundW DEF WorkerPCs
    <2>2. Listed'
        <3>1. /\ IsList(rows') /\ Len(rows') = Len(rows) /\ disk' = disk
              /\ \A i \in 1..Len(rows) : IsRow(rows'[i]) /\ Identity(rows'[i]) = Identity(rows[i])
            BY <1>0, <1>3, IncorrectList DEF Identity
        <3> QED
            BY <1>0, <3>1 DEF Listed, IsList, IsRow
    <2> QED
        BY <1>0, <1>2, <1>3, <2>1, <2>2, CalmStep DEF Calm, WorkerPCs, WindsUp, DiskTypes
<1>4. ASSUME rows' = rows, disk' = [disk EXCEPT !.hashes = @ \/ HashPassEnds],
             w' = [NextStep EXCEPT !.hashed = @ \/ HashPassEnds]
      PROVE  QuickInv'
    <2>1. WorkerTypes' /\ w'.pc \in {"certify", "fork", "rivals", "idle"}
        BY <1>0, <1>4, NextStepW DEF WorkerTypes
    <2>2. /\ DiskTypes' /\ disk'.config = disk.config /\ disk'.active = disk.active /\ disk'.home = disk.home
          /\ disk'.report = disk.report /\ disk'.journal = disk.journal
        BY <1>0, <1>4 DEF DiskTypes
    <2> QED
        BY <1>0, <1>2, <1>4, <2>1, <2>2, CalmStep, ListedStays DEF Calm, WorkerPCs, WindsUp
<1> QED
    BY <1>1, <1>3, <1>4

LEMMA WriteReportKeeps == QuickInv /\ WriteReport => QuickInv'
<1> SUFFICES ASSUME QuickInv, WriteReport PROVE QuickInv'
    OBVIOUS
<1>0. WorkerTypes /\ DiskTypes /\ Listed
    BY DEF QuickInv
<1>1. WorkerTypes' /\ w'.pc = "over"
    BY <1>0, GotoW DEF WriteReport, WorkerPCs
<1>2. w.state \in {"incomplete", "complete", "deferred", "failed"}
    BY <1>0 DEF WorkerTypes
<1>3. (IF disk.request THEN Report(cfg, rows, w.state, w.hashed) ELSE BareReport(w.state)) # NoReport
    BY <1>2, ReportIsOne
<1>4. /\ DiskTypes' /\ disk'.config = disk.config /\ disk'.active = disk.active /\ disk'.home = disk.home
      /\ disk'.report # NoReport /\ disk'.journal = disk.journal
    BY <1>0, <1>3 DEF WriteReport, DiskTypes
<1> QED
    BY <1>0, <1>1, <1>4, CalmStep, ListedStays DEF WriteReport, Calm, WorkerPCs

\* A step of the worker at, to or from a native command: what is left to see.
LEMMA CommandStep ==
    ASSUME QuickInv, UNCHANGED <<cfg, c, s, rows>>, WorkerTypes', DiskTypes',
           disk'.config = disk.config, disk'.home = disk.home,
           disk'.report = disk.report, disk'.journal = disk.journal,
           w.pc # "off", w'.pc # "off", WindsUp', Findable', Swept'
    PROVE  QuickInv'
<1> USE DEF QuickInv
<1>1. CoordinatorBegins'
    BY DEF CoordinatorBegins
<1>2. Reported'
    BY DEF Reported
<1>3. Listed'
    BY ListedStays
<1> QED
    BY <1>1, <1>2, <1>3

LEMMA StartKeeps == QuickInv /\ (Fork \/ Assign \/ SaveActive \/ Poll) => QuickInv'
<1> SUFFICES ASSUME QuickInv, Fork \/ Assign \/ SaveActive \/ Poll PROVE QuickInv'
    OBVIOUS
<1>0. WorkerTypes /\ DiskTypes /\ WindsUp /\ Findable /\ Swept
    BY DEF QuickInv
<1>1. CASE Fork
    <2>1. WorkerTypes' /\ w'.pc = "assign" /\ w.pc = "fork" /\ term = "no"
        BY <1>0, <1>1, GotoW DEF Fork, WorkerPCs, At, WindsUp
    <2>2. WindsUp' /\ Findable' /\ Swept'
        BY <1>0, <1>1, <2>1 DEF Fork, WindsUp, Findable, Swept, Ended
    <2> QED
        BY <1>0, <1>1, <2>1, <2>2, CommandStep DEF Fork, DiskTypes
<1>2. CASE Assign
    <2>1. WorkerTypes' /\ w'.pc = "active" /\ w.pc = "assign" /\ term = "no"
        BY <1>0, <1>2, GotoW DEF Assign, WorkerPCs, At, WindsUp
    <2>2. WindsUp' /\ Findable' /\ Swept'
        BY <1>0, <1>2, <2>1 DEF Assign, WindsUp, Findable, Swept, Ended
    <2> QED
        BY <1>0, <1>2, <2>1, <2>2, CommandStep DEF Assign, DiskTypes
<1>3. CASE SaveActive
    <2>1. WorkerTypes' /\ w'.pc = "poll" /\ w.pc = "active" /\ term = "no"
        BY <1>0, <1>3, GotoW DEF SaveActive, WorkerPCs, At, WindsUp
    <2>2. /\ DiskTypes' /\ disk'.config = disk.config /\ disk'.active = TRUE /\ disk'.home = disk.home
          /\ disk'.report = disk.report /\ disk'.journal = disk.journal
        BY <1>0, <1>3 DEF SaveActive, DiskTypes
    <2>3. WindsUp' /\ Findable' /\ Swept'
        BY <1>0, <1>3, <2>1, <2>2 DEF SaveActive, WindsUp, Findable, Swept, Ended
    <2> QED
        BY <1>3, <2>1, <2>2, <2>3, CommandStep DEF SaveActive
<1>4. CASE Poll
    <2>1. WorkerTypes' /\ w'.pc = "drain" /\ w.pc = "poll" /\ term = "no"
        BY <1>0, <1>4, GotoW DEF Poll, WorkerPCs, At, WindsUp
    <2>2. WindsUp' /\ Findable' /\ Swept'
        BY <1>0, <1>4, <2>1 DEF Poll, WindsUp, Findable, Swept, Ended
    <2> QED
        BY <1>0, <1>4, <2>1, <2>2, CommandStep DEF Poll, DiskTypes
<1> QED
    BY <1>1, <1>2, <1>3, <1>4

LEMMA DrainKeeps == QuickInv /\ (Drain \/ Unlink \/ FinalDrain) => QuickInv'
<1> SUFFICES ASSUME QuickInv, Drain \/ Unlink \/ FinalDrain PROVE QuickInv'
    OBVIOUS
<1>0. WorkerTypes /\ DiskTypes /\ WindsUp /\ Findable /\ Swept
    BY DEF QuickInv
<1>1. CASE Drain
    <2>1. WorkerTypes' /\ w'.pc = "unlink" /\ w'.exc = w.exc /\ w.pc = "drain" /\ term # "sent"
        BY <1>0, <1>1, GotoW DEF Drain, WorkerPCs, At
    <2>2. WindsUp'
        BY <1>0, <1>1, <2>1 DEF Drain, WindsUp
    <2>3. Findable' /\ Swept'
        BY <1>0, <1>1, <2>1 DEF Drain, Findable, Swept, Ended
    <2> QED
        BY <1>0, <1>1, <2>1, <2>2, <2>3, CommandStep DEF Drain, DiskTypes
<1>2. CASE Unlink
    <2>1. /\ WorkerTypes' /\ w'.exc = w.exc /\ w.pc = "unlink" /\ term # "sent"
          /\ w'.pc \in {"settle", "except", "journal"}
          /\ w.exc # "none" => w'.pc \in {"except", "journal"}
        BY <1>0, <1>2, GotoW DEF Unlink, WorkerPCs, At
    <2>2. /\ DiskTypes' /\ disk'.config = disk.config /\ disk'.home = disk.home
          /\ disk'.report = disk.report /\ disk'.journal = disk.journal
        BY <1>0, <1>2 DEF Unlink, DiskTypes
    <2>3. WindsUp'
        BY <1>0, <1>2, <2>1 DEF Unlink, WindsUp
    <2>4. Findable' /\ Swept'
        BY <1>0, <1>2, <2>1 DEF Unlink, Findable, Swept, Ended, WindsUp
    <2> QED
        BY <1>2, <2>1, <2>2, <2>3, <2>4, CommandStep DEF Unlink
<1>3. CASE FinalDrain
    <2>1. WorkerTypes' /\ w'.pc = "ignore" /\ w.pc = "final" /\ term # "sent"
        BY <1>0, <1>3, GotoW DEF FinalDrain, WorkerPCs, At
    <2>2. /\ DiskTypes' /\ disk'.config = disk.config /\ disk'.home = disk.home
          /\ disk'.report = disk.report /\ disk'.journal = disk.journal
        BY <1>0, <1>3 DEF FinalDrain, DiskTypes
    <2>3. WindsUp'
        BY <1>0, <1>3, <2>1 DEF FinalDrain, WindsUp
    <2>4. Findable' /\ Swept'
        BY <1>0, <1>3, <2>1 DEF FinalDrain, Findable, Swept, Ended
    <2> QED
        BY <1>3, <2>1, <2>2, <2>3, <2>4, CommandStep DEF FinalDrain
<1> QED
    BY <1>1, <1>2, <1>3

LEMMA BudgetExpiredKeeps == QuickInv /\ BudgetExpired => QuickInv'
<1> SUFFICES ASSUME QuickInv, BudgetExpired PROVE QuickInv'
    OBVIOUS
<1>0. WorkerTypes /\ DiskTypes /\ WindsUp /\ Findable /\ Swept /\ Listed
    BY DEF QuickInv
<1>1. /\ WorkerTypes' /\ w'.exc = "expired" /\ w'.pc = Unwound(w.pc) /\ term # "sent"
      /\ w.pc \in {"admit", "verify", "rivals", "idle", "fork", "settle", "quiet", "poll"}
      /\ UNCHANGED <<cfg, c, s, rows, child, engine, term, disk, struck>>
    BY <1>0, RaiseW DEF BudgetExpired
<1>2. term = "no"
    BY <1>0, <1>1 DEF WindsUp
<1>3. CASE w.pc = "poll"
    <2>1. w'.pc = "drain"
        BY <1>1, <1>3, UnwoundW DEF WorkerPCs
    <2>2. WindsUp' /\ Findable' /\ Swept'
        BY <1>0, <1>1, <1>2, <1>3, <2>1 DEF WindsUp, Findable, Swept, Ended
    <2> QED
        BY <1>0, <1>1, <1>3, <2>1, <2>2, CommandStep DEF DiskTypes
<1>4. CASE w.pc # "poll"
    <2>1. w'.pc \in {"journal", "except"}
        BY <1>1, <1>4, UnwoundW DEF WorkerPCs
    <2> QED
        BY <1>0, <1>1, <1>2, <1>4, <2>1, CalmStep, ListedStays DEF Calm, WorkerPCs, DiskTypes
<1> QED
    BY <1>3, <1>4

LEMMA TakeTermKeeps == QuickInv /\ TakeTerm => QuickInv'
<1> SUFFICES ASSUME QuickInv, TakeTerm PROVE QuickInv'
    OBVIOUS
<1>0. WorkerTypes /\ DiskTypes /\ WindsUp /\ Findable /\ Swept
    BY DEF QuickInv
<1>1. /\ term = "sent" /\ ~ Ended /\ term' = "taken"
      /\ child' = (IF w.pc = "assign" THEN "none" ELSE child)
      /\ struck' = (struck \/ w.pc \in {"assign", "active"})
      /\ UNCHANGED <<cfg, c, s, rows, engine, disk>>
    BY DEF TakeTerm
<1>2. w.pc \in WorkerPCs /\ w.pc # "off"
    BY <1>0, <1>1 DEF WorkerTypes, WindsUp
<1>3. /\ WorkerTypes' /\ w'.pc # "off"
      /\ w'.pc \in {"drain", "unlink", "journal", "except", "final", "report", "dead"}
      /\ w'.pc \in {"drain", "unlink", "journal"} => w'.exc # "none"
      /\ w'.pc = "unlink" => w.pc = "assign"
      /\ w'.pc = "drain" => w.pc \in {"active", "poll"}
    <2>1. CASE w.pc \in {"boot", "final", "ignore"}
        <3>1. Goto("dead")
            BY <2>1 DEF TakeTerm
        <3> QED
            BY <1>0, <3>1, GotoW DEF WorkerPCs
    <2>2. CASE w.pc = "report"
        BY <1>0, <2>2 DEF TakeTerm, WorkerTypes
    <2>3. CASE w.pc = "except"
        BY <1>0, <2>3 DEF TakeTerm, WorkerTypes, WorkerPCs
    <2>4. CASE w.pc \notin {"boot", "final", "ignore", "report", "except"}
        <3>1. RaiseAs("expired")
            BY <2>4 DEF TakeTerm
        <3>2. WorkerTypes' /\ w'.exc = "expired" /\ w'.pc = Unwound(w.pc)
            BY <1>0, <3>1, RaiseW
        <3> QED
            BY <1>2, <3>2, UnwoundW
    <2> QED
        BY <2>1, <2>2, <2>3, <2>4
<1>4. WindsUp'
    BY <1>0, <1>1, <1>3 DEF WindsUp
<1>5. Findable'
    BY <1>0, <1>1, <1>2, <1>3 DEF Findable
<1>6. Swept'
    BY <1>0, <1>1, <1>3 DEF Swept, Ended
<1> QED
    BY <1>0, <1>1, <1>2, <1>3, <1>4, <1>5, <1>6, CommandStep DEF DiskTypes

LEMMA WorkerKeeps == QuickInv /\ Worker => QuickInv'
    BY CalmKeeps, SaveRequestKeeps, JournalKeeps, WriteRowKeeps, PairKeeps, WriteReportKeeps, StartKeeps, DrainKeeps,
       BudgetExpiredKeeps, TakeTermKeeps DEF Worker

-----------------------------------------------------------------------------
(* The supervisor's steps.                                                 *)

LEMMA SuperviseKeeps == QuickInv /\ Supervise => QuickInv'
<1> SUFFICES ASSUME QuickInv, Supervise PROVE QuickInv'
    OBVIOUS
<1> USE DEF QuickInv
<1>1. /\ s = "start" /\ s' = "wait" /\ WorkerTypes' /\ w'.pc = "boot" /\ w.pc = "off"
      /\ UNCHANGED <<cfg, c, rows, child, engine, term, disk, struck>>
    BY GotoW DEF Supervise, WorkerPCs, CoordinatorBegins
<1>2. CoordinatorBegins'
    BY <1>1 DEF CoordinatorBegins
<1>3. WindsUp' /\ Findable' /\ Swept' /\ Reported'
    BY <1>1 DEF WindsUp, Findable, Swept, Reported, Ended
<1> QED
    BY <1>1, <1>2, <1>3, ListedStays DEF DiskTypes

\* The watchdog's steps that leave the worker and the disk alone.
LEMMA WatchKeeps == QuickInv /\ (Collect \/ Timeout \/ LookForActive \/ Sweep) => QuickInv'
<1> SUFFICES ASSUME QuickInv, Collect \/ Timeout \/ LookForActive \/ Sweep PROVE QuickInv'
    OBVIOUS
<1> USE DEF QuickInv
<1>1. /\ UNCHANGED <<cfg, c, w, rows, child, disk, struck>>
      /\ s \notin {"off", "start", "over", "raised"} /\ s' \notin {"off", "start"}
    BY DEF Collect, Timeout, LookForActive, Sweep
<1>2. WorkerTypes' /\ DiskTypes' /\ Listed'
    BY <1>1, ListedStays DEF WorkerTypes, DiskTypes
<1>3. CoordinatorBegins'
    BY <1>1 DEF CoordinatorBegins
<1>4. CASE Collect
    BY <1>1, <1>2, <1>3, <1>4 DEF Collect, WindsUp, Findable, Swept, Reported, Ended
<1>5. CASE Timeout
    <2>1. s = "wait" /\ s' = "grace" /\ term' = "sent" /\ engine' = engine /\ w.pc # "off"
        BY <1>5 DEF Timeout, CoordinatorBegins
    <2>2. WindsUp'
        BY <1>1, <2>1 DEF WindsUp
    <2>3. Findable' /\ Swept' /\ Reported'
        BY <1>1, <2>1 DEF Findable, Swept, Reported
    <2> QED
        BY <1>2, <1>3, <2>2, <2>3
<1>6. CASE LookForActive
    BY <1>1, <1>2, <1>3, <1>6 DEF LookForActive, WindsUp, Findable, Swept, Reported
<1>7. CASE Sweep
    BY <1>1, <1>2, <1>3, <1>7 DEF Sweep, WindsUp, Findable, Swept, Reported
<1> QED
    BY <1>4, <1>5, <1>6, <1>7

LEMMA KillKeeps == QuickInv /\ Kill => QuickInv'
<1> SUFFICES ASSUME QuickInv, Kill PROVE QuickInv'
    OBVIOUS
<1> USE DEF QuickInv
<1>1. CASE Ended
    <2>1. s = "kill" /\ s' = "recover" /\ UNCHANGED <<cfg, c, w, rows, child, engine, term, disk, struck>>
        BY <1>1 DEF Kill
    <2>2. Swept'
        BY <1>1, <2>1 DEF Swept, Ended
    <2>3. CoordinatorBegins'
        BY <2>1 DEF CoordinatorBegins
    <2>4. WindsUp' /\ Findable'
        BY <2>1 DEF WindsUp, Findable
    <2>5. Reported'
        BY <2>1 DEF Reported
    <2> QED
        BY <2>1, <2>2, <2>3, <2>4, <2>5, ListedStays DEF WorkerTypes, DiskTypes
<1>2. CASE ~ Ended
    <2>1. /\ s = "kill" /\ s' = "recover" /\ WorkerTypes' /\ w'.pc = "dead" /\ w.pc # "off"
          /\ struck' = (struck \/ w.pc \in {"assign", "active"})
          /\ UNCHANGED <<cfg, c, rows, child, engine, term>>
        BY <1>2, GotoW DEF Kill, WorkerPCs, CoordinatorBegins
    <2>2. /\ DiskTypes' /\ disk'.config = disk.config /\ disk'.home = disk.home /\ disk'.active = disk.active
          /\ disk'.report = disk.report /\ disk'.journal = disk.journal
        BY <1>2 DEF Kill, DiskTypes
    <2>3. Swept'
        BY <2>1 DEF Swept, Ended
    <2>4. CoordinatorBegins'
        BY <2>1, <2>2 DEF CoordinatorBegins
    <2>5. WindsUp' /\ Findable' /\ Reported'
        BY <2>1, <2>2 DEF WindsUp, Findable, Reported
    <2> QED
        BY <2>1, <2>2, <2>3, <2>4, <2>5, ListedStays
<1> QED
    BY <1>1, <1>2

LEMMA RecoverKeeps == QuickInv /\ Recover => QuickInv'
<1> SUFFICES ASSUME QuickInv, Recover PROVE QuickInv'
    OBVIOUS
<1> USE DEF QuickInv
<1>1. Recovered # NoReport
    BY ReportIsOne DEF Recovered
<1>2. /\ s = "recover" /\ s' = "over"
      /\ UNCHANGED <<cfg, c, w, rows, child, engine, term, struck>>
      /\ DiskTypes' /\ disk'.config = disk.config /\ disk'.home = disk.home /\ disk'.active = disk.active
      /\ disk'.report # NoReport /\ disk'.journal = disk.journal
    BY <1>1 DEF Recover, DiskTypes
<1>3. CoordinatorBegins' /\ WindsUp' /\ Findable' /\ Swept' /\ Reported'
    BY <1>2 DEF CoordinatorBegins, WindsUp, Findable, Swept, Reported, Ended
<1> QED
    BY <1>2, <1>3, ListedStays DEF WorkerTypes

LEMMA SupervisorKeeps == QuickInv /\ Supervisor => QuickInv'
    BY SuperviseKeeps, WatchKeeps, KillKeeps, RecoverKeeps DEF Supervisor

-----------------------------------------------------------------------------
(* The coordinator's steps.                                                *)

\* Those that leave the disk alone.
LEMMA AdvanceKeeps ==
    ASSUME QuickInv, Load \/ SetupLock \/ CheckManifest \/ SetupVerify \/ StartSupervisor \/ FleetReturns
                     \/ OnHost \/ AtHome \/ Probe \/ StartRemote \/ SshReturns
    PROVE  QuickInv'
<1> USE DEF QuickInv
<1>1. UNCHANGED <<cfg, w, rows, child, engine, term, struck, disk>>
    BY DEF Load, SetupLock, CheckManifest, SetupVerify, StartSupervisor, FleetReturns, OnHost, AtHome, Probe, StartRemote, SshReturns
<1>2. DiskTypes'
    BY <1>1 DEF DiskTypes
<1>3. CASE Load \/ SetupLock \/ CheckManifest
    <2>1. /\ s' = s
          /\ \/ c = "load" /\ c' \in {"save", "over"}
             \/ c = "lock" /\ c' \in {"manifest", "crash"}
             \/ c = "manifest" /\ c' \in {"verify", "recover"}
        BY <1>3 DEF Load, SetupLock, CheckManifest, Coordinate
    <2>2. CoordinatorBegins' /\ Reported'
        BY <1>1, <2>1 DEF CoordinatorBegins, Reported
    <2> QED
        BY <1>1, <1>2, <2>1, <2>2, CoordinatorStep
<1>4. CASE SetupVerify
    <2>1. s' = s /\ c = "verify" /\ (c' \in {"verify", "recover"} \/ (c' = "link" /\ cfg.remote) \/ (c' = "start" /\ ~ cfg.remote))
        BY <1>4 DEF SetupVerify, Coordinate
    <2>2. CoordinatorBegins' /\ Reported'
        BY <1>1, <2>1 DEF CoordinatorBegins, Reported
    <2> QED
        BY <1>1, <1>2, <2>1, <2>2, CoordinatorStep
<1>5. CASE StartSupervisor \/ FleetReturns
    <2>1. \/ c = "start" /\ s' = "start" /\ c' = "wait"
          \/ c = "start" /\ s' = s /\ c' = "recover"
          \/ c = "wait" /\ s = "over" /\ s' = s /\ c' = "over"
          \/ c = "wait" /\ s' = s /\ c' = "recover"
        BY <1>5 DEF StartSupervisor, FleetReturns, Coordinate
    <2>2. CoordinatorBegins' /\ Reported' /\ (s' = s \/ (s = "off" /\ s' = "start"))
        BY <1>1, <2>1 DEF CoordinatorBegins, Reported
    <2> QED
        BY <1>1, <1>2, <2>2, CoordinatorStep
<1>6. CASE OnHost \/ AtHome
    <2>1. /\ s' = s
          /\ c \in {"mkdir", "package", "objects", "copy", "link", "corpus", "ship", "pins", "hash", "builds"}
          /\ c' \in {"package", "pins", "objects", "hash", "probe", "probe again", "corpus", "builds", "ship", "ssh",
                     "defer", "recover"}
        BY <1>6 DEF OnHost, AtHome, Commands, Transfers, Onward, LockedOut, Coordinate
    <2>2. CoordinatorBegins' /\ Reported'
        BY <1>1, <2>1 DEF CoordinatorBegins, Reported
    <2> QED
        BY <1>1, <1>2, <2>1, <2>2, CoordinatorStep
<1>7. CASE Probe
    <2>1. /\ s' = s /\ c \in {"probe", "probe again"}
          /\ c' \in {"verify", "copy", "recover", "defer"}
        BY <1>7 DEF Probe, LockedOut, Coordinate
    <2>2. CoordinatorBegins' /\ Reported'
        BY <1>1, <2>1 DEF CoordinatorBegins, Reported
    <2> QED
        BY <1>1, <1>2, <2>1, <2>2, CoordinatorStep
<1>8. CASE StartRemote \/ SshReturns
    <2>1. \/ c = "ssh" /\ s' \in {"start", "raised"} /\ c' = "remote"
          \/ c = "ssh" /\ s' = s /\ c' = "fetch after 255"
          \/ c = "remote" /\ s' = s /\ s \in {"over", "raised"} /\ c' = "fetch"
          \/ c = "remote" /\ s' = s /\ c' \in {"fetch after 255", "recover"}
        BY <1>8 DEF StartRemote, SshReturns, Coordinate
    <2>2. s' = s \/ (s = "off" /\ s' \in {"start", "raised"})
        BY <2>1 DEF CoordinatorBegins
    <2>3. CoordinatorBegins'
        BY <1>1, <2>1 DEF CoordinatorBegins
    <2>4. Reported'
        BY <1>1, <2>1, <2>2 DEF Reported
    <2> QED
        BY <1>1, <1>2, <2>2, <2>3, <2>4, CoordinatorStep
<1> QED
    BY <1>3, <1>4, <1>5, <1>6, <1>7, <1>8

LEMMA SaveConfigKeeps == QuickInv /\ SaveConfig => QuickInv'
<1> SUFFICES ASSUME QuickInv, SaveConfig PROVE QuickInv'
    OBVIOUS
<1> USE DEF QuickInv
<1>1. /\ c = "save" /\ ((c' = "mkdir" /\ cfg.remote) \/ (c' = "lock" /\ ~ cfg.remote))
      /\ UNCHANGED <<cfg, w, rows, child, engine, term, struck, s>>
    BY DEF SaveConfig, Coordinate
<1>2. DiskTypes' /\ disk'.journal = disk.journal /\ disk'.active = disk.active /\ disk'.report = disk.report
    BY DEF SaveConfig, DiskTypes
<1>3. CoordinatorBegins' /\ Reported'
    BY <1>1, <1>2 DEF CoordinatorBegins, Reported
<1> QED
    BY <1>1, <1>2, <1>3, CoordinatorStep

LEMMA FetchKeeps == QuickInv /\ Fetch => QuickInv'
<1> SUFFICES ASSUME QuickInv, Fetch PROVE QuickInv'
    OBVIOUS
<1> USE DEF QuickInv
<1>1. UNCHANGED <<cfg, w, rows, child, engine, term, struck, s>> /\ cfg.remote
    BY DEF Fetch, CoordinatorBegins
<1>2. ASSUME NEW n, NEW report, Copied(n, report)
      PROVE  /\ DiskTypes' /\ disk'.journal = disk.journal /\ disk'.active = disk.active
             /\ disk'.config = disk.config /\ disk'.report = disk.report /\ disk'.home.report = report
    BY <1>2 DEF Copied, DiskTypes
<1>3. CASE lock = "free" /\ Copied(Len(disk.journal), disk.report) /\ c = "fetch" /\ c' = "over"
    <2>1. s = "over" => disk'.home.report # NoReport
        BY <1>2, <1>3 DEF Reported
    <2>2. CoordinatorBegins' /\ Reported'
        BY <1>1, <1>2, <1>3, <2>1 DEF CoordinatorBegins, Reported
    <2> QED
        BY <1>1, <1>2, <1>3, <2>2, CoordinatorStep
<1>4. CASE Copied(Len(disk.journal), disk.report) /\ c' = "over after 255"
    <2>1. CoordinatorBegins' /\ Reported'
        BY <1>1, <1>2, <1>4 DEF CoordinatorBegins, Reported
    <2> QED
        BY <1>1, <1>2, <1>4, <2>1, CoordinatorStep
<1>5. CASE disk' = disk /\ c' = "defer"
    <2>1. CoordinatorBegins' /\ Reported' /\ DiskTypes'
        BY <1>1, <1>5 DEF CoordinatorBegins, Reported, DiskTypes
    <2> QED
        BY <1>1, <1>5, <2>1, CoordinatorStep
<1>6. ASSUME NEW n, Copied(n, NoReport), c' = "recover" PROVE QuickInv'
    <2>1. CoordinatorBegins' /\ Reported'
        BY <1>1, <1>2, <1>6 DEF CoordinatorBegins, Reported
    <2> QED
        BY <1>1, <1>2, <1>6, <2>1, CoordinatorStep
<1> QED
    BY <1>3, <1>4, <1>5, <1>6 DEF Fetch, LockedOut, Coordinate

LEMMA MainRecoverKeeps == QuickInv /\ MainRecover => QuickInv'
<1> SUFFICES ASSUME QuickInv, MainRecover PROVE QuickInv'
    OBVIOUS
<1> USE DEF QuickInv
<1>1. c \in {"recover", "defer"} /\ c' = "over" /\ UNCHANGED <<cfg, w, rows, child, engine, term, struck, s>>
    BY DEF MainRecover, Coordinate
<1>2. CASE ~ cfg.remote
    <2>1. Recovered # NoReport
        BY ReportIsOne DEF Recovered
    <2>2. /\ DiskTypes' /\ disk'.journal = disk.journal /\ disk'.active = disk.active
          /\ disk'.report # NoReport
        BY <1>2, <2>1 DEF MainRecover, DiskTypes
    <2>3. CoordinatorBegins' /\ Reported'
        BY <1>1, <1>2, <2>2 DEF CoordinatorBegins, Reported
    <2> QED
        BY <1>1, <2>2, <2>3, CoordinatorStep
<1>3. CASE cfg.remote
    <2> DEFINE made == Report(cfg, disk.home.journal, "incomplete", FALSE)
    <2> DEFINE said == IF c = "defer" THEN [made EXCEPT !.state = "deferred", !.gate = "deferred"] ELSE made
    <2>1. said # NoReport
        BY ReportIsOne
    <2>2. disk' = [disk EXCEPT !.home.report = said]
        BY <1>3 DEF MainRecover
    <2> HIDE DEF said
    <2>3. /\ DiskTypes' /\ disk'.journal = disk.journal /\ disk'.active = disk.active
          /\ disk'.report = disk.report /\ disk'.home.report = said
        BY <2>2 DEF DiskTypes
    <2>4. CoordinatorBegins' /\ Reported'
        BY <1>1, <1>3, <2>1, <2>3 DEF CoordinatorBegins, Reported
    <2> QED
        BY <1>1, <2>3, <2>4, CoordinatorStep
<1> QED
    BY <1>2, <1>3

LEMMA CoordinatorKeeps == QuickInv /\ Coordinator => QuickInv'
    BY AdvanceKeeps, SaveConfigKeeps, FetchKeeps, MainRecoverKeeps DEF Coordinator

-----------------------------------------------------------------------------

LEMMA QuickInitInv == Init => QuickInv
<1> SUFFICES ASSUME Init PROVE QuickInv
    OBVIOUS
<1>1. WorkerTypes /\ DiskTypes
    BY DEF Init, QuickInit, WorkerTypes, WorkerPCs, DiskTypes
<1>2. CoordinatorBegins /\ WindsUp /\ Findable /\ Swept /\ Reported
    BY DEF Init, QuickInit, CoordinatorBegins, WindsUp, Findable, Swept, Reported
<1>3. rows = <<>> /\ disk.journal = <<>>
    BY DEF Init, QuickInit
<1>4. Listed
    BY <1>3 DEF Listed, IsList
<1> QED
    BY <1>1, <1>2, <1>4 DEF QuickInv

LEMMA StepKeeps == QuickInv /\ [Next]_vars => QuickInv'
<1> SUFFICES ASSUME QuickInv, [Next]_vars PROVE QuickInv'
    OBVIOUS
<1>1. CASE EngineExits \/ Expire \/ Harness \/ Others \/ Finished \/ UNCHANGED vars
    <2>1. /\ UNCHANGED <<cfg, c, s, w, rows, child, term, disk, struck>>
          /\ engine' = engine \/ engine' = "exited"
        BY <1>1 DEF EngineExits, Expire, Harness, Others, Finished, vars, quickVars
    <2>2. WorkerTypes' /\ DiskTypes'
        BY <2>1 DEF QuickInv, WorkerTypes, DiskTypes
    <2>3. CoordinatorBegins' /\ Reported'
        BY <2>1 DEF QuickInv, CoordinatorBegins, Reported
    <2>5. WindsUp'
        BY <2>1 DEF QuickInv, WindsUp
    <2>4. Findable' /\ Swept'
        BY <2>1 DEF QuickInv, Findable, Swept, Ended
    <2> QED
        BY <2>1, <2>2, <2>3, <2>4, <2>5, ListedStays DEF QuickInv
<1> QED
    BY <1>1, WorkerKeeps, SupervisorKeeps, CoordinatorKeeps DEF Next

-----------------------------------------------------------------------------
(* The journal and memory.                                                 *)

WoundUp == {"except", "final", "ignore", "report", "over", "dead"}
Lacks == Len(disk.journal) # Len(rows)

\* The journal lacks at most the last row: while it is about to be written, and
\* for good once the signal came then.  No run that is called complete is one of
\* those: its state is set past the last row, its report written by the worker.
Journalled ==
    /\ Lacks => /\ Len(disk.journal) + 1 = Len(rows)
                /\ w.pc = "write" \/ (term # "no" /\ w.pc \in WoundUp)
    /\ w.pc = "write" => Lacks
    /\ \A i \in 1..Len(disk.journal) : Identity(disk.journal[i]) = Identity(rows[i])
    /\ w.state = "complete" => w.pc \in WoundUp \ {"except"} /\ ~ Lacks
    /\ disk.report.state \in {"complete", "flagged"} => w.pc = "over" /\ ~ Lacks

\* What a step does that leaves the rows, the journal and the report alone.
LEMMA JournalRests ==
    ASSUME Journalled, UNCHANGED rows, disk'.journal = disk.journal, disk'.report = disk.report,
           term' = term \/ term' # "no",
           \/ UNCHANGED <<w>>
           \/ w.pc \notin WoundUp \cup {"write"} /\ w'.pc # "write" /\ w'.state = w.state
           \/ /\ w.pc \in WoundUp \/ (w.pc = "write" /\ term' # "no")
              /\ w.pc # "over"
              /\ w'.pc \in WoundUp \ {"except"} \/ (w.pc = "write" /\ w'.pc = "except")
              /\ w'.state = w.state
           \/ /\ w.pc \notin {"write", "over"} /\ w'.pc \in WoundUp \ {"except"}
              /\ w'.state = "complete" => w.pc \notin WoundUp
              /\ term' = term
    PROVE  Journalled'
<1>1. Lacks' = Lacks
    BY DEF Lacks
<1>2. \A i \in 1..Len(disk.journal) : Identity(rows[i])' = Identity(rows[i])
    BY DEF Identity
<1> QED
    BY <1>1, <1>2 DEF Journalled, WoundUp, Identity

LEMMA ReportSays ==
    ASSUME NEW g, NEW all, NEW state \in {"incomplete", "complete", "deferred", "failed"}, NEW hashed
    PROVE  /\ Report(g, all, state, hashed).state \in {"complete", "flagged"} => state = "complete"
           /\ BareReport(state).state \in {"complete", "flagged"} => state = "complete"
<1> DEFINE verdict == IF Complete(g, all, hashed) /\ Flagged(g, all, hashed) /\ state = "complete"
                      THEN "flagged" ELSE state
<1>1. verdict \in {"complete", "flagged"} => state = "complete"
    OBVIOUS
<1>2. Report(g, all, state, hashed).state = verdict
    BY DEF Report
<1> QED
    BY <1>1, <1>2 DEF BareReport

\* The steps that move a row.
LEMMA RowIsJournalled == QuickInv /\ Journalled /\ (Journal \/ WriteRow \/ Pair) => Journalled'
<1> SUFFICES ASSUME QuickInv, Journalled, Journal \/ WriteRow \/ Pair PROVE Journalled'
    OBVIOUS
<1>0. /\ WorkerTypes /\ DiskTypes /\ Listed /\ Len(rows) \in Nat /\ Len(disk.journal) \in Nat
      /\ w.pc \in {"journal", "write", "pair"}
    BY DEF QuickInv, Listed, IsList, Journal, WriteRow, Pair, At
<1>1. w.state # "complete" /\ disk.report.state \notin {"complete", "flagged"}
    BY <1>0 DEF Journalled, WoundUp
<1>2. CASE Journal
    <2>1. ~ Lacks /\ Len(disk.journal) = Len(rows)
        BY <1>2 DEF Journalled, Journal, At, WoundUp, Lacks
    <2>2. w'.pc = "write" /\ w'.state = w.state /\ disk' = disk
        BY <1>0, <1>2 DEF Journal, Goto, WorkerTypes
    <2>3. Len(rows') = Len(rows) + 1 /\ \A i \in 1..Len(rows) : rows'[i] = rows[i]
        BY <1>2, JournalGrows
    <2>4. Lacks'
        BY <1>0, <2>1, <2>2, <2>3 DEF Lacks
    <2> QED
        BY <1>0, <1>1, <2>1, <2>2, <2>3, <2>4 DEF Journalled, WoundUp, Identity
<1>3. CASE WriteRow
    <2>1. Len(disk.journal) + 1 = Len(rows)
        BY <1>3 DEF Journalled, WriteRow, At
    <2>2. w'.pc \in {"pair", "except"} /\ w'.state = w.state /\ disk'.report = disk.report
        BY <1>0, <1>3 DEF WriteRow, Goto, WorkerTypes, DiskTypes
    <2>3. /\ rows' = rows /\ Len(disk'.journal) = Len(disk.journal) + 1
          /\ \A i \in 1..Len(disk.journal) : disk'.journal[i] = disk.journal[i]
          /\ disk'.journal[Len(disk.journal) + 1] = rows[Len(rows)]
        BY <1>3, WriteGrows
    <2>4. ~ Lacks'
        BY <1>0, <2>1, <2>3 DEF Lacks
    <2>5. ASSUME NEW i \in 1..Len(disk'.journal) PROVE Identity(disk'.journal[i]) = Identity(rows'[i])
        <3>1. CASE i = Len(rows)
            BY <2>1, <2>3, <3>1
        <3>2. CASE i # Len(rows)
            <4>1. i \in 1..Len(disk.journal)
                BY <1>0, <2>1, <2>3, <3>2
            <4> QED
                BY <2>3, <4>1 DEF Journalled, Identity
        <3> QED
            BY <3>1, <3>2
    <2> QED
        BY <1>1, <2>2, <2>4, <2>5 DEF Journalled, WoundUp, Identity
<1>4. CASE Pair
    <2>1. ~ Lacks
        BY <1>4 DEF Journalled, Pair, At, WoundUp
    <2>2. w'.pc # "write" /\ w'.state = w.state
        <3>1. \/ RaiseAs("mismatch") \/ w' = [NextStep EXCEPT !.hashed = @ \/ HashPassEnds]
            BY <1>4 DEF Pair
        <3>2. CASE RaiseAs("mismatch")
            <4>1. w'.pc = Unwound(w.pc) /\ w.pc \in WorkerPCs /\ w'.state = w.state
                BY <1>0, <3>2, RaiseW DEF WorkerTypes
            <4> QED
                BY <4>1, UnwoundW
        <3>3. CASE w' = [NextStep EXCEPT !.hashed = @ \/ HashPassEnds]
            BY <1>0, <3>3, NextStepW
        <3> QED
            BY <3>1, <3>2, <3>3
    <2>3. disk'.journal = disk.journal /\ disk'.report = disk.report
        BY <1>0, <1>4 DEF Pair, DiskTypes
    <2>4. /\ Len(rows') = Len(rows)
          /\ \A i \in 1..Len(rows) : Identity(rows'[i]) = Identity(rows[i])
        <3>1. rows' = rows \/ \E marked : rows' = Incorrect(marked)
            BY <1>4 DEF Pair
        <3> QED
            BY <1>0, <3>1, IncorrectList DEF Identity
    <2>5. ~ Lacks' /\ Len(disk.journal) = Len(rows)
        BY <2>1, <2>3, <2>4 DEF Lacks
    <2>6. \A i \in 1..Len(disk'.journal) : Identity(disk'.journal[i]) = Identity(rows'[i])
        BY <2>3, <2>4, <2>5 DEF Journalled, Identity
    <2> QED
        BY <1>1, <2>2, <2>3, <2>5, <2>6 DEF Journalled, WoundUp, Identity
<1> QED
    BY <1>2, <1>3, <1>4

\* Memory's row is the one step to the writing of it.
LEMMA OnlyJournalWrites ==
    ASSUME WorkerTypes, Worker, ~ Journal
    PROVE  w'.pc # "write"
<1>0. w.pc \in WorkerPCs
    BY DEF WorkerTypes
<1>1. ASSUME NEW p, p # "write", Goto(p) PROVE w'.pc # "write"
    BY <1>1 DEF Goto, WorkerTypes
<1>2. ASSUME NEW e \in {"expired", "deferred", "mismatch"}, RaiseAs(e) PROVE w'.pc # "write"
    BY <1>0, <1>2, RaiseW, UnwoundW
<1>3. w' = NextStep \/ w' = [NextStep EXCEPT !.hashed = @ \/ HashPassEnds] => w'.pc # "write"
    BY NextStepW
<1>4. WorkerBoots \/ SaveRequest \/ WorkerLock \/ Admit \/ Idle \/ Fork \/ Assign \/ SaveActive \/ Poll => w'.pc # "write"
    BY <1>1, <1>2 DEF WorkerBoots, SaveRequest, WorkerLock, Admit, Idle, Fork, Assign, SaveActive, Poll
<1>5. Drain \/ Unlink \/ CheckRivals \/ Quiet \/ WriteRow \/ FinalDrain \/ IgnoreTerm \/ WriteReport \/ BudgetExpired => w'.pc # "write"
    BY <1>1, <1>2 DEF Drain, Unlink, CheckRivals, Quiet, WriteRow, FinalDrain, IgnoreTerm, WriteReport, BudgetExpired
<1>6. Verify => w'.pc # "write"
    BY <1>1, <1>2 DEF Verify, At
<1>7. SettleRivals \/ SettleProbe \/ Pair => w'.pc # "write"
    BY <1>2, <1>3 DEF SettleRivals, SettleProbe, Pair
<1>8. SettleNative => w'.pc # "write"
    <2>1. SettleNative => \/ \E e \in {"deferred", "mismatch"} : RaiseAs(e)
                          \/ w' = [w EXCEPT !.pc = "fork", !.cmd = 2] \/ w' = [w EXCEPT !.pc = "quiet"]
        BY DEF SettleNative
    <2> QED
        BY <1>2, <2>1 DEF WorkerTypes
<1>9. SettleValidator => w'.pc # "write"
    BY <1>2 DEF SettleValidator, WorkerTypes
<1>10. Certify \/ Except => w'.pc # "write"
    BY DEF Certify, Except, WorkerTypes
<1>11. TakeTerm => w'.pc # "write"
    <2>1. TakeTerm => \/ \E p \in {"dead"} : Goto(p)
                      \/ w' = w /\ w.pc = "report"
                      \/ w' = [w EXCEPT !.pc = "final"]
                      \/ RaiseAs("expired")
        BY DEF TakeTerm
    <2> QED
        BY <1>1, <1>2, <2>1 DEF WorkerTypes
<1> QED
    BY <1>4, <1>5, <1>6, <1>7, <1>8, <1>9, <1>10, <1>11 DEF Worker

\* Every other step of the worker.
LEMMA WorkIsJournalled == QuickInv /\ Journalled /\ Worker => Journalled'
<1> SUFFICES ASSUME QuickInv, Journalled, Worker PROVE Journalled'
    OBVIOUS
<1>0. WorkerTypes /\ DiskTypes /\ w.pc \in WorkerPCs
    BY DEF QuickInv, WorkerTypes
<1>1. CASE \/ WorkerBoots \/ SaveRequest \/ WorkerLock \/ Admit \/ Verify
           \/ Idle \/ Fork \/ Assign \/ SaveActive \/ Poll \/ Drain \/ Unlink
           \/ CheckRivals \/ SettleRivals \/ SettleProbe \/ SettleNative \/ SettleValidator \/ Quiet
           \/ BudgetExpired
    <2>1. w.pc \notin WoundUp \cup {"write"} /\ UNCHANGED <<rows, term>>
        BY <1>1 DEF WorkerBoots, SaveRequest, WorkerLock, Admit, Verify, Idle, Fork, Assign, SaveActive, Poll, Drain,
           Unlink, CheckRivals, SettleRivals, SettleProbe, SettleNative, SettleValidator, Quiet, BudgetExpired, At, WoundUp
    <2>2. disk'.journal = disk.journal /\ disk'.report = disk.report
        BY <1>0, <1>1 DEF WorkerBoots, SaveRequest, WorkerLock, Admit, Verify, Idle, Fork, Assign, SaveActive, Poll,
           Drain, Unlink, CheckRivals, SettleRivals, SettleProbe, SettleNative, SettleValidator, Quiet, BudgetExpired,
           DiskTypes
    <2>3. \/ w' = w
          \/ \E p \in WorkerPCs \ {"write"} : Goto(p)
          \/ \E e \in {"expired", "deferred", "mismatch"} : RaiseAs(e)
          \/ w' = NextStep
          \/ w' = [w EXCEPT !.pc = "quiet"]
          \/ \E k \in {2, 3} : w' = [w EXCEPT !.pc = "fork", !.cmd = k]
        <3>1. CASE WorkerBoots \/ SaveRequest \/ WorkerLock \/ Admit \/ Verify \/ Idle \/ Fork \/ Assign
            BY <3>1 DEF WorkerBoots, SaveRequest, WorkerLock, Admit, Verify, Idle, Fork, Assign, WorkerPCs
        <3>2. CASE SaveActive \/ Poll \/ Drain \/ Unlink \/ Quiet \/ BudgetExpired
            BY <3>2 DEF SaveActive, Poll, Drain, Unlink, Quiet, BudgetExpired, WorkerPCs
        <3>3. CASE CheckRivals \/ SettleRivals \/ SettleProbe
            BY <3>3 DEF CheckRivals, SettleRivals, SettleProbe, WorkerPCs
        <3>4. CASE SettleNative
            BY <3>4 DEF SettleNative
        <3>5. CASE SettleValidator
            BY <3>5 DEF SettleValidator
        <3> QED
            BY <1>1, <3>1, <3>2, <3>3, <3>4, <3>5
    <2>4. w' = w \/ (w'.pc # "write" /\ w'.state = w.state)
        <3>1. CASE \E p \in WorkerPCs \ {"write"} : Goto(p)
            BY <1>0, <3>1, GotoW
        <3>2. CASE \E e \in {"expired", "deferred", "mismatch"} : RaiseAs(e)
            BY <1>0, <3>2, RaiseW, UnwoundW
        <3>3. CASE w' = NextStep
            BY <1>0, <3>3, NextStepW
        <3>4. CASE w' = [w EXCEPT !.pc = "quiet"] \/ \E k \in {2, 3} : w' = [w EXCEPT !.pc = "fork", !.cmd = k]
            BY <1>0, <3>4 DEF WorkerTypes
        <3> QED
            BY <2>3, <3>1, <3>2, <3>3, <3>4
    <2> QED
        BY <2>1, <2>2, <2>4, JournalRests
<1>2. CASE Certify \/ Except
    <2>1. /\ w.pc \in {"certify", "except"} /\ w'.pc = "final" /\ UNCHANGED <<rows, term, disk>>
          /\ w'.state = "complete" => w.pc = "certify"
        BY <1>0, <1>2 DEF Certify, Except, At, WorkerTypes
    <2> QED
        BY <2>1, JournalRests DEF WoundUp
<1>3. CASE FinalDrain \/ IgnoreTerm
    <2>1. /\ w.pc \in {"final", "ignore"} /\ w'.pc \in {"ignore", "report"} /\ w'.state = w.state
          /\ UNCHANGED <<rows, term>>
        BY <1>0, <1>3 DEF FinalDrain, IgnoreTerm, At, Goto, WorkerTypes
    <2>2. disk'.journal = disk.journal /\ disk'.report = disk.report
        BY <1>0, <1>3 DEF FinalDrain, IgnoreTerm, DiskTypes
    <2> QED
        BY <2>1, <2>2, JournalRests DEF WoundUp
<1>4. CASE WriteReport
    <2>1. w.pc = "report" /\ w'.pc = "over" /\ w'.state = w.state /\ UNCHANGED <<rows, term>>
        BY <1>0, <1>4 DEF WriteReport, Goto, WorkerTypes
    <2>2. disk'.journal = disk.journal
        BY <1>0, <1>4 DEF WriteReport, DiskTypes
    <2>3. disk'.report.state \in {"complete", "flagged"} => w.state = "complete"
        <3>1. disk'.report = IF disk.request THEN Report(cfg, rows, w.state, w.hashed) ELSE BareReport(w.state)
            BY <1>0, <1>4 DEF WriteReport, DiskTypes
        <3>2. w.state \in {"incomplete", "complete", "deferred", "failed"}
            BY <1>0 DEF WorkerTypes
        <3> QED
            BY <3>1, <3>2, ReportSays
    <2>4. Lacks' = Lacks /\ \A i \in 1..Len(disk.journal) : Identity(rows[i])' = Identity(rows[i])
        BY <2>1, <2>2 DEF Lacks, Identity
    <2> QED
        BY <2>1, <2>2, <2>3, <2>4 DEF Journalled, WoundUp, Identity
<1>5. CASE TakeTerm
    <2>1. term' = "taken" /\ UNCHANGED <<rows, disk>> /\ w.pc \notin {"over", "dead"}
        BY <1>5 DEF TakeTerm, Ended
    <2>2. CASE w.pc \in {"boot", "final", "ignore"}
        <3>1. w'.pc = "dead" /\ w'.state = w.state
            BY <1>0, <1>5, <2>2 DEF TakeTerm, Goto, WorkerTypes
        <3> QED
            BY <2>1, <2>2, <3>1, JournalRests DEF WoundUp
    <2>3. CASE w.pc = "report"
        BY <1>5, <2>1, <2>3, JournalRests DEF TakeTerm
    <2>4. CASE w.pc = "except"
        <3>1. w'.pc = "final" /\ w'.state = w.state
            BY <1>0, <1>5, <2>4 DEF TakeTerm, WorkerTypes
        <3> QED
            BY <2>1, <2>4, <3>1, JournalRests DEF WoundUp
    <2>5. CASE w.pc \notin {"boot", "final", "ignore", "report", "except"}
        <3>1. RaiseAs("expired")
            BY <1>5, <2>5 DEF TakeTerm
        <3>2. w'.pc = Unwound(w.pc) /\ w'.state = w.state
            BY <1>0, <3>1, RaiseW
        <3>3. Unwound(w.pc) # "write" /\ (w.pc = "write" => Unwound(w.pc) = "except")
            BY <1>0, UnwoundW DEF Unwound
        <3>4. CASE w.pc = "write"
            BY <2>1, <3>2, <3>3, <3>4, JournalRests DEF WoundUp
        <3>5. CASE w.pc # "write"
            BY <2>1, <2>5, <3>2, <3>3, <3>5, JournalRests DEF WoundUp
        <3> QED
            BY <3>4, <3>5
    <2> QED
        BY <2>2, <2>3, <2>4, <2>5
<1> QED
    BY <1>1, <1>2, <1>3, <1>4, <1>5, RowIsJournalled DEF Worker

\* The supervisor's steps, and the coordinator's.
LEMMA WatchIsJournalled == QuickInv /\ Journalled /\ (Supervisor \/ Coordinator) => Journalled'
<1> SUFFICES ASSUME QuickInv, Journalled, Supervisor \/ Coordinator PROVE Journalled'
    OBVIOUS
<1>0. WorkerTypes /\ DiskTypes
    BY DEF QuickInv
<1>1. UNCHANGED rows /\ (term' = term \/ term' # "no")
    BY DEF Supervisor, Supervise, Collect, Timeout, LookForActive, Sweep, Kill, Recover, Coordinator, Load,
       SaveConfig, SetupLock, CheckManifest, SetupVerify, StartSupervisor, FleetReturns, MainRecover, OnHost, AtHome,
       Probe, StartRemote, SshReturns, Fetch
<1>2. ASSUME NEW g, NEW all, disk'.report = Report(g, all, "incomplete", FALSE), disk'.journal = disk.journal,
             UNCHANGED <<w, term>>
      PROVE  Journalled'
    <2>1. disk'.report.state \notin {"complete", "flagged"}
        BY <1>2, ReportSays
    <2>2. Lacks' = Lacks /\ \A i \in 1..Len(disk.journal) : Identity(rows[i])' = Identity(rows[i])
        BY <1>1, <1>2 DEF Lacks, Identity
    <2> QED
        BY <1>1, <1>2, <2>1, <2>2 DEF Journalled, Identity
<1>3. CASE Supervise
    <2>1. /\ w.pc = "off" /\ w'.pc = "boot" /\ w'.state = w.state /\ disk' = disk
        BY <1>0, <1>3 DEF Supervise, Goto, WorkerTypes, QuickInv, CoordinatorBegins
    <2> QED
        BY <1>1, <2>1, JournalRests DEF WoundUp
<1>4. CASE Kill
    <2>1. UNCHANGED term /\ term # "no" /\ disk'.journal = disk.journal /\ disk'.report = disk.report
        BY <1>0, <1>4 DEF Kill, DiskTypes, QuickInv, WindsUp
    <2>2. \/ w' = w
          \/ w.pc \notin {"over", "dead"} /\ w'.pc = "dead" /\ w'.state = w.state
        BY <1>0, <1>4 DEF Kill, Goto, WorkerTypes, Ended
    <2>3. CASE w.pc \in WoundUp \cup {"write"}
        BY <1>1, <2>1, <2>2, <2>3, JournalRests DEF WoundUp
    <2>4. CASE w.pc \notin WoundUp \cup {"write"}
        BY <1>1, <2>1, <2>2, <2>4, JournalRests DEF WoundUp
    <2> QED
        BY <2>3, <2>4
<1>5. CASE Recover
    BY <1>0, <1>2, <1>5 DEF Recover, Recovered, DiskTypes
<1>6. CASE MainRecover
    <2>1. CASE ~ cfg.remote
        BY <1>0, <1>2, <1>6, <2>1 DEF MainRecover, Recovered, DiskTypes
    <2>2. CASE cfg.remote
        <3>1. disk'.journal = disk.journal /\ disk'.report = disk.report /\ UNCHANGED <<w, term>>
            BY <1>0, <1>6, <2>2 DEF MainRecover, DiskTypes
        <3> QED
            BY <1>1, <3>1, JournalRests
    <2> QED
        BY <2>1, <2>2
<1>7. CASE Collect \/ Timeout \/ LookForActive \/ Sweep
    <2>1. UNCHANGED <<w, disk>>
        BY <1>7 DEF Collect, Timeout, LookForActive, Sweep
    <2> QED
        BY <1>1, <2>1, JournalRests
<1>8. CASE \/ Load \/ SaveConfig \/ SetupLock \/ CheckManifest \/ SetupVerify \/ StartSupervisor \/ FleetReturns
           \/ OnHost \/ AtHome \/ Probe \/ StartRemote \/ SshReturns \/ Fetch
    <2>1. UNCHANGED w /\ disk'.journal = disk.journal /\ disk'.report = disk.report
        BY <1>0, <1>8 DEF Load, SaveConfig, SetupLock, CheckManifest, SetupVerify, StartSupervisor, FleetReturns,
           OnHost, AtHome, Probe, StartRemote, SshReturns, Fetch, Copied, DiskTypes
    <2> QED
        BY <1>1, <2>1, JournalRests
<1> QED
    BY <1>3, <1>4, <1>5, <1>6, <1>7, <1>8 DEF Supervisor, Coordinator

LEMMA StepIsJournalled == QuickInv /\ Journalled /\ [Next]_vars => Journalled'
<1> SUFFICES ASSUME QuickInv, Journalled, [Next]_vars PROVE Journalled'
    OBVIOUS
<1>1. CASE EngineExits \/ Expire \/ Harness \/ Others \/ Finished \/ UNCHANGED vars
    <2>1. UNCHANGED <<w, rows, disk, term>>
        BY <1>1 DEF EngineExits, Expire, Harness, Others, Finished, vars, quickVars
    <2> QED
        BY <2>1, JournalRests
<1> QED
    BY <1>1, WorkIsJournalled, WatchIsJournalled DEF Next

LEMMA InvIsReported == QuickInv /\ Journalled => RunEndsReported
<1> SUFFICES ASSUME QuickInv, Journalled PROVE RunEndsReported
    OBVIOUS
<1>1. Len(rows) \in Nat /\ Len(disk.journal) \in Nat /\ DOMAIN disk.journal = 1..Len(disk.journal)
    BY DEF QuickInv, Listed, IsList
<1>2. Len(disk.journal) \in {Len(rows), Len(rows) - 1}
    BY <1>1 DEF Journalled, Lacks
<1>3. Len(disk.journal) # Len(rows) =>
          /\ w.pc = "write" \/ term # "no"
          /\ disk.report.state \notin {"complete", "flagged"}
    BY DEF Journalled, Lacks
<1> QED
    BY <1>1, <1>2, <1>3 DEF Journalled, QuickInv, RunEndsReported, Swept, Reported

\* For all configurations and results, on the host or from elsewhere: a run
\* that ends is reported, the watchdog leaves no worker behind and no native
\* command it could have found, and the journal is what the worker knew, row
\* for row, but for a last row the watchdog's signal kept from it, and then no
\* report says complete or flagged (quick.py:230-233, :667-728, :780-901).
THEOREM RunsAreReported == Spec => []RunEndsReported
<1>1. Init => QuickInv /\ Journalled
    <2>1. Init => rows = <<>> /\ disk.journal = <<>> /\ w.pc = "off" /\ w.state = "incomplete" /\ disk.report.state = "none"
        BY DEF Init, QuickInit, NoReport
    <2> QED
        BY <2>1, QuickInitInv DEF Journalled, Lacks
<1>2. QuickInv /\ Journalled /\ [Next]_vars => QuickInv' /\ Journalled'
    BY StepKeeps, StepIsJournalled
<1>3. QuickInv /\ Journalled => RunEndsReported
    BY InvIsReported
<1> QED
    BY <1>1, <1>2, <1>3, PTL DEF Spec

-----------------------------------------------------------------------------
(* A lane: the records, its journal and what it holds of that in memory.    *)

Away == {"off", "refused", "broken"}
Working == {"condition", "spawn", "running", "sweep", "finish", "judge", "write", "sync", "again"}
LanePCs == Away \cup Working \cup {"next", "round", "ended"}
Fates == {"ok", "wrong", "disturbed", "failed", "timeout"}
Told == Replies \cup {NoReply}

\* Of a setup: its cases, its engines, the reps of each and its rounds.
CasesOf(g) == ToSet(g.cases)
Team(g) == ToSet(g.engines)
Reps(g) == (IF g.lane \in {"hot", "engine"} THEN 0 ELSE 1)..g.reps
Turns == 0..MaxRounds - 1

Lines(g, fates) ==
    [case : CasesOf(g), engine : Team(g), rep : Reps(g), round : Turns, status : fates,
     validation : {"unchecked", "ok", "wrong"}, method : {"none", "full", "hash"},
     answer : {o.answer : o \in Outputs} \cup {"none"}, elapsed : Int,
     stall : {r.stall : r \in Told}, hostFull : {r.hostFull : r \in Told},
     read : {r.read : r \in Told}, pin : {0}]

LaneTypes ==
    /\ head \in Setups /\ pc \in LanePCs
    /\ rnd \in Turns
    /\ journal \in Seq(Lines(head, Fates))
    /\ cur \in [case : CasesOf(head) \cup {"none"}, engine : Team(head) \cup {"none"}, rep : Int,
                session : BOOLEAN, reply : Told, rejected : BOOLEAN]
    /\ pc \in {"write", "sync"} => rec \in Lines(head, Fates)
    /\ pc = "judge" => rec \in Lines(head, {"none"})
    /\ pc \notin Away => pins = 0

\* The lines that are certain: all but one not synced yet.
Kept == IF pc = "sync" THEN Front(journal) ELSE journal

InMemory ==
    /\ done = IF pc \in Away THEN {} ELSE Loaded(Kept)
    /\ pc = "sync" => journal # <<>> /\ rec = Last(journal)

\* A record says of its answer what the comparer does, and is ok only if it is.
Truthful(r) ==
    /\ r.answer # "none" => (r.validation = "ok" <=> JudgeSays(r.engine, r.answer))
    /\ r.validation = "ok" => JudgeSays(r.engine, r.answer)
    /\ r.status = "ok" => r.validation = "ok"

AllTruthful ==
    /\ \A i \in DOMAIN journal : Truthful(journal[i])
    /\ pc = "write" => Truthful(rec)

\* The cases of round r: all, then those disturbed in the round before.
RoundIds(g, ds, r) == IF r = 0 THEN CasesOf(g) ELSE Disturbed(g.psi, ds, r - 1)

WholeRound(g, ds, r) ==
    \A case \in RoundIds(g, ds, r), e \in Team(g), rep \in Reps(g) : \E d \in ds : KeyOf(d) = <<case, e, rep, r>>

\* A record is of a case of its round, and the rounds before that one are whole.
InTurn(g, ds) ==
    \A d \in ds : d.case \in RoundIds(g, ds, d.round) /\ \A r \in 0..d.round - 1 : WholeRound(g, ds, r)

Rounds ==
    /\ InTurn(head, Loaded(journal)) /\ InTurn(head, Loaded(Kept))
    /\ pc \notin Away => ids = RoundIds(head, done, rnd) /\ \A r \in 0..rnd - 1 : WholeRound(head, done, r)
    /\ pc \in {"round", "ended"} => WholeRound(head, done, rnd)
    /\ pc = "ended" => Disturbed(head.psi, done, rnd) = {} \/ rnd + 1 >= MaxRounds

AtWork ==
    /\ pc \in Working =>
         /\ cur.case \in ids /\ cur.engine \in Team(head) /\ cur.rep \in Reps(head)
         /\ \A d \in done : d.round <= rnd
         /\ cur.session => Kind[cur.engine] # "zpq"
         /\ ~ cur.session => <<cur.case, cur.engine, cur.rep, rnd>> \notin Keys
    /\ pc \in {"judge", "write", "sync"} => KeyOf(rec) = <<cur.case, cur.engine, cur.rep, rnd>>
    /\ ~ (procs \subseteq Beyond) => pc \in {"running", "sweep"}

\* Only a session writes a key twice.
OnceEach(lines) ==
    \A i, j \in DOMAIN lines : i # j /\ KeyOf(lines[i]) = KeyOf(lines[j]) => Kind[lines[i].engine] # "zpq"

LaneInv == LaneTypes /\ InMemory /\ AllTruthful /\ Rounds /\ AtWork /\ OnceEach(journal)

-----------------------------------------------------------------------------
(* What a lane loads of a journal.                                          *)

LEMMA LoadedOfNone == Loaded(<<>>) = {}
    BY DEF Loaded

LEMMA LoadedIsOfLines ==
    ASSUME NEW S, NEW lines \in Seq(S)
    PROVE  /\ Loaded(lines) \subseteq ToSet(lines)
           /\ Loaded(lines) \subseteq S
           /\ \A a, b \in Loaded(lines) : KeyOf(a) = KeyOf(b) => a = b
<1>1. Loaded(lines) \subseteq ToSet(lines) /\ Loaded(lines) \subseteq S
    BY DEF Loaded, ToSet
<1>2. ASSUME NEW a \in Loaded(lines), NEW b \in Loaded(lines), KeyOf(a) = KeyOf(b)
      PROVE  a = b
    <2>1. PICK i \in DOMAIN lines : a = lines[i] /\ \A k \in i + 1..Len(lines) : KeyOf(lines[k]) # KeyOf(lines[i])
        BY DEF Loaded
    <2>2. PICK j \in DOMAIN lines : b = lines[j] /\ \A k \in j + 1..Len(lines) : KeyOf(lines[k]) # KeyOf(lines[j])
        BY DEF Loaded
    <2>3. i \in 1..Len(lines) /\ j \in 1..Len(lines) /\ Len(lines) \in Nat
        OBVIOUS
    <2>4. ~ (i < j)
        <3>1. i < j => j \in i + 1..Len(lines)
            BY <2>3
        <3> QED
            BY <3>1, <2>1, <2>2, <1>2
    <2>5. ~ (j < i)
        <3>1. j < i => i \in j + 1..Len(lines)
            BY <2>3
        <3> QED
            BY <3>1, <2>1, <2>2, <1>2
    <2> QED
        BY <2>1, <2>2, <2>3, <2>4, <2>5
<1> QED
    BY <1>1, <1>2

\* The last line of a key is there.
LEMMA LoadedHasEveryKey ==
    ASSUME NEW S, NEW lines \in Seq(S), NEW i \in DOMAIN lines
    PROVE  \E d \in Loaded(lines) : KeyOf(d) = KeyOf(lines[i])
<1> DEFINE n == Len(lines)
           T == {k \in Nat : n - k \in 1..n /\ KeyOf(lines[n - k]) = KeyOf(lines[i])}
<1>1. n \in Nat /\ i \in 1..n /\ DOMAIN lines = 1..n
    OBVIOUS
<1>2. n - i \in T
    <2>1. n - i \in Nat /\ n - (n - i) = i
        BY <1>1
    <2> QED
        BY <2>1, <1>1
<1>3. PICK k \in T : \A m \in T : k <= m
    BY <1>2, LeastNat
<1> DEFINE last == n - k
<1>4. last \in DOMAIN lines /\ KeyOf(lines[last]) = KeyOf(lines[i]) /\ k = n - last /\ k \in Nat
    BY <1>1, <1>3
<1>5. ASSUME NEW j \in last + 1..Len(lines)
      PROVE  KeyOf(lines[j]) # KeyOf(lines[last])
    <2> SUFFICES ASSUME KeyOf(lines[j]) = KeyOf(lines[last]) PROVE FALSE
        OBVIOUS
    <2>1. n - j \in Nat /\ n - (n - j) = j /\ j \in 1..n /\ n - j < k
        BY <1>1, <1>4
    <2>2. n - j \in T
        BY <2>1, <1>4
    <2> QED
        BY <2>1, <2>2, <1>3
<1> HIDE DEF last, T, n
<1>6. lines[last] \in Loaded(lines)
    BY <1>4, <1>5 DEF Loaded
<1> QED
    BY <1>4, <1>6

\* A line more is one record noted.
LEMMA LoadedOfOneMore ==
    ASSUME NEW S, NEW lines \in Seq(S), NEW r \in S
    PROVE  Loaded(Append(lines, r)) = Noted(Loaded(lines), r)
<1> DEFINE n == Len(lines)
           more == Append(lines, r)
<1>1. /\ n \in Nat /\ DOMAIN lines = 1..n /\ DOMAIN more = 1..n + 1 /\ Len(more) = n + 1
      /\ more[n + 1] = r /\ \A i \in 1..n : more[i] = lines[i]
    OBVIOUS
<1> HIDE DEF more, n
<1>2. ASSUME NEW x \in Loaded(more) PROVE x \in Noted(Loaded(lines), r)
    <2>1. PICK i \in 1..n + 1 : x = more[i] /\ \A k \in i + 1..n + 1 : KeyOf(more[k]) # KeyOf(more[i])
        BY <1>1 DEF Loaded
    <2>2. CASE i = n + 1
        BY <2>1, <2>2, <1>1 DEF Noted
    <2>3. CASE i \in 1..n
        <3>1. n + 1 \in i + 1..n + 1 /\ x = lines[i]
            BY <2>3, <2>1, <1>1
        <3>2. KeyOf(x) # KeyOf(r)
            BY <3>1, <2>1, <1>1
        <3>3. \A k \in i + 1..n : KeyOf(lines[k]) # KeyOf(lines[i])
            BY <2>1, <2>3, <1>1
        <3>4. x \in Loaded(lines)
            BY <3>1, <3>3, <2>3, <1>1 DEF Loaded, n
        <3> QED
            BY <3>2, <3>4 DEF Noted
    <2> QED
        BY <2>1, <2>2, <2>3, <1>1
<1>3. ASSUME NEW x \in Noted(Loaded(lines), r) PROVE x \in Loaded(more)
    <2>1. CASE x = r
        <3>1. n + 1 \in DOMAIN more /\ x = more[n + 1] /\ \A k \in (n + 1) + 1..Len(more) : KeyOf(more[k]) # KeyOf(more[n + 1])
            BY <2>1, <1>1
        <3> QED
            BY <3>1 DEF Loaded
    <2>2. CASE x \in Loaded(lines) /\ KeyOf(x) # KeyOf(r)
        <3>1. PICK i \in 1..n : x = lines[i] /\ \A k \in i + 1..n : KeyOf(lines[k]) # KeyOf(lines[i])
            BY <2>2, <1>1 DEF Loaded, n
        <3>2. i \in DOMAIN more /\ x = more[i]
            BY <3>1, <1>1
        <3>3. ASSUME NEW k \in i + 1..Len(more) PROVE KeyOf(more[k]) # KeyOf(more[i])
            <4>1. CASE k = n + 1
                BY <4>1, <3>2, <2>2, <1>1
            <4>2. CASE k \in i + 1..n
                BY <4>2, <3>1, <3>2, <1>1
            <4> QED
                BY <4>1, <4>2, <1>1, <3>1
        <3> QED
            BY <3>2, <3>3 DEF Loaded
    <2> QED
        BY <2>1, <2>2 DEF Noted
<1> QED
    BY <1>2, <1>3 DEF more


-----------------------------------------------------------------------------
(* Which cases are disturbed is a matter of the round's own records.        *)

\* What makes a cohort a disturbed one.
Marred(psi, cohort) ==
    LET fastest(e) == CHOOSE f \in {r \in Timed(cohort) : r.engine = e} :
                        \A r \in Timed(cohort) : r.engine = e => f.elapsed <= r.elapsed
    IN  \/ \E r \in cohort : r.status = "disturbed"
        \/ \E r \in Timed(cohort) : StallEvidence(psi, r, fastest(r.engine))

LEMMA DisturbedIs ==
    ASSUME NEW psi, NEW rs, NEW turn
    PROVE  Disturbed(psi, rs, turn) = {case \in {r.case : r \in rs} : Marred(psi, Cohort(rs, case, turn))}
    BY DEF Disturbed, Marred

LEMMA HitHasAny ==
    ASSUME NEW psi, NEW cohort, Marred(psi, cohort)
    PROVE  \E r \in cohort : TRUE
    BY DEF Marred, Timed

\* A disturbed case was run in that round.
LEMMA DisturbedRan ==
    ASSUME NEW psi, NEW rs, NEW turn, NEW case \in Disturbed(psi, rs, turn)
    PROVE  \E r \in rs : r.case = case /\ r.round = turn
<1>1. Marred(psi, Cohort(rs, case, turn))
    BY DisturbedIs
<1> QED
    BY <1>1, HitHasAny DEF Cohort

LEMMA DisturbedIsLocal ==
    ASSUME NEW psi, NEW as, NEW bs, NEW turn,
           {r \in as : r.round = turn} = {r \in bs : r.round = turn}
    PROVE  Disturbed(psi, as, turn) = Disturbed(psi, bs, turn)
<1>1. ASSUME NEW case PROVE Cohort(as, case, turn) = Cohort(bs, case, turn)
    BY DEF Cohort
<1>2. ASSUME NEW xs, NEW ys, NEW case \in Disturbed(psi, xs, turn),
             {r \in xs : r.round = turn} = {r \in ys : r.round = turn},
             Cohort(xs, case, turn) = Cohort(ys, case, turn)
      PROVE  case \in Disturbed(psi, ys, turn)
    <2>1. Marred(psi, Cohort(ys, case, turn))
        BY <1>2, DisturbedIs
    <2>2. PICK r \in xs : r.case = case /\ r.round = turn
        BY <1>2, DisturbedRan
    <2>3. case \in {d.case : d \in ys}
        BY <1>2, <2>2
    <2> QED
        BY <2>1, <2>3, DisturbedIs
<1>3. \A case \in Disturbed(psi, as, turn) : case \in Disturbed(psi, bs, turn)
    BY <1>1, <1>2
<1>4. \A case \in Disturbed(psi, bs, turn) : case \in Disturbed(psi, as, turn)
    BY <1>1, <1>2
<1> QED
    BY <1>3, <1>4

\* A record noted in the last round there is leaves every round's cases as they
\* were, and no round less whole.
LEMMA NotedKeeps ==
    ASSUME NEW g, NEW ds \in SUBSET Lines(g, Fates), NEW x \in Lines(g, Fates),
           \A d \in ds : d.round <= x.round
    PROVE  /\ Noted(ds, x) \in SUBSET Lines(g, Fates)
           /\ \A d \in Noted(ds, x) : d.round <= x.round
           /\ \A r \in 0..x.round : RoundIds(g, Noted(ds, x), r) = RoundIds(g, ds, r)
           /\ \A r \in 0..x.round : WholeRound(g, ds, r) => WholeRound(g, Noted(ds, x), r)
<1>0. x.round \in Nat /\ \A d \in Lines(g, Fates) : d.round \in Nat
    BY DEF Lines, Turns
<1>1. Noted(ds, x) \in SUBSET Lines(g, Fates) /\ \A d \in Noted(ds, x) : d.round <= x.round
    BY <1>0 DEF Noted
<1>2. ASSUME NEW r \in 0..x.round PROVE RoundIds(g, Noted(ds, x), r) = RoundIds(g, ds, r)
    <2>1. CASE r = 0
        BY <2>1 DEF RoundIds
    <2>2. CASE r # 0
        <3>1. r - 1 # x.round
            BY <1>0, <2>2
        <3>2. \A d \in ds : d.round = r - 1 => KeyOf(d) # KeyOf(x)
            BY <3>1 DEF KeyOf
        <3>3. {d \in Noted(ds, x) : d.round = r - 1} = {d \in ds : d.round = r - 1}
            BY <3>1, <3>2 DEF Noted
        <3>4. Disturbed(g.psi, Noted(ds, x), r - 1) = Disturbed(g.psi, ds, r - 1)
            BY <3>3, DisturbedIsLocal
        <3> QED
            BY <2>2, <3>4 DEF RoundIds
    <2> QED
        BY <2>1, <2>2
<1>3. ASSUME NEW r \in 0..x.round, WholeRound(g, ds, r) PROVE WholeRound(g, Noted(ds, x), r)
    <2> SUFFICES ASSUME NEW case \in RoundIds(g, ds, r), NEW e \in Team(g), NEW rep \in Reps(g)
                 PROVE  \E d \in Noted(ds, x) : KeyOf(d) = <<case, e, rep, r>>
        BY <1>2 DEF WholeRound
    <2>1. PICK d \in ds : KeyOf(d) = <<case, e, rep, r>>
        BY <1>3 DEF WholeRound
    <2>2. CASE KeyOf(d) = KeyOf(x)
        BY <2>1, <2>2 DEF Noted
    <2>3. CASE KeyOf(d) # KeyOf(x)
        BY <2>1, <2>3 DEF Noted
    <2> QED
        BY <2>2, <2>3
<1> QED
    BY <1>1, <1>2, <1>3

LEMMA NotedInTurn ==
    ASSUME NEW g, NEW ds \in SUBSET Lines(g, Fates), NEW x \in Lines(g, Fates),
           \A d \in ds : d.round <= x.round, InTurn(g, ds),
           x.case \in RoundIds(g, ds, x.round), \A r \in 0..x.round - 1 : WholeRound(g, ds, r)
    PROVE  InTurn(g, Noted(ds, x))
<1>0. x.round \in Nat /\ \A d \in Lines(g, Fates) : d.round \in Nat
    BY DEF Lines, Turns
<1>1. /\ \A r \in 0..x.round : RoundIds(g, Noted(ds, x), r) = RoundIds(g, ds, r)
      /\ \A r \in 0..x.round : WholeRound(g, ds, r) => WholeRound(g, Noted(ds, x), r)
    BY NotedKeeps
<1>2. SUFFICES ASSUME NEW d \in Noted(ds, x)
               PROVE  d.case \in RoundIds(g, Noted(ds, x), d.round)
                      /\ \A r \in 0..d.round - 1 : WholeRound(g, Noted(ds, x), r)
    BY DEF InTurn
<1>3. d.case \in RoundIds(g, ds, d.round) /\ d.round \in 0..x.round /\ \A r \in 0..d.round - 1 : WholeRound(g, ds, r)
    <2>1. CASE d = x
        BY <2>1, <1>0
    <2>2. CASE d \in ds
        BY <2>2, <1>0 DEF InTurn
    <2> QED
        BY <2>1, <2>2 DEF Noted
<1>4. 0..d.round - 1 \subseteq 0..x.round
    BY <1>3, <1>0
<1> QED
    BY <1>1, <1>3, <1>4

-----------------------------------------------------------------------------
(* The order of a round: every rep of every engine of every case, and no    *)
(* other.                                                                   *)

LEMMA FlattenedHas ==
    ASSUME NEW S, NEW ss, Len(ss) \in Nat, Len(ss) = 0 => ss = <<>>,
           \A n \in 1..Len(ss) : ss[n] \in Seq(S)
    PROVE  /\ FlattenSeq(ss) \in Seq(S)
           /\ \A n \in 1..Len(ss) : \A j \in 1..Len(ss[n]) : ss[n][j] \in ToSet(FlattenSeq(ss))
           /\ \A x \in ToSet(FlattenSeq(ss)) : \E n \in 1..Len(ss) : \E j \in 1..Len(ss[n]) : x = ss[n][j]
<1>1. PICK at : FlattenSeq(ss) \in Seq(S) /\ Starts(ss, FlattenSeq(ss), at)
    BY Flattened
<1> DEFINE f == FlattenSeq(ss)
<1>2. f \in Seq(S) /\ DOMAIN f = 1..Len(f)
    BY <1>1
<1>3. /\ \A n \in 1..Len(ss) : \A j \in 1..Len(ss[n]) : at[n] + j \in 1..Len(f) /\ f[at[n] + j] = ss[n][j]
      /\ \A k \in 1..Len(f) : \E n \in 1..Len(ss) : \E j \in 1..Len(ss[n]) : k = at[n] + j
    BY <1>1 DEF Starts
<1> HIDE DEF f
<1>4. \A n \in 1..Len(ss) : \A j \in 1..Len(ss[n]) : ss[n][j] \in ToSet(f)
    BY <1>2, <1>3 DEF ToSet
<1>5. ASSUME NEW x \in ToSet(f)
      PROVE  \E n \in 1..Len(ss) : \E j \in 1..Len(ss[n]) : x = ss[n][j]
    <2>1. PICK k \in 1..Len(f) : x = f[k]
        BY <1>2 DEF ToSet
    <2>2. PICK n \in 1..Len(ss) : \E j \in 1..Len(ss[n]) : k = at[n] + j
        BY <1>3
    <2>3. PICK j \in 1..Len(ss[n]) : k = at[n] + j
        BY <2>2
    <2> QED
        BY <2>1, <2>3, <1>3
<1> QED
    BY <1>2, <1>4, <1>5 DEF f

Setting(g) ==
    /\ g.reps \in Nat \ {0}
    /\ g.cases \in Seq(CasesOf(g))
    /\ g.engines \in Seq(Team(g)) /\ g.engines # <<>>

\* The items of some cases: their engines, their reps.
ItemsOf(g, run) ==
    {x \in [case : run, engine : Team(g), rep : Reps(g), session : BOOLEAN] :
        x.session => g.lane = "engine" /\ Kind[x.engine] # "zpq"}

Covers(x, case, e, rep) == x.case = case /\ x.engine = e /\ (x.session \/ x.rep = rep)

LEMMA IsSeqOf ==
    ASSUME NEW S, NEW n \in Nat, NEW q, q = [i \in 1..n |-> q[i]], \A i \in 1..n : q[i] \in S
    PROVE  q \in Seq(S) /\ Len(q) = n
<1>1. q \in [1..n -> S]
    OBVIOUS
<1> QED
    BY <1>1

LEMMA IsOfSeq ==
    ASSUME NEW S, NEW q \in Seq(S)
    PROVE  /\ DOMAIN q = 1..Len(q) /\ Len(q) \in Nat
           /\ \A x \in ToSet(q) : \E j \in 1..Len(q) : x = q[j]
           /\ \A j \in 1..Len(q) : q[j] \in ToSet(q)
    BY DEF ToSet

\* What each case of the round is followed by.
Blocks(g, run, f) == [i \in DOMAIN g.cases |-> IF g.cases[i] \in run THEN f[g.cases[i]] ELSE <<>>]

LEMMA BlocksHave ==
    ASSUME NEW g, Setting(g), NEW run \in SUBSET CasesOf(g), NEW S, NEW f, \A case \in run : f[case] \in Seq(S)
    PROVE  /\ FlattenSeq(Blocks(g, run, f)) \in Seq(S)
           /\ \A case \in run : \A j \in 1..Len(f[case]) : f[case][j] \in ToSet(FlattenSeq(Blocks(g, run, f)))
<1> DEFINE ss == Blocks(g, run, f)
<1>1. DOMAIN g.cases = 1..Len(g.cases) /\ Len(g.cases) \in Nat /\ CasesOf(g) = {g.cases[i] : i \in 1..Len(g.cases)}
    <2>1. DOMAIN g.cases = 1..Len(g.cases) /\ Len(g.cases) \in Nat
        BY DEF Setting
    <2> QED
        BY <2>1 DEF CasesOf, ToSet
<1>2. /\ DOMAIN ss = 1..Len(g.cases) /\ Len(ss) = Len(g.cases)
      /\ \A i \in 1..Len(ss) : ss[i] = IF g.cases[i] \in run THEN f[g.cases[i]] ELSE <<>>
    BY <1>1 DEF Blocks
<1>3. Len(ss) = 0 => ss = <<>>
    BY <1>1, <1>2 DEF Blocks
<1>4. ASSUME NEW i \in 1..Len(ss) PROVE ss[i] \in Seq(S)
    <2>1. ss[i] = IF g.cases[i] \in run THEN f[g.cases[i]] ELSE <<>>
        BY <1>2
    <2> HIDE DEF ss
    <2>2. CASE g.cases[i] \in run
        BY <2>1, <2>2
    <2>3. CASE g.cases[i] \notin run
        BY <2>1, <2>3
    <2> QED
        BY <2>2, <2>3
<1> HIDE DEF ss
<1>5. /\ FlattenSeq(ss) \in Seq(S)
      /\ \A n \in 1..Len(ss) : \A j \in 1..Len(ss[n]) : ss[n][j] \in ToSet(FlattenSeq(ss))
    BY <1>1, <1>2, <1>3, <1>4, FlattenedHas
<1>6. ASSUME NEW case \in run, NEW j \in 1..Len(f[case]) PROVE f[case][j] \in ToSet(FlattenSeq(ss))
    <2>1. PICK n \in 1..Len(ss) : g.cases[n] = case
        BY <1>1, <1>2
    <2>2. ss[n] = f[case]
        BY <2>1, <1>2
    <2> QED
        BY <2>2, <1>5
<1> QED
    BY <1>5, <1>6 DEF ss

Whole(g, run, order) ==
    \A case \in run, e \in Team(g), rep \in Reps(g) : \E x \in ToSet(order) : Covers(x, case, e, rep)

LEMMA OneRepHas ==
    ASSUME Setting(head), NEW run, NEW case \in run, NEW rep \in Reps(head)
    PROVE  /\ OneRep(case, rep) \in Seq(ItemsOf(head, run))
           /\ \A e \in Team(head) : \E j \in 1..Len(OneRep(case, rep)) : OneRep(case, rep)[j] = Item(case, e, rep, FALSE)
<1>1. /\ DOMAIN head.engines = 1..Len(head.engines) /\ Len(head.engines) \in Nat
      /\ Team(head) = {head.engines[i] : i \in 1..Len(head.engines)}
    BY DEF Setting, Team, ToSet
<1>2. OneRep(case, rep) = [i \in 1..Len(head.engines) |-> Item(case, head.engines[i], rep, FALSE)]
    BY <1>1 DEF OneRep
<1>3. \A e \in Team(head) : Item(case, e, rep, FALSE) \in ItemsOf(head, run)
    BY DEF ItemsOf, Item
<1> DEFINE q == OneRep(case, rep)
           n == Len(head.engines)
<1>4. q = [i \in 1..n |-> q[i]] /\ \A i \in 1..n : q[i] = Item(case, head.engines[i], rep, FALSE)
    BY <1>2
<1> HIDE DEF q
<1>5. q \in Seq(ItemsOf(head, run)) /\ Len(q) = n
    <2>1. \A i \in 1..n : q[i] \in ItemsOf(head, run)
        BY <1>1, <1>3, <1>4
    <2> QED
        BY <1>1, <1>4, <2>1, IsSeqOf
<1>6. \A e \in Team(head) : \E j \in 1..Len(q) : q[j] = Item(case, e, rep, FALSE)
    BY <1>1, <1>4, <1>5
<1> QED
    BY <1>5, <1>6 DEF q

LEMMA AllRepsHave ==
    ASSUME Setting(head), head.lane = "engine", NEW run, NEW case \in run, NEW e \in Team(head)
    PROVE  /\ AllReps(case, e) \in Seq(ItemsOf(head, run))
           /\ \A rep \in Reps(head) : \E j \in 1..Len(AllReps(case, e)) : Covers(AllReps(case, e)[j], case, e, rep)
<1>1. head.reps \in Nat /\ Reps(head) = 0..head.reps
    BY DEF Setting, Reps
<1>2. CASE Kind[e] = "zpq"
    <2>1. AllReps(case, e) = [j \in 1..head.reps + 1 |-> Item(case, e, j - 1, FALSE)]
        BY <1>2 DEF AllReps
    <2>2. \A j \in 1..head.reps + 1 : Item(case, e, j - 1, FALSE) \in ItemsOf(head, run)
        BY <1>1 DEF ItemsOf, Item
    <2> DEFINE q == AllReps(case, e)
               n == head.reps + 1
               it(j) == Item(case, e, j - 1, FALSE)
    <2>3. q = [j \in 1..n |-> q[j]] /\ \A j \in 1..n : q[j] = it(j)
        BY <2>1
    <2>n. n \in Nat
        BY <1>1
    <2> HIDE DEF q, it, n
    <2>4. q \in Seq(ItemsOf(head, run)) /\ Len(q) = n
        <3>1. \A j \in 1..n : it(j) \in ItemsOf(head, run)
            BY <2>2 DEF it, n
        <3>2. \A j \in 1..n : q[j] \in ItemsOf(head, run)
            BY <2>3, <3>1
        <3> QED
            BY <2>3, <2>n, <3>2, IsSeqOf
    <2>5. ASSUME NEW rep \in Reps(head) PROVE \E j \in 1..Len(q) : Covers(q[j], case, e, rep)
        <3>1. rep + 1 \in 1..n /\ (rep + 1) - 1 = rep
            BY <1>1 DEF n
        <3>2. q[rep + 1] = Item(case, e, rep, FALSE)
            BY <3>1, <2>3 DEF it
        <3>3. Covers(q[rep + 1], case, e, rep)
            BY <3>2 DEF Covers, Item
        <3> QED
            BY <3>1, <3>3, <2>4
    <2> QED
        BY <2>4, <2>5 DEF q
<1>3. CASE Kind[e] # "zpq"
    <2>1. AllReps(case, e) = << Item(case, e, 0, TRUE) >>
        BY <1>3 DEF AllReps
    <2>2. Item(case, e, 0, TRUE) \in ItemsOf(head, run) /\ \A rep : Covers(Item(case, e, 0, TRUE), case, e, rep)
        BY <1>1, <1>3 DEF ItemsOf, Item, Covers
    <2> DEFINE it == Item(case, e, 0, TRUE)
    <2> HIDE DEF it
    <2>3. it \in ItemsOf(head, run) /\ \A rep : Covers(it, case, e, rep)
        BY <2>2 DEF it
    <2>4. <<it>> \in Seq(ItemsOf(head, run)) /\ Len(<<it>>) = 1 /\ <<it>>[1] = it
        BY <2>3
    <2>5. \A rep \in Reps(head) : \E j \in 1..Len(<<it>>) : Covers(<<it>>[j], case, e, rep)
        BY <2>3, <2>4
    <2> QED
        BY <2>1, <2>4, <2>5 DEF it
<1> QED
    BY <1>2, <1>3

LEMMA OrderOfEngine ==
    ASSUME Setting(head), head.lane = "engine", ids \in SUBSET CasesOf(head)
    PROVE  Order \in Seq(ItemsOf(head, ids)) /\ Whole(head, ids, Order)
<1> DEFINE S == ItemsOf(head, ids)
           engs(case) == [i \in DOMAIN head.engines |-> AllReps(case, head.engines[i])]
           f == [case \in CasesOf(head) |-> FlattenSeq(engs(case))]
<1>1. /\ DOMAIN head.engines = 1..Len(head.engines) /\ Len(head.engines) \in Nat
      /\ Team(head) = {head.engines[i] : i \in 1..Len(head.engines)}
      /\ \A i \in DOMAIN head.cases : head.cases[i] \in CasesOf(head)
    <2>1. head.engines \in Seq(Team(head))
        BY DEF Setting
    <2>2. DOMAIN head.engines = 1..Len(head.engines) /\ Len(head.engines) \in Nat
        BY <2>1, IsOfSeq
    <2>3. Team(head) = {head.engines[i] : i \in 1..Len(head.engines)}
        BY <2>2 DEF Team, ToSet
    <2>4. \A i \in DOMAIN head.cases : head.cases[i] \in CasesOf(head)
        BY DEF CasesOf, ToSet
    <2> QED
        BY <2>2, <2>3, <2>4
<1>2. Order = FlattenSeq(Blocks(head, ids, f))
    BY <1>1 DEF Order, EachCase, Blocks
<1>3. ASSUME NEW case \in ids
      PROVE  /\ FlattenSeq(engs(case)) \in Seq(S)
             /\ \A e \in Team(head), rep \in Reps(head) : \E x \in ToSet(FlattenSeq(engs(case))) : Covers(x, case, e, rep)
    <2> DEFINE ss == engs(case)
    <2>1. /\ Len(ss) = Len(head.engines) /\ (Len(ss) = 0 => ss = <<>>)
          /\ \A n \in 1..Len(ss) : ss[n] = AllReps(case, head.engines[n])
        BY <1>1
    <2>2. \A n \in 1..Len(ss) : ss[n] \in Seq(S)
        BY <2>1, <1>1, AllRepsHave
    <2> HIDE DEF ss
    <2>3. /\ FlattenSeq(ss) \in Seq(S)
          /\ \A n \in 1..Len(ss) : \A j \in 1..Len(ss[n]) : ss[n][j] \in ToSet(FlattenSeq(ss))
        BY <2>1, <2>2, <1>1, FlattenedHas
    <2>4. ASSUME NEW e \in Team(head), NEW rep \in Reps(head)
          PROVE  \E x \in ToSet(FlattenSeq(ss)) : Covers(x, case, e, rep)
        <3>1. PICK n \in 1..Len(ss) : head.engines[n] = e
            BY <1>1, <2>1
        <3>2. PICK j \in 1..Len(AllReps(case, e)) : Covers(AllReps(case, e)[j], case, e, rep)
            BY AllRepsHave
        <3>3. ss[n] = AllReps(case, e)
            BY <2>1, <3>1
        <3> QED
            BY <3>2, <3>3, <2>3
    <2> QED
        BY <2>3, <2>4 DEF ss
<1>4. \A case \in ids : f[case] = FlattenSeq(engs(case))
    OBVIOUS
<1> HIDE DEF f, engs
<1>5. \A case \in ids : f[case] \in Seq(S)
    BY <1>3, <1>4
<1>6. /\ Order \in Seq(S)
      /\ \A case \in ids : \A j \in 1..Len(f[case]) : f[case][j] \in ToSet(Order)
    BY <1>2, <1>5, BlocksHave
<1>7. ASSUME NEW case \in ids, NEW e \in Team(head), NEW rep \in Reps(head)
      PROVE  \E x \in ToSet(Order) : Covers(x, case, e, rep)
    <2>1. PICK x \in ToSet(f[case]) : Covers(x, case, e, rep)
        BY <1>3, <1>4
    <2>2. PICK j \in 1..Len(f[case]) : x = f[case][j]
        BY <1>5 DEF ToSet
    <2> QED
        BY <2>1, <2>2, <1>6
<1> QED
    BY <1>6, <1>7 DEF Whole

LEMMA OrderOfReps ==
    ASSUME Setting(head), head.lane # "engine", ids \in SUBSET CasesOf(head)
    PROVE  Order \in Seq(ItemsOf(head, ids)) /\ Whole(head, ids, Order)
<1> DEFINE S == ItemsOf(head, ids)
           f(rep) == [case \in CasesOf(head) |-> OneRep(case, rep)]
           part(rep) == FlattenSeq(Blocks(head, ids, f(rep)))
           N == head.reps + 1 - FirstRep
           ss == [j \in 1..N |-> part(FirstRep + j - 1)]
<1>1. N \in Nat /\ FirstRep \in {0, 1} /\ head.reps \in Nat /\ Reps(head) = FirstRep..head.reps
    BY DEF Setting, Reps, FirstRep
<1>2. \A i \in DOMAIN head.cases : head.cases[i] \in CasesOf(head)
    BY DEF CasesOf, ToSet
<1>3. \A rep : EachCase(LAMBDA case : OneRep(case, rep)) = part(rep)
    BY <1>2 DEF EachCase, Blocks
<1>4. Order = FlattenSeq(ss)
    BY <1>3 DEF Order
<1>5. ASSUME NEW rep \in Reps(head)
      PROVE  /\ part(rep) \in Seq(S)
             /\ \A case \in ids, e \in Team(head) : Item(case, e, rep, FALSE) \in ToSet(part(rep))
    <2> DEFINE q == f(rep)
    <2>1. \A case \in ids : q[case] = OneRep(case, rep)
        OBVIOUS
    <2>2. \A case \in ids : q[case] \in Seq(S)
        BY <2>1, OneRepHas
    <2> HIDE DEF q, S
    <2>3. /\ FlattenSeq(Blocks(head, ids, q)) \in Seq(S)
          /\ \A case \in ids : \A j \in 1..Len(q[case]) : q[case][j] \in ToSet(FlattenSeq(Blocks(head, ids, q)))
        BY <2>2, BlocksHave
    <2>4. ASSUME NEW case \in ids, NEW e \in Team(head)
          PROVE  Item(case, e, rep, FALSE) \in ToSet(FlattenSeq(Blocks(head, ids, q)))
        <3>1. PICK j \in 1..Len(OneRep(case, rep)) : OneRep(case, rep)[j] = Item(case, e, rep, FALSE)
            BY OneRepHas
        <3> QED
            BY <3>1, <2>1, <2>3
    <2> QED
        BY <2>3, <2>4 DEF q
<1>6. /\ Len(ss) = N /\ (Len(ss) = 0 => ss = <<>>)
      /\ \A n \in 1..Len(ss) : ss[n] = part(FirstRep + n - 1)
    BY <1>1
<1>7. \A n \in 1..N : FirstRep + n - 1 \in Reps(head)
    BY <1>1
<1> HIDE DEF ss, part, S
<1>8. \A n \in 1..Len(ss) : ss[n] \in Seq(S)
    BY <1>5, <1>6, <1>7
<1>9. /\ FlattenSeq(ss) \in Seq(S)
      /\ \A n \in 1..Len(ss) : \A j \in 1..Len(ss[n]) : ss[n][j] \in ToSet(FlattenSeq(ss))
    BY <1>1, <1>6, <1>8, FlattenedHas
<1>10. ASSUME NEW case \in ids, NEW e \in Team(head), NEW rep \in Reps(head)
       PROVE  \E x \in ToSet(Order) : Covers(x, case, e, rep)
    <2>1. rep - FirstRep + 1 \in 1..N /\ FirstRep + (rep - FirstRep + 1) - 1 = rep
        BY <1>1
    <2>2. PICK n \in 1..Len(ss) : ss[n] = part(rep)
        BY <2>1, <1>6
    <2>3. PICK j \in 1..Len(part(rep)) : Item(case, e, rep, FALSE) = part(rep)[j]
        <3>1. part(rep) \in Seq(S) /\ Item(case, e, rep, FALSE) \in ToSet(part(rep))
            BY <1>5
        <3> QED
            BY <3>1, IsOfSeq
    <2>4. Item(case, e, rep, FALSE) \in ToSet(Order)
        BY <2>2, <2>3, <1>4, <1>9
    <2> QED
        BY <2>4 DEF Covers, Item
<1> QED
    BY <1>4, <1>9, <1>10 DEF Whole, S

LEMMA OrderIs ==
    ASSUME Setting(head), ids \in SUBSET CasesOf(head)
    PROVE  Order \in Seq(ItemsOf(head, ids)) /\ Whole(head, ids, Order)
    BY OrderOfEngine, OrderOfReps


-----------------------------------------------------------------------------
(* Each step of a lane keeps its invariant.                                 *)

LEMMA LaneSettings ==
    ASSUME LaneTypes
    PROVE  Setting(head) /\ head.maxRound = MaxRounds - 1 /\ MaxRounds \in Nat \ {0} /\ Kind["zpq"] = "zpq"
    BY LaneAssumption DEF LaneTypes, Setting, CasesOf, Team

LEMMA NoCurIs ==
    /\ NoCur \in [case : {"none"}, engine : {"none"}, rep : Int, session : BOOLEAN,
                  reply : Told, rejected : BOOLEAN]
    /\ \A g : NoCur \in [case : CasesOf(g) \cup {"none"}, engine : Team(g) \cup {"none"}, rep : Int,
                         session : BOOLEAN, reply : Told, rejected : BOOLEAN]
    BY DEF NoCur, Attempt, Item, Told

LEMMA LaneInitInv == LaneInit => LaneInv
<1> SUFFICES ASSUME LaneInit PROVE LaneInv
    OBVIOUS
<1>1. LaneTypes
    <2>1. 0 \in Turns /\ <<>> \in Seq(Lines(head, Fates))
        BY LaneAssumption DEF Turns
    <2> QED
        BY <2>1, NoCurIs DEF LaneInit, LaneTypes, LanePCs, Away
<1>2. Kept = <<>> /\ journal = <<>> /\ pc = "off" /\ procs \subseteq Beyond
    BY DEF LaneInit, Kept
<1>3. InTurn(head, {})
    BY DEF InTurn
<1>4. InMemory /\ AllTruthful
    BY <1>2 DEF InMemory, AllTruthful, Away, LaneInit
<1>5. Rounds
    BY <1>2, <1>3, LoadedOfNone DEF Rounds, Away
<1>6. AtWork /\ OnceEach(journal)
    BY <1>2 DEF AtWork, OnceEach, Working
<1> QED
    BY <1>1, <1>4, <1>5, <1>6 DEF LaneInv

\* What is in memory is of the journal's kind, and a round's cases are planned.
LEMMA KeptIs ==
    ASSUME LaneTypes, InMemory
    PROVE  /\ Kept \in Seq(Lines(head, Fates))
           /\ Loaded(Kept) \in SUBSET Lines(head, Fates)
           /\ Loaded(journal) \in SUBSET Lines(head, Fates)
<1>1. pc = "sync" => Front(journal) \in Seq(Lines(head, Fates))
    BY DEF LaneTypes, InMemory, Front
<1>2. Kept \in Seq(Lines(head, Fates)) /\ journal \in Seq(Lines(head, Fates))
    BY <1>1 DEF LaneTypes, Kept
<1> QED
    BY <1>2, LoadedIsOfLines

LEMMA RoundIdsArePlanned ==
    ASSUME NEW g, NEW ds \in SUBSET Lines(g, Fates), NEW r
    PROVE  RoundIds(g, ds, r) \subseteq CasesOf(g)
<1>1. \A d \in ds : d.case \in CasesOf(g)
    BY DEF Lines
<1>2. \A case \in Disturbed(g.psi, ds, r - 1) : case \in CasesOf(g)
    BY <1>1, DisturbedRan
<1> QED
    BY <1>2 DEF RoundIds

LEMMA IdsArePlanned ==
    ASSUME LaneTypes, InMemory, Rounds, pc \notin Away
    PROVE  ids \in SUBSET CasesOf(head) /\ done \in SUBSET Lines(head, Fates)
<1>1. done \in SUBSET Lines(head, Fates)
    BY KeptIs DEF InMemory
<1> QED
    BY <1>1, RoundIdsArePlanned DEF Rounds

\* A record that says more is of the same attempt.
Garbling(x, t) == [x EXCEPT !.validation = "wrong", !.method = "full", !.elapsed = t]
Answering(x, o, t) == [x EXCEPT !.answer = o.answer, !.elapsed = t]
Settling(x, v, m, said) == [x EXCEPT !.validation = v, !.method = m, !.status = said]
SameAttempt(g, x, y) == y \in Lines(g, Fates) /\ KeyOf(y) = KeyOf(x)

LEMMA RecordSettled ==
    ASSUME NEW g, NEW fates, NEW x \in Lines(g, fates), NEW v \in {"unchecked", "ok", "wrong"},
           NEW m \in {"full", "hash"}, NEW said \in Fates
    PROVE  SameAttempt(g, x, Settling(x, v, m, said))
    BY DEF Lines, KeyOf, Settling, SameAttempt

LEMMA RecordGarbled ==
    ASSUME NEW g, NEW fates, NEW x \in Lines(g, fates), NEW t \in Int
    PROVE  Garbling(x, t) \in Lines(g, fates) /\ KeyOf(Garbling(x, t)) = KeyOf(x)
    BY DEF Lines, KeyOf, Garbling

LEMMA RecordAnswers ==
    ASSUME NEW g, NEW fates, NEW x \in Lines(g, fates), NEW t \in Int, NEW o \in Outputs
    PROVE  Answering(x, o, t) \in Lines(g, fates) /\ KeyOf(Answering(x, o, t)) = KeyOf(x)
    BY DEF Lines, KeyOf, Answering

\* A record of the attempt under way, once told how it went.
LEMMA RecordIs ==
    ASSUME LaneTypes, InMemory, Rounds, AtWork, pc \in Working, NEW status
    PROVE  /\ Record(status) \in Lines(head, {status})
           /\ KeyOf(Record(status)) = <<cur.case, cur.engine, cur.rep, rnd>>
           /\ Record(status).answer = "none" /\ Record(status).validation = "unchecked"
           /\ Record(status).status = status
<1>1. cur.reply \in Told /\ pins = 0 /\ rnd \in Turns
    BY DEF LaneTypes, Working, Away
<1>2. cur.engine \in Team(head) /\ cur.rep \in Reps(head)
    BY DEF AtWork
<1>3. cur.case \in CasesOf(head)
    BY IdsArePlanned DEF AtWork, Working, Away
<1> QED
    BY <1>1, <1>2, <1>3 DEF Record, KeyOf, Lines

\* A step that leaves the journal and the round alone, from one place of an
\* attempt to another.
LEMMA QuietStep ==
    ASSUME LaneInv, UNCHANGED <<head, pins, rnd, ids, done, journal>>,
           pc \in Working \ {"sync", "write"}, pc' \in Working \ {"sync"},
           cur' \in [case : {cur.case}, engine : {cur.engine}, rep : {cur.rep}, session : {cur.session},
                     reply : Told, rejected : BOOLEAN],
           pc' = "write" => rec' \in Lines(head, Fates) /\ Truthful(rec'),
           pc' = "judge" => rec' \in Lines(head, {"none"}),
           pc' \in {"judge", "write"} => KeyOf(rec') = <<cur.case, cur.engine, cur.rep, rnd>>,
           ~ (procs' \subseteq Beyond) => pc' \in {"running", "sweep"}
    PROVE  LaneInv'
<1> USE DEF LaneInv
<1>w. pc \notin Away /\ pc' \notin Away /\ pc' \in LanePCs /\ pc' # "sync" /\ pc # "sync" /\ pc' \notin {"round", "ended"}
    BY DEF Working, Away, LanePCs
<1>1. LaneTypes'
    <2>1. cur' \in [case : CasesOf(head) \cup {"none"}, engine : Team(head) \cup {"none"}, rep : Int,
                    session : BOOLEAN, reply : Told, rejected : BOOLEAN]
        BY DEF LaneTypes
    <2> QED
        BY <1>w, <2>1 DEF LaneTypes
<1>2. Kept' = Kept /\ Kept = journal
    BY <1>w DEF Kept
<1>3. InMemory'
    BY <1>w, <1>2 DEF InMemory
<1>4. AllTruthful'
    BY DEF AllTruthful
<1>5. Rounds'
    BY <1>w, <1>2 DEF Rounds
<1>6. AtWork'
    <2>1. cur'.case = cur.case /\ cur'.engine = cur.engine /\ cur'.rep = cur.rep /\ cur'.session = cur.session
        OBVIOUS
    <2>2. Keys' = Keys
        BY DEF Keys
    <2> QED
        BY <1>w, <2>1, <2>2 DEF AtWork
<1>7. OnceEach(journal)'
    OBVIOUS
<1> QED
    BY <1>1, <1>3, <1>4, <1>5, <1>6, <1>7

LEMMA CurIs ==
    ASSUME LaneTypes
    PROVE  /\ cur \in [case : {cur.case}, engine : {cur.engine}, rep : {cur.rep}, session : {cur.session},
                       reply : Told, rejected : BOOLEAN]
           /\ [cur EXCEPT !.rejected = TRUE] \in
                      [case : {cur.case}, engine : {cur.engine}, rep : {cur.rep}, session : {cur.session},
                       reply : Told, rejected : BOOLEAN]
           /\ \A x \in Told : [cur EXCEPT !.reply = x] \in
                      [case : {cur.case}, engine : {cur.engine}, rep : {cur.rep}, session : {cur.session},
                       reply : Told, rejected : BOOLEAN]
    BY DEF LaneTypes

\* A record that was not an answer says nothing of one.
LEMMA NoAnswer ==
    ASSUME NEW r, r.answer = "none", r.validation # "ok", r.status # "ok"
    PROVE  Truthful(r)
    BY DEF Truthful

LEMMA ConditionKeeps == ASSUME LaneInv, Condition PROVE LaneInv'
<1> USE DEF LaneInv
<1>1. pc \in Working
    BY DEF Condition, Working
<1>2. PICK bad \in BOOLEAN :
        IF bad /\ ~ head.smoke
        THEN pc' = "write" /\ rec' = Record("disturbed") /\ cur' = [cur EXCEPT !.rejected = TRUE]
        ELSE pc' = "spawn" /\ UNCHANGED <<rec, cur>>
    BY DEF Condition
<1>3. procs' \subseteq Beyond
    BY DEF Condition, AtWork
<1>4. CASE pc' = "write"
    <2>1. rec' = Record("disturbed") /\ cur' = [cur EXCEPT !.rejected = TRUE]
        BY <1>2, <1>4
    <2>2. Lines(head, {"disturbed"}) \subseteq Lines(head, Fates)
        BY DEF Lines, Fates
    <2>3. rec' \in Lines(head, Fates) /\ Truthful(rec') /\ KeyOf(rec') = <<cur.case, cur.engine, cur.rep, rnd>>
        BY <1>1, <2>1, <2>2, RecordIs, NoAnswer
    <2> QED
        BY <1>1, <1>3, <1>4, <2>1, <2>3, CurIs, QuietStep DEF Condition, Working
<1>5. CASE pc' = "spawn"
    <2>1. cur' = cur
        BY <1>2, <1>5
    <2> QED
        BY <1>1, <1>3, <1>5, <2>1, CurIs, QuietStep DEF Condition, Working
<1> QED
    BY <1>2, <1>4, <1>5

LEMMA SpawnKeeps == ASSUME LaneInv, Spawn PROVE LaneInv'
<1> USE DEF LaneInv
<1>1. PICK x \in Replies : cur' = [cur EXCEPT !.reply = x]
    BY DEF Spawn
<1>2. x \in Told
    BY DEF Told
<1> QED
    BY <1>1, <1>2, CurIs, QuietStep DEF Spawn, Working

LEMMA ReapKeeps == ASSUME LaneInv, Reap PROVE LaneInv'
    BY CurIs, QuietStep DEF LaneInv, Reap, Working

LEMMA SweepKeeps == ASSUME LaneInv, SweepGroup PROVE LaneInv'
    BY CurIs, QuietStep DEF LaneInv, SweepGroup, SweptGroup, Beyond, Working

LEMMA FinishKeeps == ASSUME LaneInv, Finish PROVE LaneInv'
<1> USE DEF LaneInv
<1>1. pc = "finish" /\ pc \in Working
    BY DEF Finish, Working
<1>2. procs' \subseteq Beyond
    BY DEF Finish, AtWork
<1>3. UNCHANGED <<head, pins, rnd, ids, done, journal, cur>>
    BY DEF Finish
<1>4. ASSUME NEW status \in {"timeout", "failed"}, rec' = Record(status), pc' = "write"
      PROVE  LaneInv'
    <2>1. Lines(head, {status}) \subseteq Lines(head, Fates)
        BY <1>4 DEF Lines, Fates
    <2>2. rec' \in Lines(head, Fates) /\ Truthful(rec') /\ KeyOf(rec') = <<cur.case, cur.engine, cur.rep, rnd>>
        BY <1>1, <1>4, <2>1, RecordIs, NoAnswer
    <2> QED
        BY <1>1, <1>2, <1>3, <1>4, <2>2, CurIs, QuietStep DEF Working
<1>5. CASE cur.reply.timeout \/ cur.reply.rc # 0
    BY <1>4, <1>5 DEF Finish
<1>6. CASE ~ (cur.reply.timeout \/ cur.reply.rc # 0)
    <2>1. PICK o \in Outputs :
            CASE o.answer = "absent" -> pc' = "write" /\ rec' = Record("failed")
              [] o.answer = "garbled" ->
                   /\ pc' = "write"
                   /\ rec' = [Record("wrong") EXCEPT !.validation = "wrong", !.method = "full",
                                                     !.elapsed = o.elapsed]
              [] OTHER ->
                   /\ pc' = "judge"
                   /\ rec' = [Record("none") EXCEPT !.answer = o.answer, !.elapsed = o.elapsed]
        BY <1>6 DEF Finish
    <2>2. o.elapsed \in Int
        BY LaneAssumption
    <2>3. CASE o.answer = "absent"
        BY <2>1, <2>3, <1>4
    <2>4. CASE o.answer = "garbled"
        <3>1. rec' = [Record("wrong") EXCEPT !.validation = "wrong", !.method = "full", !.elapsed = o.elapsed]
              /\ pc' = "write"
            BY <2>1, <2>4
        <3>2. rec' \in Lines(head, Fates) /\ rec'.answer = "none" /\ rec'.validation = "wrong" /\ rec'.status = "wrong"
              /\ KeyOf(rec') = <<cur.case, cur.engine, cur.rep, rnd>>
            <4> DEFINE x == Record("wrong")
            <4>1. /\ x \in Lines(head, {"wrong"}) /\ x.answer = "none" /\ x.status = "wrong"
                  /\ KeyOf(x) = <<cur.case, cur.engine, cur.rep, rnd>>
                BY <1>1, RecordIs
            <4>2. Lines(head, {"wrong"}) \subseteq Lines(head, Fates)
                BY DEF Lines, Fates
            <4> HIDE DEF x
            <4>3. rec' = Garbling(x, o.elapsed)
                BY <3>1 DEF x, Garbling
            <4>4. /\ rec' \in Lines(head, {"wrong"}) /\ KeyOf(rec') = KeyOf(x)
                  /\ rec'.validation = "wrong" /\ rec'.answer = "none" /\ rec'.status = "wrong"
                <5> DEFINE y == Garbling(x, o.elapsed)
                <5>1. y \in Lines(head, {"wrong"}) /\ KeyOf(y) = KeyOf(x)
                    BY <4>1, <2>2, RecordGarbled
                <5>2. y.validation = "wrong" /\ y.answer = x.answer /\ y.status = x.status
                    BY <4>1 DEF Garbling, Lines
                <5> HIDE DEF y
                <5> QED
                    BY <5>1, <5>2, <4>1, <4>3 DEF y
            <4> QED
                BY <4>1, <4>2, <4>4
        <3>3. Truthful(rec')
            BY <3>2, NoAnswer
        <3> QED
            BY <1>1, <1>2, <1>3, <3>1, <3>2, <3>3, CurIs, QuietStep DEF Working
    <2>5. CASE o.answer \notin {"absent", "garbled"}
        <3>1. rec' = [Record("none") EXCEPT !.answer = o.answer, !.elapsed = o.elapsed] /\ pc' = "judge"
            BY <2>1, <2>5
        <3>2. rec' \in Lines(head, {"none"}) /\ KeyOf(rec') = <<cur.case, cur.engine, cur.rep, rnd>>
            <4> DEFINE x == Record("none")
            <4>1. x \in Lines(head, {"none"}) /\ KeyOf(x) = <<cur.case, cur.engine, cur.rep, rnd>>
                BY <1>1, RecordIs
            <4> HIDE DEF x
            <4>2. rec' = Answering(x, o, o.elapsed)
                BY <3>1 DEF x, Answering
            <4> QED
                BY <4>1, <4>2, <2>2, RecordAnswers
        <3> QED
            BY <1>1, <1>2, <1>3, <3>1, <3>2, CurIs, QuietStep DEF Working
    <2> QED
        BY <2>3, <2>4, <2>5
<1> QED
    BY <1>5, <1>6

\* A known verdict was the comparer's.
LEMMA VerdictsTrue ==
    ASSUME LaneTypes, AllTruthful, NEW case, NEW e, NEW answer, NEW v \in Verdicts(case, e, answer)
    PROVE  /\ v \in {"unchecked", "ok", "wrong"}
           /\ answer # "none" => (v = "ok" <=> JudgeSays(e, answer))
           /\ v = "ok" => JudgeSays(e, answer)
<1>1. PICK i \in DOMAIN journal : v = journal[i].validation /\ journal[i].engine = e /\ journal[i].answer = answer
    BY DEF Verdicts
<1>2. Truthful(journal[i]) /\ journal[i] \in Lines(head, Fates)
    BY DEF AllTruthful, LaneTypes
<1> QED
    BY <1>1, <1>2 DEF Truthful, Lines

LEMMA JudgeKeeps == ASSUME LaneInv, Judge PROVE LaneInv'
<1> USE DEF LaneInv
<1>1. pc = "judge" /\ pc \in Working /\ pc' = "write"
    BY DEF Judge, Working
<1>2. procs' \subseteq Beyond
    BY DEF Judge, AtWork
<1>3. UNCHANGED <<head, pins, rnd, ids, done, journal, cur>>
    BY DEF Judge
<1>4. rec \in Lines(head, {"none"}) /\ KeyOf(rec) = <<cur.case, cur.engine, cur.rep, rnd>>
    BY <1>1 DEF LaneTypes, AtWork
<1> DEFINE known == Verdicts(rec.case, rec.engine, rec.answer)
           asked == IF JudgeSays(rec.engine, rec.answer) THEN "ok" ELSE "wrong"
<1>5. PICK v \in {"unchecked", "ok", "wrong"}, m \in {"full", "hash"} :
        /\ rec' = Settled(v, m)
        /\ rec.answer # "none" => (v = "ok" <=> JudgeSays(rec.engine, rec.answer))
        /\ v = "ok" => JudgeSays(rec.engine, rec.answer)
    <2>1. CASE known # {}
        <3>1. rec' = Settled(CHOOSE v \in known : TRUE, "hash") /\ (CHOOSE v \in known : TRUE) \in known
            BY <2>1 DEF Judge
        <3> QED
            BY <3>1, VerdictsTrue
    <2>2. CASE known = {}
        <3>1. rec' = Settled(asked, "full") /\ asked \in {"ok", "wrong"}
              /\ (asked = "ok" <=> JudgeSays(rec.engine, rec.answer))
            BY <2>2 DEF Judge
        <3> QED
            BY <3>1
    <2> QED
        BY <2>1, <2>2
<1> HIDE DEF known, asked
<1> DEFINE said == IF v # "ok" THEN "wrong" ELSE IF cur.reply.contended /\ ~ head.smoke THEN "disturbed" ELSE "ok"
<1>6. rec' = Settling(rec, v, m, said) /\ said \in Fates /\ (said = "ok" => v = "ok")
    BY <1>5 DEF Settled, Settling, Fates
<1> HIDE DEF said
<1>7. /\ rec' \in Lines(head, Fates) /\ KeyOf(rec') = KeyOf(rec)
      /\ rec'.validation = v /\ rec'.status = said /\ rec'.answer = rec.answer /\ rec'.engine = rec.engine
    <2> DEFINE y == Settling(rec, v, m, said)
    <2>1. /\ rec \in Lines(head, {"none"}) /\ said \in Fates
          /\ v \in {"unchecked", "ok", "wrong"} /\ m \in {"full", "hash"}
        BY <1>4, <1>6
    <2>2. SameAttempt(head, rec, y)
        BY <2>1, RecordSettled
    <2>3. y.validation = v /\ y.status = said /\ y.answer = rec.answer /\ y.engine = rec.engine
        BY <2>1 DEF Settling, Lines
    <2> HIDE DEF y
    <2> QED
        BY <2>2, <2>3, <1>6 DEF y, SameAttempt
<1>8. Truthful(rec')
    BY <1>5, <1>6, <1>7 DEF Truthful
<1> QED
    BY <1>1, <1>2, <1>3, <1>4, <1>7, <1>8, CurIs, QuietStep DEF Working

LEMMA RejectAgainKeeps == ASSUME LaneInv, RejectAgain PROVE LaneInv'
<1> USE DEF LaneInv
<1>1. pc \in Working /\ procs \subseteq Beyond /\ rec' = Record("disturbed")
    BY DEF RejectAgain, Working, AtWork
<1>2. Lines(head, {"disturbed"}) \subseteq Lines(head, Fates)
    BY DEF Lines, Fates
<1>3. rec' \in Lines(head, Fates) /\ Truthful(rec') /\ KeyOf(rec') = <<cur.case, cur.engine, cur.rep, rnd>>
    BY <1>1, <1>2, RecordIs, NoAnswer
<1> QED
    BY <1>1, <1>3, CurIs, QuietStep DEF RejectAgain, Working

LEMMA WriteKeeps == ASSUME LaneInv, Write PROVE LaneInv'
<1> USE DEF LaneInv
<1> DEFINE S == Lines(head, Fates)
           was == Loaded(journal)
<1>1. /\ pc = "write" /\ pc' = "sync" /\ journal' = Append(journal, rec)
      /\ UNCHANGED <<head, pins, rnd, ids, done, cur, rec, procs>>
    BY DEF Write
<1>2. rec \in S /\ journal \in Seq(S) /\ Truthful(rec) /\ procs \subseteq Beyond
    BY <1>1 DEF LaneTypes, AllTruthful, AtWork
<1>3. /\ journal' \in Seq(S) /\ Len(journal') = Len(journal) + 1 /\ Len(journal) \in Nat
      /\ DOMAIN journal = 1..Len(journal) /\ DOMAIN journal' = 1..Len(journal) + 1
      /\ journal'[Len(journal) + 1] = rec /\ \A i \in 1..Len(journal) : journal'[i] = journal[i]
      /\ Front(journal') = journal /\ Last(journal') = rec /\ journal' # <<>>
    BY <1>1, <1>2 DEF Front, Last
<1>4. Kept = journal /\ Kept' = journal /\ done = was
    BY <1>1, <1>3 DEF Kept, InMemory, Away
<1>5. Loaded(journal') = Noted(was, rec)
    BY <1>1, <1>2, LoadedOfOneMore
<1>6. /\ was \in SUBSET S /\ \A d \in was : d.round <= rec.round
      /\ rec.case \in RoundIds(head, was, rec.round) /\ \A r \in 0..rec.round - 1 : WholeRound(head, was, r)
      /\ InTurn(head, was)
    <2>1. rec.case = cur.case /\ rec.round = rnd
        BY <1>1 DEF AtWork, KeyOf
    <2>2. cur.case \in ids /\ \A d \in done : d.round <= rnd
        BY <1>1 DEF AtWork, Working
    <2>3. ids = RoundIds(head, done, rnd) /\ \A r \in 0..rnd - 1 : WholeRound(head, done, r)
        BY <1>1 DEF Rounds, Away
    <2>4. InTurn(head, was)
        BY DEF Rounds
    <2> QED
        BY <1>4, <2>1, <2>2, <2>3, <2>4, KeptIs
<1> HIDE DEF S, was
<1>7. InTurn(head, Loaded(journal'))
    BY <1>2, <1>5, <1>6, NotedInTurn DEF S
<1>8. LaneTypes'
    BY <1>1, <1>2, <1>3 DEF LaneTypes, LanePCs, Working, Away, S
<1>9. InMemory'
    BY <1>1, <1>3, <1>4 DEF InMemory, Away, was
<1>10. AllTruthful'
    <2>1. \A i \in DOMAIN journal' : Truthful(journal'[i])
        BY <1>2, <1>3 DEF AllTruthful
    <2> QED
        BY <1>1, <2>1 DEF AllTruthful
<1>11. Rounds'
    <2>1. InTurn(head, Loaded(journal)) /\ ids = RoundIds(head, done, rnd) /\ \A r \in 0..rnd - 1 : WholeRound(head, done, r)
        BY <1>1 DEF Rounds, Away
    <2> QED
        BY <1>1, <1>4, <1>7, <2>1 DEF Rounds
<1>12. AtWork'
    BY <1>1, <1>2 DEF AtWork, Working, Keys
<1>13. OnceEach(journal')
    <2>1. ASSUME NEW i \in 1..Len(journal), KeyOf(journal[i]) = KeyOf(rec)
          PROVE  Kind[rec.engine] # "zpq"
        <3>1. PICK d \in was : KeyOf(d) = KeyOf(rec)
            BY <2>1, <1>2, <1>3, LoadedHasEveryKey DEF was
        <3>2. KeyOf(rec) = <<cur.case, cur.engine, cur.rep, rnd>> /\ rec.engine = cur.engine
            BY <1>1 DEF AtWork, KeyOf
        <3>3. KeyOf(rec) \in Keys
            BY <3>1, <1>4 DEF Keys
        <3> QED
            BY <3>2, <3>3, <1>1 DEF AtWork, Working
    <2>2. \A i \in 1..Len(journal) : KeyOf(journal[i]) = KeyOf(rec) => journal[i].engine = rec.engine
        BY DEF KeyOf
    <2> QED
        BY <2>1, <2>2, <1>3 DEF OnceEach
<1> QED
    BY <1>8, <1>9, <1>10, <1>11, <1>12, <1>13

LEMMA SyncKeeps == ASSUME LaneInv, Sync PROVE LaneInv'
<1> USE DEF LaneInv
<1> DEFINE S == Lines(head, Fates)
<1>1. /\ pc = "sync" /\ done' = Noted(done, rec)
      /\ UNCHANGED <<head, pins, rnd, ids, journal, procs>>
    BY DEF Sync
<1>2. journal \in Seq(S) /\ rec \in S /\ journal # <<>> /\ rec = Last(journal) /\ procs \subseteq Beyond
    BY <1>1 DEF LaneTypes, InMemory, AtWork
<1>3. Front(journal) \in Seq(S) /\ journal = Append(Front(journal), rec)
    BY <1>2 DEF Front, Last
<1>4. pc' \in {"again", "finish", "next"}
    BY DEF Sync
<1>5. Kept = Front(journal) /\ Kept' = journal
    BY <1>1, <1>4 DEF Kept
<1>6. done = Loaded(Front(journal))
    BY <1>1, <1>5 DEF InMemory, Away
<1>7. done' = Loaded(journal)
    BY <1>1, <1>2, <1>3, <1>6, LoadedOfOneMore
<1>8. rec.case = cur.case /\ rec.round = rnd /\ rec.engine = cur.engine
    BY <1>1 DEF AtWork, KeyOf
<1>9. \A d \in done : d.round <= rnd
    BY <1>1 DEF AtWork, Working
<1>10. done \in SUBSET S /\ rnd \in Nat
    BY <1>5, <1>6, KeptIs DEF LaneTypes, Turns
<1> HIDE DEF S
<1>11. /\ \A d \in done' : d.round <= rnd
       /\ RoundIds(head, done', rnd) = RoundIds(head, done, rnd)
       /\ \A r \in 0..rnd : WholeRound(head, done, r) => WholeRound(head, done', r)
    <2>1. \A d \in done : d.round <= rec.round
        BY <1>8, <1>9
    <2>2. /\ \A d \in done' : d.round <= rec.round
          /\ \A r \in 0..rec.round : RoundIds(head, done', r) = RoundIds(head, done, r)
          /\ \A r \in 0..rec.round : WholeRound(head, done, r) => WholeRound(head, done', r)
        <3>1. rec \in Lines(head, Fates) /\ done \in SUBSET Lines(head, Fates)
            BY <1>2, <1>10 DEF S
        <3>2. /\ \A d \in Noted(done, rec) : d.round <= rec.round
              /\ \A r \in 0..rec.round : RoundIds(head, Noted(done, rec), r) = RoundIds(head, done, r)
              /\ \A r \in 0..rec.round : WholeRound(head, done, r) => WholeRound(head, Noted(done, rec), r)
            BY <2>1, <3>1, NotedKeeps
        <3> QED
            BY <3>2, <1>1
    <2> QED
        BY <2>2, <1>8, <1>10
<1>12. InMemory'
    BY <1>4, <1>5, <1>7 DEF InMemory, Away
<1>13. AllTruthful'
    BY <1>1, <1>4 DEF AllTruthful
<1>14. Rounds'
    <2>1. ids = RoundIds(head, done, rnd) /\ \A r \in 0..rnd - 1 : WholeRound(head, done, r)
        BY <1>1 DEF Rounds, Away
    <2>2. \A r \in 0..rnd - 1 : r \in 0..rnd
        BY <1>10
    <2>3. ids' = RoundIds(head, done', rnd) /\ \A r \in 0..rnd - 1 : WholeRound(head, done', r)
        BY <1>1, <1>11, <2>1, <2>2
    <2>4. InTurn(head, Loaded(journal))
        BY DEF Rounds
    <2> QED
        BY <1>1, <1>4, <1>5, <2>3, <2>4 DEF Rounds
<1>15. CASE cur.session /\ cur.rep < head.reps
    <2>1. cur' = [cur EXCEPT !.rep = @ + 1] /\ pc' \in {"again", "finish"}
        BY <1>15 DEF Sync
    <2>2. /\ cur'.case = cur.case /\ cur'.engine = cur.engine /\ cur'.rep = cur.rep + 1
          /\ cur'.session = cur.session /\ cur.rep \in Int
          /\ cur' \in [case : CasesOf(head) \cup {"none"}, engine : Team(head) \cup {"none"}, rep : Int,
                       session : BOOLEAN, reply : Told, rejected : BOOLEAN]
        BY <2>1 DEF LaneTypes
    <2>3. cur.rep + 1 \in Reps(head)
        <3>1. cur.rep \in Reps(head) /\ head.reps \in Nat
            BY <1>1, LaneSettings DEF AtWork, Working, Setting
        <3> QED
            BY <3>1, <2>2, <1>15 DEF Reps
    <2>4. LaneTypes'
        BY <1>1, <2>1, <2>2 DEF LaneTypes, LanePCs, Working, Away
    <2>5. AtWork'
        BY <1>1, <1>2, <1>11, <1>15, <2>1, <2>2, <2>3 DEF AtWork, Working
    <2> QED
        BY <1>1, <1>12, <1>13, <1>14, <2>4, <2>5
<1>16. CASE ~ (cur.session /\ cur.rep < head.reps)
    <2>1. cur' = NoCur /\ pc' = "next"
        BY <1>16 DEF Sync
    <2>2. LaneTypes'
        BY <1>1, <2>1, NoCurIs DEF LaneTypes, LanePCs, Away
    <2>3. AtWork'
        BY <1>1, <1>2, <2>1 DEF AtWork, Working
    <2> QED
        BY <1>1, <1>12, <1>13, <1>14, <2>2, <2>3
<1> QED
    BY <1>15, <1>16


LEMMA LaneStartKeeps == ASSUME LaneInv, Start PROVE LaneInv'
<1> USE DEF LaneInv
<1>1. /\ pc = "off" /\ procs \subseteq Beyond /\ procs' \subseteq Beyond
      /\ UNCHANGED <<head, pins, cur, rec, journal, procs>>
    BY DEF Start, AtWork
<1>2. pc' \in {"refused", "broken", "next"}
    BY DEF Start
<1>3. Kept = journal /\ Kept' = journal
    BY <1>1, <1>2 DEF Kept
<1>4. AllTruthful' /\ AtWork' /\ OnceEach(journal)'
    BY <1>1, <1>2 DEF AllTruthful, AtWork, Working
<1>5. InTurn(head, Loaded(journal))
    BY DEF Rounds
<1>6. CASE pc' = "next"
    <2>1. pins = 0 /\ rnd' = 0 /\ ids' = Planned /\ done' = Loaded(journal)
        BY <1>6 DEF Start, SamePins
    <2>2. LaneTypes'
        BY <1>1, <1>6, <2>1, LaneSettings DEF LaneTypes, LanePCs, Turns
    <2>3. InMemory'
        BY <1>3, <1>6, <2>1 DEF InMemory, Away
    <2>4. Rounds'
        BY <1>1, <1>3, <1>5, <1>6, <2>1 DEF Rounds, RoundIds, Planned, CasesOf
    <2> QED
        BY <1>4, <2>2, <2>3, <2>4
<1>7. CASE pc' \in {"refused", "broken"}
    <2>1. rnd' = rnd
        BY <1>7 DEF Start
    <2>2. LaneTypes'
        BY <1>1, <1>7, <2>1 DEF LaneTypes, LanePCs, Away
    <2>3. InMemory'
        BY <1>1, <1>7 DEF InMemory, Away, Start
    <2>4. Rounds'
        BY <1>1, <1>3, <1>5, <1>7 DEF Rounds, Away
    <2> QED
        BY <1>4, <2>2, <2>3, <2>4
<1> QED
    BY <1>2, <1>6, <1>7

\* A record of a later round is there only once this one is whole, and then
\* nothing of it is open.
LEMMA NothingOpenBelow ==
    ASSUME LaneInv, pc \notin Away, NEW x \in ItemsOf(head, ids), Open(x)
    PROVE  \A d \in done : d.round <= rnd
<1> USE DEF LaneInv
<1>1. /\ ids = RoundIds(head, done, rnd) /\ InTurn(head, done)
      /\ done \in SUBSET Lines(head, Fates) /\ rnd \in Nat
    BY IdsArePlanned DEF Rounds, InMemory, LaneTypes, Turns
<1> SUFFICES ASSUME NEW d \in done, ~ (d.round <= rnd) PROVE FALSE
    OBVIOUS
<1>2. d.round \in Nat /\ rnd \in 0..d.round - 1
    BY <1>1 DEF Lines, Turns
<1>3. WholeRound(head, done, rnd)
    BY <1>1, <1>2 DEF InTurn
<1>4. x.case \in ids /\ x.engine \in Team(head) /\ x.rep \in Reps(head) /\ (x.session => head.lane = "engine")
    BY DEF ItemsOf
<1>5. ASSUME NEW rep \in Reps(head) PROVE <<x.case, x.engine, rep, rnd>> \in Keys
    <2>1. PICK b \in done : KeyOf(b) = <<x.case, x.engine, rep, rnd>>
        BY <1>1, <1>3, <1>4 DEF WholeRound
    <2> QED
        BY <2>1 DEF Keys
<1>6. CASE x.session
    <2>1. 0..head.reps = Reps(head)
        BY <1>4, <1>6 DEF Reps
    <2> QED
        BY <1>5, <1>6, <2>1 DEF Open
<1>7. CASE ~ x.session
    BY <1>4, <1>5, <1>7 DEF Open
<1> QED
    BY <1>6, <1>7

\* A round with nothing open is whole.
LEMMA NothingOpen ==
    ASSUME LaneInv, pc \notin Away, \A x \in ToSet(Order) : ~ Open(x)
    PROVE  WholeRound(head, done, rnd)
<1> USE DEF LaneInv
<1>1. ids = RoundIds(head, done, rnd) /\ ids \in SUBSET CasesOf(head)
    BY IdsArePlanned DEF Rounds
<1>2. Whole(head, ids, Order) /\ Order \in Seq(ItemsOf(head, ids))
    BY <1>1, LaneSettings, OrderIs
<1>3. ASSUME NEW case \in ids, NEW e \in Team(head), NEW rep \in Reps(head)
      PROVE  \E d \in done : KeyOf(d) = <<case, e, rep, rnd>>
    <2>1. PICK x \in ToSet(Order) : Covers(x, case, e, rep)
        BY <1>2 DEF Whole
    <2>2. x \in ItemsOf(head, ids) /\ ~ Open(x)
        BY <1>2 DEF ToSet
    <2>3. x.case = case /\ x.engine = e /\ (x.session \/ x.rep = rep)
        BY <2>1 DEF Covers
    <2>4. <<case, e, rep, rnd>> \in Keys
        <3>1. CASE x.session
            <4>1. rep \in 0..head.reps
                BY <2>2, <3>1 DEF ItemsOf, Reps
            <4> QED
                BY <4>1, <3>1, <2>2, <2>3 DEF Open
        <3>2. CASE ~ x.session
            BY <3>2, <2>2, <2>3 DEF Open
        <3> QED
            BY <3>1, <3>2
    <2> QED
        BY <2>4 DEF Keys
<1> QED
    BY <1>1, <1>3 DEF WholeRound

LEMMA NextKeeps == ASSUME LaneInv, NextAttempt PROVE LaneInv'
<1> USE DEF LaneInv
<1>1. /\ pc = "next" /\ pc \notin Away /\ pc' \in {"round", "condition"}
      /\ UNCHANGED <<head, pins, rnd, ids, done, rec, journal, procs>>
    BY DEF NextAttempt, Away
<1>2. Kept = journal /\ Kept' = journal /\ procs \subseteq Beyond
    BY <1>1 DEF Kept, AtWork
<1>3. InMemory' /\ AllTruthful' /\ OnceEach(journal)'
    BY <1>1, <1>2 DEF InMemory, AllTruthful, Away
<1>4. /\ InTurn(head, Loaded(journal)) /\ ids = RoundIds(head, done, rnd)
      /\ \A r \in 0..rnd - 1 : WholeRound(head, done, r)
    BY <1>1 DEF Rounds
<1>5. ids \in SUBSET CasesOf(head) /\ Order \in Seq(ItemsOf(head, ids))
    BY <1>1, IdsArePlanned, LaneSettings, OrderIs
<1>6. CASE pc' = "round"
    <2>1. cur' = NoCur /\ \A i \in DOMAIN Order : ~ Open(Order[i])
        BY <1>6 DEF NextAttempt
    <2>2. WholeRound(head, done, rnd)
        BY <1>1, <2>1, NothingOpen DEF ToSet
    <2>3. LaneTypes'
        BY <1>1, <1>6, <2>1, NoCurIs DEF LaneTypes, LanePCs, Away
    <2>4. Rounds'
        BY <1>1, <1>2, <1>4, <1>6, <2>2 DEF Rounds
    <2>5. AtWork'
        BY <1>1, <1>2, <1>6 DEF AtWork, Working
    <2> QED
        BY <1>3, <2>3, <2>4, <2>5
<1>7. CASE pc' = "condition"
    <2>1. PICK i \in DOMAIN Order : Open(Order[i]) /\ cur' = Attempt(Order[i])
        BY <1>7 DEF NextAttempt
    <2> DEFINE x == Order[i]
    <2>2. x \in ItemsOf(head, ids)
        BY <1>5
    <2> HIDE DEF x
    <2>3. \A d \in done : d.round <= rnd
        BY <1>1, <2>1, <2>2, NothingOpenBelow DEF x
    <2>4. /\ x.case \in ids /\ x.engine \in Team(head) /\ x.rep \in Reps(head) /\ x.rep \in Int
          /\ x.session \in BOOLEAN /\ (x.session => Kind[x.engine] # "zpq")
        BY <2>2 DEF ItemsOf, Reps
    <2>5. cur' = [case |-> x.case, engine |-> x.engine, rep |-> x.rep, session |-> x.session,
                  reply |-> NoReply, rejected |-> FALSE]
        BY <2>1 DEF x, Attempt
    <2>6. LaneTypes'
        <3>1. cur' \in [case : CasesOf(head) \cup {"none"}, engine : Team(head) \cup {"none"}, rep : Int,
                        session : BOOLEAN, reply : Told, rejected : BOOLEAN]
            BY <1>5, <2>4, <2>5 DEF Told
        <3> QED
            BY <1>1, <1>7, <3>1 DEF LaneTypes, LanePCs, Working, Away
    <2>7. Rounds'
        BY <1>1, <1>2, <1>4, <1>7 DEF Rounds
    <2>8. AtWork'
        <3>1. ~ x.session => <<x.case, x.engine, x.rep, rnd>> \notin Keys
            BY <2>1 DEF Open, x
        <3>2. Keys' = Keys
            BY <1>1 DEF Keys
        <3> QED
            BY <1>1, <1>2, <1>7, <2>3, <2>4, <2>5, <3>1, <3>2 DEF AtWork, Working
    <2> QED
        BY <1>3, <2>6, <2>7, <2>8
<1> QED
    BY <1>1, <1>6, <1>7

LEMMA EndRoundKeeps == ASSUME LaneInv, EndRound PROVE LaneInv'
<1> USE DEF LaneInv
<1>1. /\ pc = "round" /\ pc' \in {"next", "ended"}
      /\ UNCHANGED <<head, pins, done, cur, rec, journal, procs>>
    BY DEF EndRound
<1>2. Kept = journal /\ Kept' = journal /\ procs \subseteq Beyond
    BY <1>1 DEF Kept, AtWork
<1>3. InMemory' /\ AllTruthful' /\ AtWork' /\ OnceEach(journal)'
    BY <1>1, <1>2 DEF InMemory, AllTruthful, AtWork, Working, Away
<1>4. /\ InTurn(head, Loaded(journal)) /\ ids = RoundIds(head, done, rnd)
      /\ \A r \in 0..rnd - 1 : WholeRound(head, done, r)
      /\ WholeRound(head, done, rnd)
    BY <1>1 DEF Rounds, Away
<1>5. rnd \in Nat /\ rnd \in Turns /\ MaxRounds \in Nat
    BY LaneAssumption DEF LaneTypes, Turns
<1>6. CASE pc' = "next"
    <2>1. rnd' = rnd + 1 /\ ids' = Disturbed(head.psi, done, rnd) /\ rnd + 1 < MaxRounds
        BY <1>1, <1>6 DEF EndRound, MoreRounds, NextRound
    <2>2. ids' = RoundIds(head, done, rnd + 1)
        BY <1>5, <2>1 DEF RoundIds
    <2>3. \A r \in 0..rnd : WholeRound(head, done, r)
        BY <1>4, <1>5
    <2>4. LaneTypes'
        BY <1>1, <1>5, <1>6, <2>1 DEF LaneTypes, LanePCs, Away, Turns
    <2>5. Rounds'
        BY <1>1, <1>2, <1>4, <1>5, <1>6, <2>1, <2>2, <2>3 DEF Rounds
    <2> QED
        BY <1>3, <2>4, <2>5
<1>7. CASE pc' = "ended"
    <2>1. rnd' = rnd /\ ids' = ids /\ (Disturbed(head.psi, done, rnd) = {} \/ rnd + 1 >= MaxRounds)
        BY <1>1, <1>5, <1>7 DEF EndRound, MoreRounds
    <2>2. LaneTypes'
        BY <1>1, <1>7, <2>1 DEF LaneTypes, LanePCs, Away
    <2>3. Rounds'
        BY <1>1, <1>2, <1>4, <1>7, <2>1 DEF Rounds
    <2> QED
        BY <1>3, <2>2, <2>3
<1> QED
    BY <1>1, <1>6, <1>7

LEMMA CrashKeeps == ASSUME LaneInv, Crash PROVE LaneInv'
<1> USE DEF LaneInv
<1>1. pc' = "off" /\ rnd' = 0 /\ done' = {} /\ cur' = NoCur /\ procs' \subseteq Beyond /\ UNCHANGED <<head, pins>>
    BY DEF Crash
<1>2. journal' = Kept \/ journal' = journal
    BY DEF Crash, Kept
<1>3. /\ journal' \in Seq(Lines(head, Fates)) /\ InTurn(head, Loaded(journal'))
      /\ (\A i \in DOMAIN journal' : Truthful(journal'[i])) /\ OnceEach(journal')
    <2>1. CASE journal' = journal
        BY <2>1 DEF LaneTypes, Rounds, AllTruthful
    <2>2. CASE journal' = Kept /\ pc = "sync"
        <3>1. Kept \in Seq(Lines(head, Fates)) /\ InTurn(head, Loaded(Kept))
            BY KeptIs DEF Rounds
        <3>2. journal \in Seq(Lines(head, Fates)) /\ journal # <<>> /\ Kept = Front(journal)
            BY <2>2 DEF LaneTypes, InMemory, Kept
        <3>3. \A i \in DOMAIN Kept : i \in DOMAIN journal /\ Kept[i] = journal[i]
            BY <3>2 DEF Front
        <3>4. \A i \in DOMAIN Kept : Truthful(Kept[i])
            BY <3>3 DEF AllTruthful
        <3>5. OnceEach(Kept)
            BY <3>3 DEF OnceEach
        <3> QED
            BY <2>2, <3>1, <3>4, <3>5
    <2> QED
        BY <1>2, <2>1, <2>2 DEF Kept
<1>4. Kept' = journal'
    BY <1>1 DEF Kept
<1>5. LaneTypes'
    BY <1>1, <1>3, NoCurIs, LaneSettings DEF LaneTypes, LanePCs, Away, Turns
<1>6. InMemory' /\ AllTruthful' /\ AtWork'
    BY <1>1, <1>3 DEF InMemory, AllTruthful, AtWork, Away, Working
<1>7. Rounds'
    BY <1>1, <1>3, <1>4 DEF Rounds, Away
<1> QED
    BY <1>3, <1>5, <1>6, <1>7

LEMMA RepinKeeps == ASSUME LaneInv, Repin PROVE LaneInv'
<1> USE DEF LaneInv
<1>1. pc = "off" /\ UNCHANGED <<head, pc, rnd, ids, done, cur, rec, journal, procs>>
    BY DEF Repin
<1>2. LaneTypes'
    BY <1>1 DEF LaneTypes, Away
<1>3. Kept' = Kept /\ Keys' = Keys
    BY <1>1 DEF Kept, Keys
<1> QED
    BY <1>1, <1>2, <1>3 DEF InMemory, AllTruthful, Rounds, AtWork, Away, Working

LEMMA LeftoverKeeps == ASSUME LaneInv, NEW g \in left, Leftover(g) PROVE LaneInv'
<1> USE DEF LaneInv
<1>1. UNCHANGED <<head, pins, pc, rnd, ids, done, cur, rec, journal, procs>>
    BY DEF Leftover, LeftEnds, LeftSwept
<1>2. Kept' = Kept /\ Keys' = Keys
    BY <1>1 DEF Kept, Keys
<1> QED
    BY <1>1, <1>2 DEF LaneTypes, InMemory, AllTruthful, Rounds, AtWork

LEMMA LaneStutters == ASSUME LaneInv, UNCHANGED laneVars PROVE LaneInv'
<1> USE DEF LaneInv, laneVars
<1>1. Kept' = Kept /\ Keys' = Keys
    BY DEF Kept, Keys
<1> QED
    BY <1>1 DEF LaneTypes, InMemory, AllTruthful, Rounds, AtWork

LEMMA LaneStep == LaneInv /\ [LaneNext]_laneVars => LaneInv'
    BY LaneStartKeeps, NextKeeps, ConditionKeeps, SpawnKeeps, ReapKeeps, SweepKeeps, FinishKeeps, JudgeKeeps,
       WriteKeeps, SyncKeeps, RejectAgainKeeps, EndRoundKeeps, CrashKeeps, RepinKeeps, LeftoverKeeps, LaneStutters
    DEF LaneNext, Lane, Stopped

LEMMA LaneAlways == LaneSpec => []LaneInv
    BY LaneInitInv, LaneStep, PTL DEF LaneSpec

\* What the journal holds is true of the answers, of the pins and of memory.
THEOREM LaneJournalHolds == LaneSpec => []JournalHolds
<1>1. LaneInv => JournalHolds
    <2> SUFFICES ASSUME LaneInv PROVE JournalHolds
        OBVIOUS
    <2> USE DEF LaneInv
    <2>1. ASSUME NEW i \in DOMAIN journal
          PROVE  /\ journal[i].answer # "none" =>
                      (journal[i].validation = "ok" <=> JudgeSays(journal[i].engine, journal[i].answer))
                 /\ journal[i].pin = 0
        <3>1. Truthful(journal[i])
            BY DEF AllTruthful
        <3>2. journal[i] \in Lines(head, Fates)
            BY DEF LaneTypes
        <3> QED
            BY <3>1, <3>2 DEF Truthful, Lines
    <2>2. \A a, b \in done : KeyOf(a) = KeyOf(b) => a = b
        BY KeptIs, LoadedIsOfLines DEF InMemory
    <2>3. pc \in {"next", "write", "ended"} => done = Loaded(journal)
        BY DEF InMemory, Kept, Away
    <2> QED
        BY <2>1, <2>2, <2>3 DEF JournalHolds
<1> QED
    BY <1>1, LaneAlways, PTL


-----------------------------------------------------------------------------
(* Extremes of finite sets, ranges, and the middle of some times.           *)

LEMMA MaxIs ==
    ASSUME NEW S \in SUBSET Int, IsFiniteSet(S), S # {}
    PROVE  Max(S) \in S /\ \A y \in S : y <= Max(S)
<1> DEFINE above(x) == {y \in S : y > x}
           T == {Cardinality(above(x)) : x \in S}
<1>0. ASSUME NEW x \in S, NEW y \in S, y > x
      PROVE  above(y) \subseteq above(x) /\ y \in above(x) /\ y \notin above(y)
    <2>1. x \in Int /\ y \in Int
        OBVIOUS
    <2>2. ASSUME NEW z \in S, z > y PROVE z > x
        <3>1. z \in Int
            OBVIOUS
        <3> QED BY <1>0, <2>1, <2>2, <3>1
    <2>3. ~ (y > y)
        BY <2>1
    <2> QED BY <1>0, <2>2, <2>3
<1>1. \A x \in S : IsFiniteSet(above(x)) /\ Cardinality(above(x)) \in Nat
    BY FS_Subset, FS_CardinalityType
<1>2. PICK n \in T : \A m \in T : n <= m
    <2>1. T \subseteq Nat /\ T # {}
        <3> HIDE DEF above
        <3> QED BY <1>1
    <2> HIDE DEF T
    <2> QED BY <2>1, LeastNat
<1>3. PICK x \in S : n = Cardinality(above(x))
    OBVIOUS
<1>4. ASSUME NEW y \in S, y > x PROVE FALSE
    <2>1. above(y) \subseteq above(x) /\ y \in above(x) /\ y \notin above(y)
        BY <1>4, <1>0
    <2>2. Cardinality(above(y)) <= Cardinality(above(x)) /\ Cardinality(above(y)) # Cardinality(above(x))
        BY <2>1, <1>1, FS_Subset
    <2>3. Cardinality(above(y)) \in Nat /\ Cardinality(above(x)) \in Nat /\ Cardinality(above(x)) <= Cardinality(above(y))
        BY <1>1, <1>2, <1>3
    <2> HIDE DEF above
    <2> QED
        BY <2>2, <2>3
<1>5. \A y \in S : x >= y
    BY <1>4
<1> QED
    BY <1>5 DEF Max

LEMMA MinIs ==
    ASSUME NEW S \in SUBSET Int, IsFiniteSet(S), S # {}
    PROVE  Min(S) \in S /\ \A y \in S : Min(S) <= y
<1> DEFINE below(x) == {y \in S : y < x}
           T == {Cardinality(below(x)) : x \in S}
<1>0. ASSUME NEW x \in S, NEW y \in S, y < x
      PROVE  below(y) \subseteq below(x) /\ y \in below(x) /\ y \notin below(y)
    <2>1. x \in Int /\ y \in Int
        OBVIOUS
    <2>2. ASSUME NEW z \in S, z < y PROVE z < x
        <3>1. z \in Int
            OBVIOUS
        <3> QED BY <1>0, <2>1, <2>2, <3>1
    <2>3. ~ (y < y)
        BY <2>1
    <2> QED BY <1>0, <2>2, <2>3
<1>1. \A x \in S : IsFiniteSet(below(x)) /\ Cardinality(below(x)) \in Nat
    BY FS_Subset, FS_CardinalityType
<1>2. PICK n \in T : \A m \in T : n <= m
    <2>1. T \subseteq Nat /\ T # {}
        <3> HIDE DEF below
        <3> QED BY <1>1
    <2> HIDE DEF T
    <2> QED BY <2>1, LeastNat
<1>3. PICK x \in S : n = Cardinality(below(x))
    OBVIOUS
<1>4. ASSUME NEW y \in S, y < x PROVE FALSE
    <2>1. below(y) \subseteq below(x) /\ y \in below(x) /\ y \notin below(y)
        BY <1>4, <1>0
    <2>2. Cardinality(below(y)) <= Cardinality(below(x)) /\ Cardinality(below(y)) # Cardinality(below(x))
        BY <2>1, <1>1, FS_Subset
    <2>3. Cardinality(below(y)) \in Nat /\ Cardinality(below(x)) \in Nat /\ Cardinality(below(x)) <= Cardinality(below(y))
        BY <1>1, <1>2, <1>3
    <2> HIDE DEF below
    <2> QED
        BY <2>2, <2>3
<1>5. \A y \in S : x <= y
    BY <1>4
<1> QED
    BY <1>5 DEF Min

\* What a function takes on a finite set is a finite set.
LEMMA FiniteImage ==
    ASSUME NEW S, IsFiniteSet(S), NEW f, f = [x \in S |-> f[x]]
    PROVE  IsFiniteSet({f[x] : x \in S})
<1> DEFINE T == {f[x] : x \in S}
<1>1. f \in Surjection(S, T)
    BY DEF Surjection
<1> QED
    BY <1>1, FS_Surjection

LEMMA FiniteRange ==
    ASSUME NEW S, NEW q \in Seq(S)
    PROVE  IsFiniteSet(ToSet(q)) /\ IsFiniteSet(DOMAIN q)
<1>1. IsFiniteSet(DOMAIN q)
    BY FS_Interval
<1>2. q = [x \in DOMAIN q |-> q[x]]
    OBVIOUS
<1> QED
    BY <1>1, <1>2, FiniteImage DEF ToSet

\* The k-th smallest of some times: fewer than k are smaller, and k are not larger.
Standing(rs, lines, t, k) ==
    /\ Cardinality({i \in lines : rs[i].elapsed < t}) < k
    /\ k <= Cardinality({i \in lines : rs[i].elapsed <= t})

\* There is a k-th smallest of the times of at least k lines.
LEMMA NthTimeIs ==
    ASSUME NEW rs, NEW lines, IsFiniteSet(lines), \A i \in lines : rs[i].elapsed \in Int,
           NEW k \in Nat \ {0}, k <= Cardinality(lines)
    PROVE  NthTime(rs, lines, k) \in {rs[i].elapsed : i \in lines} /\ Standing(rs, lines, NthTime(rs, lines, k), k)
<1> DEFINE time(i) == rs[i].elapsed
           S == {time(i) : i \in lines}
           upTo(t) == {i \in lines : time(i) <= t}
           before(t) == {i \in lines : time(i) < t}
           T == {t \in S : k <= Cardinality(upTo(t))}
<1>1. IsFiniteSet(S) /\ S \in SUBSET Int
    <2> DEFINE f == [i \in lines |-> time(i)]
    <2>1. f = [i \in lines |-> f[i]] /\ {f[i] : i \in lines} = S
        OBVIOUS
    <2> HIDE DEF f
    <2> QED
        BY <2>1, FiniteImage
<1>2. S # {}
    <2>1. lines # {}
        BY FS_EmptySet
    <2> QED
        BY <2>1
<1>3. T # {}
    <2>1. Max(S) \in S /\ \A y \in S : y <= Max(S)
        BY <1>1, <1>2, MaxIs
    <2>2. upTo(Max(S)) = lines
        BY <2>1
    <2> QED
        BY <2>1, <2>2
<1>4. IsFiniteSet(T) /\ T \in SUBSET Int
    BY <1>1, FS_Subset
<1> DEFINE t == Min(T)
<1>5. t \in T /\ \A y \in T : t <= y
    BY <1>3, <1>4, MinIs
<1> HIDE DEF t
<1>6. Cardinality(before(t)) < k
    <2> SUFFICES ASSUME ~ (Cardinality(before(t)) < k) PROVE FALSE
        OBVIOUS
    <2> DEFINE U == {time(i) : i \in before(t)}
    <2>1. IsFiniteSet(before(t)) /\ Cardinality(before(t)) \in Nat
        BY FS_Subset, FS_CardinalityType
    <2>2. before(t) # {}
        BY <2>1, FS_EmptySet
    <2>3. U # {} /\ U \in SUBSET S
        BY <2>2
    <2>4. IsFiniteSet(U) /\ U \in SUBSET Int
        BY <2>3, <1>1, FS_Subset
    <2> DEFINE u == Max(U)
    <2>5. u \in U /\ \A y \in U : y <= u
        BY <2>3, <2>4, MaxIs
    <2> HIDE DEF u
    <2>6. u < t /\ u \in S
        BY <2>5, <2>3
    <2>7. upTo(u) = before(t)
        <3>1. \A i \in before(t) : time(i) <= u
            BY <2>5
        <3>2. \A i \in lines : time(i) \in Int
            OBVIOUS
        <3> HIDE DEF time
        <3> QED
            BY <3>1, <3>2, <2>6, <1>1, <1>5
    <2>8. u \in T
        BY <2>1, <2>6, <2>7
    <2> QED
        BY <2>6, <2>8, <1>5, <1>4
<1>7. \E y \in S : Cardinality({i \in lines : rs[i].elapsed < y}) < k /\ k <= Cardinality({i \in lines : rs[i].elapsed <= y})
    BY <1>5, <1>6
<1> QED
    BY <1>7 DEF NthTime, Standing

\* There is one only.
LEMMA OneStands ==
    ASSUME NEW rs, NEW lines, IsFiniteSet(lines), \A i \in lines : rs[i].elapsed \in Int, NEW k \in Nat,
           NEW t \in Int, NEW u \in Int, Standing(rs, lines, t, k), Standing(rs, lines, u, k), t < u
    PROVE  FALSE
<1> DEFINE upTo == {i \in lines : rs[i].elapsed <= t}
           before == {i \in lines : rs[i].elapsed < u}
<1>1. upTo \subseteq before /\ before \subseteq lines
    OBVIOUS
<1>2. IsFiniteSet(before)
    BY <1>1, FS_Subset
<1>3. Cardinality(upTo) <= Cardinality(before) /\ Cardinality(upTo) \in Nat /\ Cardinality(before) \in Nat
    BY <1>1, <1>2, FS_Subset, FS_CardinalityType
<1>4. k <= Cardinality(upTo) /\ Cardinality(before) < k
    BY DEF Standing
<1> QED
    BY <1>3, <1>4

\* As many records as lines, when no two lines are the same record.
LEMMA InjectiveImage ==
    ASSUME NEW L, IsFiniteSet(L), NEW q, \A i, j \in L : q[i] = q[j] => i = j
    PROVE  IsFiniteSet({q[i] : i \in L}) /\ Cardinality({q[i] : i \in L}) = Cardinality(L)
<1> DEFINE f == [i \in L |-> q[i]]
           T == {q[i] : i \in L}
<1>1. f \in [L -> T] /\ \A i \in L : f[i] = q[i]
    OBVIOUS
<1>2. \A x \in T : \E i \in L : f[i] = x
    OBVIOUS
<1>3. \A i, j \in L : f[i] = f[j] => i = j
    BY <1>1
<1> HIDE DEF f, T
<1>4. f \in Bijection(L, T) /\ f \in Surjection(L, T)
    BY <1>1, <1>2, <1>3 DEF Bijection, Injection, IsInjective, Surjection
<1>5. IsFiniteSet(T)
    BY <1>4, FS_Surjection
<1>6. Cardinality(T) = Cardinality(L)
    BY <1>4, <1>5, FS_Bijection DEF ExistsBijection
<1> QED
    BY <1>5, <1>6 DEF T

\* Records of which half lies on either side: the median of their lines.
LEMMA HalfwayIs ==
    ASSUME NEW rs, NEW lines, IsFiniteSet(lines), lines # {}, \A i \in lines : rs[i].elapsed \in Int,
           \A i, j \in lines : rs[i] = rs[j] => i = j
    PROVE  \A z \in Halfway({rs[i] : i \in lines}) : z = Median2(rs, lines)
<1> DEFINE S == {rs[i] : i \in lines}
           n == Cardinality(S)
           times == {r.elapsed : r \in S}
           below(t) == 2 * Cardinality({r \in S : r.elapsed < t})
           upTo(t) == 2 * Cardinality({r \in S : r.elapsed <= t})
           before(t) == {i \in lines : rs[i].elapsed < t}
           within(t) == {i \in lines : rs[i].elapsed <= t}
           k == (n + 1) \div 2
           m == (n + 2) \div 2
<1>1. n = Cardinality(lines) /\ n \in Nat \ {0}
    <2>1. n = Cardinality(lines)
        BY InjectiveImage
    <2> QED
        BY <2>1, FS_CardinalityType, FS_EmptySet
<1>2. times = {rs[i].elapsed : i \in lines} /\ times \in SUBSET Int
    OBVIOUS
<1>3. ASSUME NEW t \in Int
      PROVE  /\ below(t) = 2 * Cardinality(before(t)) /\ upTo(t) = 2 * Cardinality(within(t))
             /\ Cardinality(before(t)) \in Nat /\ Cardinality(within(t)) \in Nat
    <2>1. IsFiniteSet(before(t)) /\ IsFiniteSet(within(t))
        BY FS_Subset
    <2>2. {r \in S : r.elapsed < t} = {rs[i] : i \in before(t)} /\ {r \in S : r.elapsed <= t} = {rs[i] : i \in within(t)}
        OBVIOUS
    <2>3. Cardinality({rs[i] : i \in before(t)}) = Cardinality(before(t))
        BY <2>1, InjectiveImage
    <2>4. Cardinality({rs[i] : i \in within(t)}) = Cardinality(within(t))
        BY <2>1, InjectiveImage
    <2> QED
        BY <2>1, <2>2, <2>3, <2>4, FS_CardinalityType
<1>4. /\ k \in Nat \ {0} /\ k <= n /\ m \in Nat \ {0} /\ m <= n
      /\ n = 2 * k \/ n = 2 * k - 1
      /\ m = k \/ m = k + 1
      /\ n = 2 * k <=> m = k + 1
    <2> HIDE DEF n
    <2> QED
        BY <1>1
<1>5. ASSUME NEW t \in times, below(t) < n, n <= upTo(t) PROVE Standing(rs, lines, t, k)
    <2>1. t \in Int
        BY <1>2
    <2>2. /\ below(t) = 2 * Cardinality(before(t)) /\ upTo(t) = 2 * Cardinality(within(t))
          /\ Cardinality(before(t)) \in Nat /\ Cardinality(within(t)) \in Nat
        BY <2>1, <1>3
    <2> HIDE DEF n, k, m, below, upTo, before, within
    <2>3. Cardinality(before(t)) < k /\ k <= Cardinality(within(t))
        BY <2>2, <1>1, <1>4, <1>5
    <2> QED
        BY <2>3 DEF Standing, before, within
<1>6. ASSUME NEW t \in times, below(t) <= n, n < upTo(t) PROVE Standing(rs, lines, t, m)
    <2>1. t \in Int
        BY <1>2
    <2>2. /\ below(t) = 2 * Cardinality(before(t)) /\ upTo(t) = 2 * Cardinality(within(t))
          /\ Cardinality(before(t)) \in Nat /\ Cardinality(within(t)) \in Nat
        BY <2>1, <1>3
    <2> HIDE DEF n, k, m, below, upTo, before, within
    <2>3. Cardinality(before(t)) < m /\ m <= Cardinality(within(t))
        BY <2>2, <1>1, <1>4, <1>6
    <2> QED
        BY <2>3 DEF Standing, before, within
<1>7. ASSUME NEW t \in times, NEW o \in {k, m}, Standing(rs, lines, t, o)
      PROVE  t = NthTime(rs, lines, o)
    <2> DEFINE u == NthTime(rs, lines, o)
    <2>1. o \in Nat \ {0} /\ o <= Cardinality(lines)
        BY <1>1, <1>4
    <2>2. u \in times /\ Standing(rs, lines, u, o)
        BY <2>1, <1>2, NthTimeIs
    <2>3. t \in Int /\ u \in Int /\ o \in Nat
        BY <2>1, <2>2, <1>2
    <2> HIDE DEF u, times, k, m
    <2>4. ~ (t < u) /\ ~ (u < t)
        BY <2>2, <2>3, <1>7, OneStands
    <2> QED
        BY <2>3, <2>4 DEF u
<1>8. Median2(rs, lines) = NthTime(rs, lines, k) + NthTime(rs, lines, m)
    BY <1>1 DEF Median2
<1>9. /\ \A t \in NotLate(S) : t \in times /\ below(t) < n /\ n <= upTo(t)
      /\ \A t \in NotEarly(S) : t \in times /\ below(t) <= n /\ n < upTo(t)
    BY DEF NotLate, NotEarly
<1> HIDE DEF times, below, upTo, n, k, m
<1>10. ASSUME NEW z \in Halfway(S) PROVE z = Median2(rs, lines)
    <2>1. PICK lo \in NotLate(S), hi \in NotEarly(S) : z = lo + hi
        BY DEF Halfway
    <2>2. lo = NthTime(rs, lines, k) /\ hi = NthTime(rs, lines, m)
        BY <1>5, <1>6, <1>7, <1>9
    <2> QED
        BY <2>1, <2>2, <1>8
<1> QED
    BY <1>10

\* A median is half the sum of two of the times.
LEMMA MedianIs ==
    ASSUME NEW rs, NEW lines, IsFiniteSet(lines), lines # {}, \A i \in lines : rs[i].elapsed \in Int
    PROVE  \E i, j \in lines : Median2(rs, lines) = rs[i].elapsed + rs[j].elapsed
<1> DEFINE n == Cardinality(lines)
<1>1. n \in Nat \ {0}
    BY FS_CardinalityType, FS_EmptySet
<1> HIDE DEF n
<1>2. /\ (n + 1) \div 2 \in Nat \ {0} /\ (n + 1) \div 2 <= n
      /\ (n + 2) \div 2 \in Nat \ {0} /\ (n + 2) \div 2 <= n
    BY <1>1
<1>3. /\ NthTime(rs, lines, (n + 1) \div 2) \in {rs[i].elapsed : i \in lines}
      /\ NthTime(rs, lines, (n + 2) \div 2) \in {rs[i].elapsed : i \in lines}
    BY <1>2, NthTimeIs DEF n
<1> QED
    BY <1>3 DEF Median2, n


-----------------------------------------------------------------------------
(* A lane at its end.                                                       *)

\* A case with a record in some round has one in every round before, each of
\* which it was disturbed in.
LEMMA EveryRoundBefore ==
    ASSUME NEW g, NEW ds \in SUBSET Lines(g, Fates), InTurn(g, ds), NEW x \in ds
    PROVE  /\ \A r \in 0..x.round : \E b \in ds : b.case = x.case /\ b.round = r
           /\ \A r \in 0..x.round - 1 : x.case \in Disturbed(g.psi, ds, r)
<1>1. \A d \in ds : d.round \in Nat /\ d.case \in RoundIds(g, ds, d.round)
    BY DEF Lines, Turns, InTurn
<1>2. ASSUME NEW r \in Nat, NEW b \in ds, b.case = x.case, b.round = r + 1
      PROVE  x.case \in Disturbed(g.psi, ds, r)
    BY <1>1, <1>2 DEF RoundIds
<1> DEFINE Has(r) == \E b \in ds : b.case = x.case /\ b.round = r
           T == {k \in Nat : k <= x.round /\ ~ Has(x.round - k)}
<1>3. T = {}
    <2> SUFFICES ASSUME T # {} PROVE FALSE
        OBVIOUS
    <2> HIDE DEF Has
    <2>1. PICK k \in T : \A m \in T : k <= m
        BY LeastNat
    <2>2. k # 0
        <3>1. Has(x.round)
            BY DEF Has
        <3>2. x.round - 0 = x.round
            BY <1>1
        <3> QED
            BY <2>1, <3>1, <3>2
    <2> DEFINE r == x.round - k
    <2>3. r \in Nat /\ x.round - (k - 1) = r + 1 /\ k - 1 \in Nat /\ k - 1 <= x.round
        BY <1>1, <2>1, <2>2
    <2>4. Has(r + 1)
        BY <2>1, <2>3
    <2> HIDE DEF r
    <2>5. x.case \in Disturbed(g.psi, ds, r)
        BY <1>2, <2>3, <2>4 DEF Has
    <2>6. Has(r)
        BY <2>5, DisturbedRan DEF Has
    <2> QED
        BY <2>1, <2>6 DEF r
<1>4. \A r \in 0..x.round : Has(r)
    <2> HIDE DEF Has
    <2> TAKE r \in 0..x.round
    <2>1. x.round - r \in Nat /\ x.round - r <= x.round /\ x.round - (x.round - r) = r
        BY <1>1
    <2> QED
        BY <1>3, <2>1
<1>5. ASSUME NEW r \in 0..x.round - 1 PROVE x.case \in Disturbed(g.psi, ds, r)
    <2>1. r \in Nat /\ r + 1 \in 0..x.round
        BY <1>1
    <2>2. Has(r + 1)
        <3> HIDE DEF Has
        <3> QED BY <1>4, <2>1
    <2> QED
        BY <1>2, <2>1, <2>2
<1> QED
    BY <1>4, <1>5

\* What there is at the end: whole rounds, and no record beyond the last.
LEMMA AtTheEnd ==
    ASSUME LaneInv, pc = "ended"
    PROVE  /\ done = Loaded(journal) /\ done \in SUBSET Lines(head, Fates) /\ InTurn(head, done)
           /\ rnd \in Turns
           /\ \A r \in 0..rnd : WholeRound(head, done, r)
           /\ \A d \in done : d.round \in 0..rnd
           /\ Disturbed(head.psi, done, rnd) = {} \/ rnd = head.maxRound
<1> USE DEF LaneInv
<1>1. done = Loaded(journal) /\ done \in SUBSET Lines(head, Fates) /\ InTurn(head, done)
    BY KeptIs DEF InMemory, Kept, Away, Rounds
<1>2. rnd \in Turns /\ rnd \in Nat /\ MaxRounds \in Nat /\ head.maxRound = MaxRounds - 1
    BY LaneSettings DEF LaneTypes, Turns
<1>3. \A r \in 0..rnd : WholeRound(head, done, r)
    BY <1>2 DEF Rounds, Away
<1>4. Disturbed(head.psi, done, rnd) = {} \/ rnd + 1 >= MaxRounds
    BY DEF Rounds
<1>5. ASSUME NEW d \in done PROVE d.round \in 0..rnd
    <2>1. d.round \in Turns
        BY <1>1 DEF Lines
    <2> SUFFICES ASSUME d.round > rnd PROVE FALSE
        BY <2>1, <1>2 DEF Turns
    <2>2. rnd \in 0..d.round - 1
        BY <2>1, <1>2 DEF Turns
    <2>3. d.case \in Disturbed(head.psi, done, rnd)
        BY <1>1, <2>2, EveryRoundBefore
    <2> QED
        BY <2>1, <2>3, <1>2, <1>4 DEF Turns
<1> QED
    BY <1>1, <1>2, <1>3, <1>4, <1>5 DEF Turns

\* Every line of the journal has its key in memory, and memory is of its lines.
LEMMA KeysAtTheEnd ==
    ASSUME LaneInv, pc = "ended"
    PROVE  /\ \A i \in DOMAIN journal : \E d \in done : KeyOf(d) = KeyOf(journal[i])
           /\ \A d \in done : \E i \in DOMAIN journal : d = journal[i]
           /\ \A i \in DOMAIN journal :
                /\ journal[i].case \in CasesOf(head) /\ journal[i].engine \in Team(head)
                /\ journal[i].rep \in Reps(head) /\ journal[i].round \in Turns
                /\ journal[i].status \in Fates /\ journal[i].elapsed \in Int
           /\ journal \in Seq(Lines(head, Fates)) /\ DOMAIN journal = 1..Len(journal) /\ Len(journal) \in Nat
<1>1. journal \in Seq(Lines(head, Fates)) /\ DOMAIN journal = 1..Len(journal) /\ Len(journal) \in Nat
    BY DEF LaneInv, LaneTypes
<1>2. done = Loaded(journal)
    BY AtTheEnd
<1>3. done \subseteq ToSet(journal)
    BY <1>1, <1>2, LoadedIsOfLines
<1>4. \A x \in Lines(head, Fates) :
        /\ x.case \in CasesOf(head) /\ x.engine \in Team(head) /\ x.rep \in Reps(head) /\ x.round \in Turns
        /\ x.status \in Fates /\ x.elapsed \in Int
    BY DEF Lines
<1>5. \A i \in DOMAIN journal : journal[i] \in Lines(head, Fates)
    BY <1>1
<1>6. \A i \in DOMAIN journal : \E d \in done : KeyOf(d) = KeyOf(journal[i])
    BY <1>1, <1>2, LoadedHasEveryKey
<1>7. \A d \in done : \E i \in DOMAIN journal : d = journal[i]
    BY <1>3 DEF ToSet
<1> QED
    BY <1>1, <1>4, <1>5, <1>6, <1>7

LEMMA SomeTeam ==
    ASSUME Setting(head)
    PROVE  /\ \E e \in Team(head) : TRUE
           /\ 1..head.reps \subseteq Reps(head) /\ 1 \in Reps(head) /\ head.reps \in Nat \ {0}
           /\ \A r \in Reps(head) : r >= 1 => r \in 1..head.reps
           /\ IsFiniteSet(Team(head)) /\ IsFiniteSet(CasesOf(head))
<1>1. \E e \in Team(head) : TRUE
    <2>1. head.engines \in Seq(Team(head)) /\ head.engines # <<>>
        BY DEF Setting
    <2> DEFINE q == head.engines
    <2> HIDE DEF q
    <2>2. 1 \in DOMAIN q
        BY <2>1 DEF q
    <2>3. q[1] \in ToSet(q)
        BY <2>2 DEF ToSet
    <2> QED
        BY <2>3 DEF Team, q
<1>2. head.reps \in Nat \ {0}
    BY DEF Setting
<1>3. 1..head.reps \subseteq Reps(head) /\ 1 \in Reps(head) /\ \A r \in Reps(head) : r >= 1 => r \in 1..head.reps
    BY <1>2 DEF Reps
<1>4. IsFiniteSet(Team(head)) /\ IsFiniteSet(CasesOf(head))
    BY FiniteRange DEF Setting, Team, CasesOf
<1> QED
    BY <1>1, <1>2, <1>3, <1>4

LEMMA RanAtTheEnd ==
    ASSUME LaneInv, pc = "ended"
    PROVE  Ran(journal) = Planned
<1>1. Setting(head)
    BY LaneSettings DEF LaneInv
<1>2. ASSUME NEW case \in Planned PROVE case \in Ran(journal)
    <2>1. PICK e \in Team(head) : TRUE
        BY <1>1, SomeTeam
    <2>2. case \in RoundIds(head, done, 0) /\ 1 \in Reps(head) /\ 0 \in 0..rnd
        BY <1>1, SomeTeam, AtTheEnd DEF RoundIds, Planned, CasesOf, Turns
    <2>3. PICK d \in done : KeyOf(d) = <<case, e, 1, 0>>
        BY <2>2, AtTheEnd DEF WholeRound
    <2>4. PICK i \in DOMAIN journal : d = journal[i]
        BY KeysAtTheEnd
    <2>5. journal[i].case = case
        BY <2>3, <2>4 DEF KeyOf
    <2> QED
        BY <2>5 DEF Ran, ToSet
<1>3. \A i \in DOMAIN journal : journal[i].case \in Planned
    BY KeysAtTheEnd DEF Planned, CasesOf
<1> QED
    BY <1>2, <1>3 DEF Ran, ToSet

\* The last round of a case: every rep of every engine is there, it was
\* disturbed in each before, and in that one only if there is no other.
LEMMA LastRound ==
    ASSUME LaneInv, pc = "ended", NEW case \in Planned
    PROVE  LET last == LatestRound(journal, case)
           IN  /\ last \in Nat
               /\ \A i \in DOMAIN journal : journal[i].case = case => journal[i].round <= last
               /\ \A r \in 0..last - 1 : case \in Disturbed(head.psi, done, r)
               /\ case \in Disturbed(head.psi, done, last) => last = head.maxRound
               /\ \A e \in Team(head), rep \in Reps(head) : \E d \in done : KeyOf(d) = <<case, e, rep, last>>
<1> DEFINE S == {r.round : r \in {r \in ToSet(journal) : r.case = case}}
           last == LatestRound(journal, case)
<1>1. S \in SUBSET Turns /\ Turns \in SUBSET Int
    BY KeysAtTheEnd DEF ToSet, Turns
<1>2. S # {}
    <2>1. case \in Ran(journal)
        BY RanAtTheEnd
    <2> QED
        BY <2>1 DEF Ran
<1>3. IsFiniteSet(S)
    <2>1. MaxRounds - 1 \in Int /\ 0 \in Int
        BY LaneAssumption
    <2>2. IsFiniteSet(Turns)
        BY <2>1, FS_Interval DEF Turns
    <2> QED
        BY <1>1, <2>2, FS_Subset
<1>4. last \in S /\ \A y \in S : y <= last
    BY <1>1, <1>2, <1>3, MaxIs DEF LatestRound
<1>5. PICK i \in DOMAIN journal : journal[i].case = case /\ journal[i].round = last
    BY <1>4 DEF ToSet
<1>6. \A j \in DOMAIN journal : journal[j].case = case => journal[j].round <= last
    BY <1>4 DEF ToSet
<1>7. PICK x \in done : x.case = case /\ x.round = last
    BY <1>5, KeysAtTheEnd DEF KeyOf
<1>8. last \in 0..rnd /\ case \in RoundIds(head, done, last) /\ rnd \in Nat
    BY <1>7, AtTheEnd DEF InTurn, Turns
<1> HIDE DEF last, S
<1>9. \A r \in 0..last - 1 : case \in Disturbed(head.psi, done, r)
    BY <1>7, AtTheEnd, EveryRoundBefore
<1>10. \A e \in Team(head), rep \in Reps(head) : \E d \in done : KeyOf(d) = <<case, e, rep, last>>
    BY <1>8, AtTheEnd DEF WholeRound
<1>11. ASSUME case \in Disturbed(head.psi, done, last) PROVE last = head.maxRound
    <2>1. CASE last < rnd
        <3>1. last + 1 \in 0..rnd /\ last + 1 # 0
            BY <2>1, <1>8
        <3>2. case \in RoundIds(head, done, last + 1)
            BY <1>8, <1>11, <3>1 DEF RoundIds
        <3>3. WholeRound(head, done, last + 1)
            BY <3>1, AtTheEnd
        <3>4. PICK e \in Team(head) : TRUE
            BY LaneSettings, SomeTeam DEF LaneInv
        <3>5. PICK d \in done : KeyOf(d) = <<case, e, 1, last + 1>>
            BY <3>2, <3>3, <3>4, LaneSettings, SomeTeam DEF LaneInv, WholeRound
        <3>6. PICK j \in DOMAIN journal : journal[j].case = case /\ journal[j].round = last + 1
            BY <3>5, KeysAtTheEnd DEF KeyOf
        <3> QED
            BY <3>6, <1>6, <1>8
    <2>2. CASE last = rnd
        BY <2>2, <1>11, AtTheEnd
    <2> QED
        BY <2>1, <2>2, <1>8
<1>12. last \in Nat
    BY <1>8
<1> QED
    BY <1>6, <1>9, <1>10, <1>11, <1>12 DEF last


LEMMA AloneOnes ==
    ASSUME LaneInv
    PROVE  \A case : RunOnce(case, "zpq") /\ (~ Doubled => \A e : RunOnce(case, e))
<1>1. \A case : RunOnce(case, "zpq")
    BY LaneSettings DEF LaneInv, OnceEach, RunOnce
<1>2. ~ Doubled => \A case, e : RunOnce(case, e)
    BY DEF Doubled, RunOnce
<1> QED
    BY <1>1, <1>2

\* The lines of a cell whose session ran once: one per timed rep, and memory has each.
LEMMA CellOfAlone ==
    ASSUME LaneInv, pc = "ended", NEW case \in Planned, NEW e \in Team(head), RunOnce(case, e)
    PROVE  LET lines == CellReps(journal, case, e)
           IN  /\ IsFiniteSet(lines) /\ Cardinality(lines) = head.reps /\ lines # {}
               /\ lines \subseteq DOMAIN journal
               /\ \A i \in lines : journal[i] \in done
<1> DEFINE lines == CellReps(journal, case, e)
           last == LatestRound(journal, case)
           f == [i \in lines |-> journal[i].rep]
<1>0. Setting(head)
    BY LaneSettings DEF LaneInv
<1>1. lines \subseteq DOMAIN journal
    BY DEF CellReps
<1>2. \A i \in lines : journal[i].case = case /\ journal[i].engine = e /\ journal[i].round = last /\ journal[i].rep >= 1
    BY DEF CellReps
<1>3. IsFiniteSet(lines)
    <2>1. IsFiniteSet(DOMAIN journal)
        BY KeysAtTheEnd, FiniteRange
    <2> QED
        BY <1>1, <2>1, FS_Subset
<1>4. \A i \in lines : journal[i].rep \in 1..head.reps
    BY <1>0, <1>1, <1>2, SomeTeam, KeysAtTheEnd
<1>5. \A i, j \in lines : journal[i].rep = journal[j].rep => i = j
    BY <1>1, <1>2 DEF RunOnce, KeyOf
<1>6. ASSUME NEW rep \in 1..head.reps PROVE \E i \in lines : journal[i].rep = rep
    <2>1. rep \in Reps(head) /\ rep >= 1
        BY <1>0, SomeTeam
    <2>2. PICK d \in done : KeyOf(d) = <<case, e, rep, last>>
        BY <2>1, LastRound
    <2>3. PICK i \in DOMAIN journal : d = journal[i]
        BY KeysAtTheEnd
    <2>4. journal[i].case = case /\ journal[i].engine = e /\ journal[i].rep = rep /\ journal[i].round = last
        BY <2>2, <2>3 DEF KeyOf
    <2>5. i \in lines
        BY <2>1, <2>3, <2>4 DEF CellReps
    <2> QED
        BY <2>4, <2>5
<1>7. ASSUME NEW i \in lines PROVE journal[i] \in done
    <2>1. PICK d \in done : KeyOf(d) = KeyOf(journal[i])
        BY <1>1, KeysAtTheEnd
    <2>2. PICK j \in DOMAIN journal : d = journal[j]
        BY KeysAtTheEnd
    <2>3. i = j
        BY <1>1, <1>2, <2>1, <2>2 DEF RunOnce
    <2> QED
        BY <2>2, <2>3
<1> HIDE DEF lines
<1>8. f \in Bijection(lines, 1..head.reps)
    <2>1. f \in [lines -> 1..head.reps] /\ \A i \in lines : f[i] = journal[i].rep
        BY <1>4
    <2> HIDE DEF f
    <2>2. \A i, j \in lines : f[i] = f[j] => i = j
        BY <2>1, <1>5
    <2>3. \A rep \in 1..head.reps : \E i \in lines : f[i] = rep
        BY <2>1, <1>6
    <2> QED
        BY <2>1, <2>2, <2>3 DEF Bijection, Injection, IsInjective, Surjection
<1>9. Cardinality(lines) = head.reps
    <2>1. head.reps \in Nat \ {0}
        BY <1>0, SomeTeam
    <2>2. Cardinality(1..head.reps) = head.reps
        BY <2>1, FS_Interval
    <2>3. ExistsBijection(lines, 1..head.reps)
        BY <1>8 DEF ExistsBijection
    <2> QED
        BY <1>3, <2>2, <2>3, FS_Bijection
<1>10. lines # {}
    BY <1>0, <1>9, SomeTeam, FS_EmptySet
<1> QED
    BY <1>1, <1>3, <1>7, <1>9, <1>10 DEF lines

\* With every key once, the journal is what memory is.
LEMMA NotDoubled ==
    ASSUME LaneInv, pc = "ended", ~ Doubled
    PROVE  ToSet(journal) = done
<1>1. ASSUME NEW i \in DOMAIN journal PROVE journal[i] \in done
    <2>1. PICK d \in done : KeyOf(d) = KeyOf(journal[i])
        BY KeysAtTheEnd
    <2>2. PICK j \in DOMAIN journal : d = journal[j]
        BY KeysAtTheEnd
    <2> QED
        BY <2>1, <2>2 DEF Doubled
<1> QED
    BY <1>1, KeysAtTheEnd DEF ToSet

\* Then no case is pending, and one that is not quarantined was not disturbed
\* in its last round.
LEMMA NonePending ==
    ASSUME LaneInv, pc = "ended", ~ Doubled
    PROVE  /\ Pending(head, journal) = {}
           /\ \A case \in Planned \ Quarantined(head, journal) :
                 case \notin Disturbed(head.psi, done, LatestRound(journal, case))
<1>1. head.maxRound \in Int
    BY LaneSettings DEF LaneInv
<1>2. ASSUME NEW case \in Planned, case \in Disturbed(head.psi, done, LatestRound(journal, case))
      PROVE  case \in Quarantined(head, journal)
    <2>1. LatestRound(journal, case) = head.maxRound
        BY <1>2, LastRound
    <2>2. case \in DisturbedLast(head, journal)
        BY <1>2, NotDoubled, RanAtTheEnd DEF DisturbedLast
    <2> QED
        BY <1>1, <2>1, <2>2 DEF Quarantined
<1>3. \A case \in DisturbedLast(head, journal) : case \in Planned /\ case \in Disturbed(head.psi, done, LatestRound(journal, case))
    BY NotDoubled, RanAtTheEnd DEF DisturbedLast
<1> QED
    BY <1>2, <1>3 DEF Pending

\* A rep of a cohort that was disturbed disturbs its case.
LEMMA DisturbedRep ==
    ASSUME NEW psi, NEW rs, NEW x \in rs, x.status = "disturbed", x.rep >= 1
    PROVE  x.case \in Disturbed(psi, rs, x.round)
<1>1. x \in Cohort(rs, x.case, x.round)
    BY DEF Cohort
<1>2. Marred(psi, Cohort(rs, x.case, x.round))
    BY <1>1 DEF Marred
<1> QED
    BY <1>2, DisturbedIs

LEMMA CellAtTheEnd ==
    ASSUME LaneInv, pc = "ended", ~ Doubled, NEW case \in Planned \ Quarantined(head, journal), NEW e \in Team(head)
    PROVE  Cell(head, journal, case, e) \in {"median", "failed"}
<1> DEFINE lines == CellReps(journal, case, e)
<1>1. IsFiniteSet(lines) /\ Cardinality(lines) = head.reps /\ lines # {} /\ lines \subseteq DOMAIN journal
      /\ \A i \in lines : journal[i] \in done
    BY AloneOnes, CellOfAlone
<1>2. SUFFICES ASSUME ~ \E i \in lines : journal[i].status \in {"failed", "wrong", "timeout"}
               PROVE  Cardinality(Oks(journal, lines)) = head.reps
    BY <1>1 DEF Cell
<1>3. ASSUME NEW i \in lines PROVE journal[i].status = "ok"
    <2>1. journal[i].status # "disturbed"
        <3>1. journal[i].case = case /\ journal[i].round = LatestRound(journal, case) /\ journal[i].rep >= 1
            BY DEF CellReps
        <3> QED
            BY <1>1, <3>1, NonePending, DisturbedRep
    <2>2. journal[i].status \in Fates
        BY <1>1, KeysAtTheEnd
    <2> QED
        BY <2>1, <2>2, <1>2 DEF Fates
<1>4. Oks(journal, lines) = lines
    BY <1>3 DEF Oks
<1> QED
    BY <1>1, <1>4

\* A lane that ends has a final result for every planned cell, and the score of
\* its journal sees it.
THEOREM LaneEndedIsFinal == LaneSpec => []EndedIsFinal
<1>1. ASSUME LaneInv, pc = "ended"
      PROVE  /\ procs \subseteq Beyond
             /\ Ran(journal) = Planned
             /\ \A case \in Planned : \E last \in {LatestRound(journal, case)} :
                   /\ \A r \in 0..last - 1 : case \in Disturbed(head.psi, done, r)
                   /\ case \in Disturbed(head.psi, done, last) => last = head.maxRound
                   /\ \A e \in ToSet(head.engines), rep \in 1..head.reps : <<case, e, rep, last>> \in Keys
    <2>1. procs \subseteq Beyond
        BY <1>1 DEF LaneInv, AtWork
    <2>2. Ran(journal) = Planned
        BY <1>1, RanAtTheEnd
    <2>3. ASSUME NEW case \in Planned
          PROVE  LET last == LatestRound(journal, case)
                 IN  /\ \A r \in 0..last - 1 : case \in Disturbed(head.psi, done, r)
                     /\ case \in Disturbed(head.psi, done, last) => last = head.maxRound
                     /\ \A e \in ToSet(head.engines), rep \in 1..head.reps : <<case, e, rep, last>> \in Keys
        <3> DEFINE last == LatestRound(journal, case)
        <3>1. /\ \A r \in 0..last - 1 : case \in Disturbed(head.psi, done, r)
              /\ case \in Disturbed(head.psi, done, last) => last = head.maxRound
              /\ \A e \in Team(head), rep \in Reps(head) : \E d \in done : KeyOf(d) = <<case, e, rep, last>>
            BY <1>1, LastRound
        <3>2. 1..head.reps \subseteq Reps(head)
            BY <1>1, LaneSettings, SomeTeam DEF LaneInv
        <3> HIDE DEF last
        <3>3. \A e \in ToSet(head.engines), rep \in 1..head.reps : <<case, e, rep, last>> \in Keys
            BY <3>1, <3>2 DEF Team, Keys
        <3> QED
            BY <3>1, <3>3 DEF last
    <2> QED
        BY <2>1, <2>2, <2>3
<1>2. ASSUME LaneInv, pc = "ended", ~ Doubled
      PROVE  /\ Pending(head, journal) = {}
             /\ \A case \in Planned \ Quarantined(head, journal) : \A e \in ToSet(head.engines) :
                   Cell(head, journal, case, e) \in {"median", "failed"}
             /\ \/ Quarantined(head, journal) # {}
                \/ Verdict(head, journal, Planned, ToSet(head.engines)) # "INCOMPLETE"
    <2>1. Pending(head, journal) = {}
        BY <1>2, NonePending
    <2>2. \A case \in Planned \ Quarantined(head, journal) : \A e \in ToSet(head.engines) :
             Cell(head, journal, case, e) \in {"median", "failed"}
        BY <1>2, CellAtTheEnd DEF Team
    <2>3. ASSUME Quarantined(head, journal) = {}
          PROVE  Verdict(head, journal, Planned, ToSet(head.engines)) # "INCOMPLETE"
        <3>1. PICK e \in Team(head) : TRUE
            BY <1>2, LaneSettings, SomeTeam DEF LaneInv
        <3>2. Missing(journal, Planned, ToSet(head.engines)) = {}
            <4>1. \A case \in Planned : CellReps(journal, case, e) # {}
                BY <1>2, AloneOnes, CellOfAlone
            <4> QED
                BY <4>1 DEF Missing, Team
        <3> DEFINE n == Cardinality(Planned)
        <3>3. n \in Nat
            BY <1>2, LaneSettings, SomeTeam, FS_CardinalityType DEF LaneInv, Planned, CasesOf
        <3> HIDE DEF n
        <3>4. Max({1, n}) \in {1, n} /\ 1 <= Max({1, n})
            <4>1. IsFiniteSet({1, n}) /\ {1, n} \in SUBSET Int /\ {1, n} # {}
                <5>1. IsFiniteSet({1}) /\ {1, n} = {1} \cup {n}
                    BY FS_Singleton
                <5> QED
                    BY <5>1, <3>3, FS_AddElement
            <4> QED
                BY <4>1, MaxIs
        <3>5. ~ (100 * Cardinality(Quarantined(head, journal)) > 2 * Max({1, Cardinality(Planned)}))
            BY <2>3, <3>3, <3>4, FS_EmptySet DEF n
        <3> QED
            BY <2>1, <3>2, <3>5 DEF Verdict
    <2> QED
        BY <2>1, <2>2, <2>3
<1>3. LaneInv => EndedIsFinal
    BY <1>1, <1>2 DEF EndedIsFinal
<1> QED
    BY <1>3, LaneAlways, PTL


-----------------------------------------------------------------------------
(* The ship bar.                                                            *)

CellTime(case, e) == Median2(journal, Oks(journal, CellReps(journal, case, e)))
OnTime(case) == {r \in Rivals : Cell(head, journal, case, r) = "median"}
Best(case) == Min({CellTime(case, r) : r \in OnTime(case)})
InTheBar == Planned \ Quarantined(head, journal)

\* What a met bar says: of each case, of those behind, and of each rival.
BarMeans ==
    /\ \A case \in InTheBar :
          /\ Cell(head, journal, case, "zpq") = "median"
          /\ OnTime(case) # {} => ~ TooSlow(CellTime(case, "zpq"), Best(case))
    /\ 5 * Cardinality({case \in InTheBar : OnTime(case) # {} /\ CellTime(case, "zpq") > Best(case)})
          <= Cardinality(Planned)
    /\ \A r \in Rivals :
          2 * Cardinality({case \in InTheBar : r \notin OnTime(case) \/ CellTime(case, "zpq") < CellTime(case, r)})
             > Cardinality(Planned)

LEMMA BarIs == ASSUME ShipBar(head, journal, Planned, Rivals).met PROVE BarMeans
<1> DEFINE failed == {a \in InTheBar : Cell(head, journal, a, "zpq") # "median"}
           won == InTheBar \ failed
           raced == {a \in won : OnTime(a) # {}}
           beats(r) == {a \in won : r \notin OnTime(a) \/ CellTime(a, "zpq") < CellTime(a, r)}
           behind == failed \cup {a \in raced : CellTime(a, "zpq") > Best(a)}
           over == failed \cup {a \in raced : TooSlow(CellTime(a, "zpq"), Best(a))}
<1>1. /\ \A r \in Rivals : 2 * Cardinality(beats(r)) > Cardinality(Planned)
      /\ 5 * Cardinality(behind) <= Cardinality(Planned)
      /\ over = {}
    BY DEF ShipBar, CellTime, OnTime, Best, InTheBar
<1>2. failed = {} /\ won = InTheBar
    BY <1>1
<1>3. behind = {a \in InTheBar : OnTime(a) # {} /\ CellTime(a, "zpq") > Best(a)}
    BY <1>2
<1>4. \A r : beats(r) = {a \in InTheBar : r \notin OnTime(a) \/ CellTime(a, "zpq") < CellTime(a, r)}
    BY <1>2
<1>5. \A a \in InTheBar :
          /\ Cell(head, journal, a, "zpq") = "median"
          /\ OnTime(a) # {} => ~ TooSlow(CellTime(a, "zpq"), Best(a))
    BY <1>1, <1>2
<1> HIDE DEF beats, behind
<1> QED
    BY <1>1, <1>3, <1>4, <1>5 DEF BarMeans

\* The lines of an engine's cell are what memory has of it.
LEMMA CellInMemory ==
    ASSUME LaneInv, pc = "ended", NEW case \in Planned, NEW e \in Team(head), RunOnce(case, e)
    PROVE  /\ LastOf(case, e) = {journal[i] : i \in CellReps(journal, case, e)}
           /\ Cardinality(LastOf(case, e)) = head.reps
           /\ IsFiniteSet(LastOf(case, e)) /\ LastOf(case, e) # {}
<1> DEFINE lines == CellReps(journal, case, e)
           f == [i \in lines |-> journal[i]]
           S == LastOf(case, e)
<1>1. /\ IsFiniteSet(lines) /\ Cardinality(lines) = head.reps /\ lines # {}
      /\ lines \subseteq DOMAIN journal /\ \A i \in lines : journal[i] \in done
    BY CellOfAlone
<1>2. ASSUME NEW x \in S PROVE \E i \in lines : x = journal[i]
    <2>1. PICK i \in DOMAIN journal : x = journal[i]
        BY KeysAtTheEnd DEF LastOf
    <2>2. i \in lines
        BY <2>1 DEF CellReps, LastOf
    <2> QED
        BY <2>1, <2>2
<1>3. \A i \in lines : journal[i] \in S
    BY <1>1 DEF CellReps, LastOf
<1>4. \A i, j \in lines : journal[i] = journal[j] => i = j
    BY <1>1 DEF RunOnce, CellReps
<1> HIDE DEF lines, S
<1>5. f \in [lines -> S] /\ \A i \in lines : f[i] = journal[i]
    BY <1>3
<1> HIDE DEF f
<1>6. \A i, j \in lines : f[i] = f[j] => i = j
    BY <1>4, <1>5
<1>7. \A x \in S : \E i \in lines : f[i] = x
    BY <1>2, <1>5
<1>8. f \in Bijection(lines, S) /\ f \in Surjection(lines, S)
    BY <1>5, <1>6, <1>7 DEF Bijection, Injection, IsInjective, Surjection
<1>9. IsFiniteSet(S)
    BY <1>1, <1>8, FS_Surjection
<1>10. Cardinality(S) = head.reps
    BY <1>1, <1>8, <1>9, FS_Bijection DEF ExistsBijection
<1>11. S = {journal[i] : i \in lines}
    BY <1>2, <1>3
<1>12. S # {}
    BY <1>1, <1>3
<1> QED
    BY <1>9, <1>10, <1>11, <1>12 DEF S, lines

\* A cell has a median only if every one of its lines is ok ...
LEMMA MedianCell ==
    ASSUME LaneInv, pc = "ended", NEW case \in Planned, NEW e \in Team(head), RunOnce(case, e)
    PROVE  Cell(head, journal, case, e) = "median" <=> \A i \in CellReps(journal, case, e) : journal[i].status = "ok"
<1> DEFINE lines == CellReps(journal, case, e)
           oks == Oks(journal, lines)
<1>1. IsFiniteSet(lines) /\ Cardinality(lines) = head.reps /\ lines # {}
    BY CellOfAlone
<1>2. ASSUME Cell(head, journal, case, e) = "median" PROVE \A i \in lines : journal[i].status = "ok"
    <2>1. Cardinality(oks) = head.reps
        BY <1>1, <1>2 DEF Cell
    <2>2. oks \subseteq lines
        BY DEF Oks
    <2>3. oks = lines
        BY <1>1, <2>1, <2>2, FS_Subset
    <2> QED
        BY <2>3 DEF Oks
<1>3. ASSUME \A i \in lines : journal[i].status = "ok" PROVE Cell(head, journal, case, e) = "median"
    <2>1. oks = lines
        BY <1>3 DEF Oks
    <2> QED
        BY <1>1, <1>3, <2>1 DEF Cell
<1> QED
    BY <1>2, <1>3

\* ... and a median is a number ...
LEMMA CellTimeType ==
    ASSUME LaneInv, pc = "ended", NEW case, NEW e, Cell(head, journal, case, e) = "median"
    PROVE  CellTime(case, e) \in Int
<1> DEFINE lines == CellReps(journal, case, e)
           oks == Oks(journal, lines)
<1>1. Cardinality(oks) = head.reps /\ oks \subseteq DOMAIN journal
    BY DEF Cell, Oks, CellReps
<1>2. IsFiniteSet(oks)
    <2>1. IsFiniteSet(DOMAIN journal)
        BY KeysAtTheEnd, FiniteRange
    <2> QED
        BY <1>1, <2>1, FS_Subset
<1>3. \A i \in oks : journal[i].elapsed \in Int
    BY <1>1, KeysAtTheEnd
<1> HIDE DEF oks
<1>4. oks # {}
    BY <1>1, FS_EmptySet, LaneSettings, SomeTeam DEF LaneInv
<1>5. PICK i, j \in oks : Median2(journal, oks) = journal[i].elapsed + journal[j].elapsed
    BY <1>2, <1>3, <1>4, MedianIs
<1> QED
    BY <1>3, <1>5 DEF CellTime, oks

\* ... with half of what memory has of the cell on either side.
LEMMA CellTimeIs ==
    ASSUME LaneInv, pc = "ended", NEW case \in Planned, NEW e \in Team(head), RunOnce(case, e),
           Cell(head, journal, case, e) = "median"
    PROVE  \A z \in Halfway(LastOf(case, e)) : z = CellTime(case, e)
<1> DEFINE lines == CellReps(journal, case, e)
<1>1. IsFiniteSet(lines) /\ lines # {} /\ lines \subseteq DOMAIN journal
    BY CellOfAlone
<1>2. Oks(journal, lines) = lines
    BY MedianCell DEF Oks
<1>3. \A i \in lines : journal[i].elapsed \in Int
    BY <1>1, KeysAtTheEnd
<1>4. LastOf(case, e) = {journal[i] : i \in lines}
    BY CellInMemory
<1>5. \A i, j \in lines : journal[i] = journal[j] => i = j
    BY <1>1 DEF RunOnce, CellReps
<1> HIDE DEF lines
<1>6. \A z \in Halfway({journal[i] : i \in lines}) : z = Median2(journal, lines)
    BY <1>1, <1>3, <1>5, HalfwayIs
<1> QED
    BY <1>2, <1>4, <1>6 DEF CellTime, lines

LEMMA RivalsAreTeam == Rivals \subseteq Team(head)
    BY DEF Rivals, Team, ToSet

\* A rival whose reps are whole has a median, and the best is no worse.
LEMMA WholeIsTimed ==
    ASSUME LaneInv, pc = "ended", NEW case \in Planned, NEW e \in Rivals, AllChecked(case, e)
    PROVE  /\ e \in OnTime(case) /\ Cell(head, journal, case, e) = "median"
           /\ CellTime(case, e) \in Int /\ Best(case) \in Int /\ Best(case) <= CellTime(case, e)
           /\ \A y \in Halfway(LastOf(case, e)) : y = CellTime(case, e)
<1>1. e \in Team(head) /\ RunOnce(case, e) /\ \A r \in LastOf(case, e) : r.status = "ok"
    BY RivalsAreTeam DEF AllChecked
<1>2. Cell(head, journal, case, e) = "median"
    <2>1. LastOf(case, e) = {journal[i] : i \in CellReps(journal, case, e)}
        BY <1>1, CellInMemory
    <2>2. \A i \in CellReps(journal, case, e) : journal[i].status = "ok"
        BY <1>1, <2>1
    <2> QED
        BY <1>1, <2>2, MedianCell
<1>3. e \in OnTime(case)
    BY <1>2 DEF OnTime
<1>4. \A r \in OnTime(case) : CellTime(case, r) \in Int
    BY CellTimeType DEF OnTime
<1> DEFINE times == {CellTime(case, r) : r \in OnTime(case)}
<1>5. IsFiniteSet(OnTime(case))
    <2>1. IsFiniteSet(Team(head))
        BY LaneSettings, SomeTeam DEF LaneInv
    <2>2. OnTime(case) \subseteq Team(head)
        BY RivalsAreTeam DEF OnTime
    <2> QED
        BY <2>1, <2>2, FS_Subset
<1>6. IsFiniteSet(times)
    <2> DEFINE f == [r \in OnTime(case) |-> CellTime(case, r)]
    <2>1. f = [r \in OnTime(case) |-> f[r]] /\ {f[r] : r \in OnTime(case)} = times
        OBVIOUS
    <2> HIDE DEF f
    <2> QED
        BY <1>5, <2>1, FiniteImage
<1>7. times \in SUBSET Int /\ CellTime(case, e) \in times
    BY <1>3, <1>4
<1> HIDE DEF times
<1>8. Min(times) \in times /\ Min(times) <= CellTime(case, e)
    BY <1>6, <1>7, MinIs
<1>9. Best(case) \in Int /\ Best(case) <= CellTime(case, e)
    BY <1>7, <1>8 DEF Best, times
<1>10. \A y \in Halfway(LastOf(case, e)) : y = CellTime(case, e)
    BY <1>1, <1>2, CellTimeIs
<1> QED
    BY <1>2, <1>3, <1>4, <1>9, <1>10

\* What memory has of zpq in a case that counts for a met bar.
LEMMA OwnCell ==
    ASSUME LaneInv, pc = "ended", ShipBar(head, journal, Planned, Rivals).met, NEW case \in InTheBar
    PROVE  /\ Cardinality(LastOf(case, "zpq")) = head.reps
           /\ \A r \in LastOf(case, "zpq") : r.status = "ok" /\ JudgeSays("zpq", r.answer)
           /\ CellTime(case, "zpq") \in Int
           /\ \A z \in Halfway(LastOf(case, "zpq")) : z = CellTime(case, "zpq")
<1>0. BarMeans
    BY BarIs
<1>1. Cell(head, journal, case, "zpq") = "median" /\ case \in Planned
    <2>1. Cell(head, journal, case, "zpq") = "median"
        BY <1>0 DEF BarMeans
    <2> QED
        BY <2>1 DEF InTheBar
<1>2. "zpq" \in Team(head)
    <2>1. CellReps(journal, case, "zpq") # {}
        BY <1>1 DEF Cell
    <2> QED
        BY <2>1, KeysAtTheEnd DEF CellReps
<1>3. RunOnce(case, "zpq")
    BY AloneOnes
<1>4. /\ Cardinality(LastOf(case, "zpq")) = head.reps
      /\ LastOf(case, "zpq") = {journal[i] : i \in CellReps(journal, case, "zpq")}
    BY <1>1, <1>2, <1>3, CellInMemory
<1>5. \A i \in CellReps(journal, case, "zpq") : journal[i].status = "ok"
    BY <1>1, <1>2, <1>3, MedianCell
<1>6. ASSUME NEW i \in CellReps(journal, case, "zpq") PROVE JudgeSays("zpq", journal[i].answer)
    <2>1. i \in DOMAIN journal /\ journal[i].engine = "zpq"
        BY DEF CellReps
    <2> QED
        BY <1>5, <2>1 DEF LaneInv, AllTruthful, Truthful
<1>7. CellTime(case, "zpq") \in Int
    BY <1>1, CellTimeType
<1>8. \A z \in Halfway(LastOf(case, "zpq")) : z = CellTime(case, "zpq")
    BY <1>1, <1>2, <1>3, CellTimeIs
<1> QED
    BY <1>4, <1>5, <1>6, <1>7, <1>8

\* The ship bar is met only by what it says: zpq's reps checked in every case,
\* its median within one and a half times a rival's, behind in a fifth of the
\* cases at most, and ahead of each rival in more than half.
THEOREM LaneBarIsSound == LaneSpec => []BarIsSound
<1>1. ASSUME LaneInv, pc = "ended", ShipBar(head, journal, Planned, Rivals).met
      PROVE  /\ \A case \in InTheBar :
                   /\ Cardinality(LastOf(case, "zpq")) = head.reps
                   /\ \A r \in LastOf(case, "zpq") : r.status = "ok" /\ JudgeSays("zpq", r.answer)
                   /\ \A e \in Rivals : AllChecked(case, e) => NearEnough(case, e)
             /\ 5 * Cardinality({case \in InTheBar : \E e \in Rivals : AllChecked(case, e) /\ ~ NotSlower(case, e)})
                   <= Cardinality(Planned)
             /\ \A e \in Rivals :
                   2 * Cardinality({case \in InTheBar : AllChecked(case, e) => Faster(case, e)}) > Cardinality(Planned)
    <2>0. BarMeans
        BY <1>1, BarIs
    <2>1. IsFiniteSet(InTheBar) /\ Cardinality(Planned) \in Nat
        <3>1. IsFiniteSet(Planned)
            BY <1>1, LaneSettings, SomeTeam DEF LaneInv, Planned, CasesOf
        <3> QED
            BY <3>1, FS_Subset, FS_CardinalityType DEF InTheBar
    <2>2. ASSUME NEW case \in InTheBar
          PROVE  /\ Cardinality(LastOf(case, "zpq")) = head.reps
                 /\ \A r \in LastOf(case, "zpq") : r.status = "ok" /\ JudgeSays("zpq", r.answer)
                 /\ \A e \in Rivals : AllChecked(case, e) => NearEnough(case, e)
        <3>1. ASSUME NEW e \in Rivals, AllChecked(case, e) PROVE NearEnough(case, e)
            <4> DEFINE mine == CellTime(case, "zpq")
                       theirs == CellTime(case, e)
            <4>1. /\ mine \in Int /\ theirs \in Int /\ Best(case) \in Int /\ Best(case) <= theirs
                  /\ \A z \in Halfway(LastOf(case, "zpq")) : z = mine
                  /\ \A y \in Halfway(LastOf(case, e)) : y = theirs
                  /\ OnTime(case) # {}
                BY <1>1, <3>1, OwnCell, WholeIsTimed DEF InTheBar
            <4>2. ~ TooSlow(mine, Best(case))
                BY <2>0, <4>1 DEF BarMeans
            <4> HIDE DEF mine, theirs
            <4>3. 2 * mine <= 3 * theirs
                BY <4>1, <4>2 DEF TooSlow
            <4> QED
                BY <4>1, <4>3 DEF NearEnough
        <3> QED
            BY <1>1, <3>1, OwnCell
    <2>3. 5 * Cardinality({case \in InTheBar : \E e \in Rivals : AllChecked(case, e) /\ ~ NotSlower(case, e)})
            <= Cardinality(Planned)
        <3> DEFINE mine == {case \in InTheBar : \E e \in Rivals : AllChecked(case, e) /\ ~ NotSlower(case, e)}
                   theirs == {case \in InTheBar : OnTime(case) # {} /\ CellTime(case, "zpq") > Best(case)}
        <3>1. ASSUME NEW case \in InTheBar, NEW e \in Rivals, AllChecked(case, e), ~ NotSlower(case, e)
              PROVE  case \in theirs
            <4>1. /\ CellTime(case, "zpq") \in Int /\ CellTime(case, e) \in Int
                  /\ Best(case) \in Int /\ Best(case) <= CellTime(case, e)
                  /\ \A z \in Halfway(LastOf(case, "zpq")) : z = CellTime(case, "zpq")
                  /\ \A y \in Halfway(LastOf(case, e)) : y = CellTime(case, e)
                  /\ OnTime(case) # {}
                BY <1>1, <3>1, OwnCell, WholeIsTimed DEF InTheBar
            <4>2. ~ (CellTime(case, "zpq") <= CellTime(case, e))
                BY <3>1, <4>1 DEF NotSlower
            <4> QED
                BY <4>1, <4>2
        <3>2. mine \subseteq theirs /\ theirs \subseteq InTheBar
            BY <3>1
        <3>3. 5 * Cardinality(theirs) <= Cardinality(Planned)
            BY <2>0 DEF BarMeans
        <3> HIDE DEF mine, theirs
        <3>4. IsFiniteSet(theirs)
            BY <2>1, <3>2, FS_Subset
        <3>5. Cardinality(mine) <= Cardinality(theirs) /\ Cardinality(mine) \in Nat /\ Cardinality(theirs) \in Nat
            BY <3>2, <3>4, FS_Subset, FS_CardinalityType
        <3>6. 5 * Cardinality(mine) <= Cardinality(Planned)
            BY <2>1, <3>3, <3>5
        <3> QED
            BY <3>6 DEF mine
    <2>4. ASSUME NEW e \in Rivals
          PROVE  2 * Cardinality({case \in InTheBar : AllChecked(case, e) => Faster(case, e)}) > Cardinality(Planned)
        <3> DEFINE ahead == {case \in InTheBar : AllChecked(case, e) => Faster(case, e)}
                   beaten == {case \in InTheBar : e \notin OnTime(case) \/ CellTime(case, "zpq") < CellTime(case, e)}
        <3>1. ASSUME NEW case \in beaten, AllChecked(case, e) PROVE Faster(case, e)
            <4>1. /\ \A z \in Halfway(LastOf(case, "zpq")) : z = CellTime(case, "zpq")
                  /\ \A y \in Halfway(LastOf(case, e)) : y = CellTime(case, e)
                  /\ e \in OnTime(case)
                BY <1>1, <3>1, OwnCell, WholeIsTimed DEF InTheBar
            <4> QED
                BY <3>1, <4>1 DEF Faster
        <3>2. beaten \subseteq ahead /\ ahead \subseteq InTheBar
            BY <3>1
        <3>3. 2 * Cardinality(beaten) > Cardinality(Planned)
            BY <2>0 DEF BarMeans
        <3> HIDE DEF ahead, beaten
        <3>4. IsFiniteSet(ahead)
            BY <2>1, <3>2, FS_Subset
        <3>5. Cardinality(beaten) <= Cardinality(ahead) /\ Cardinality(beaten) \in Nat /\ Cardinality(ahead) \in Nat
            BY <3>2, <3>4, FS_Subset, FS_CardinalityType
        <3>6. 2 * Cardinality(ahead) > Cardinality(Planned)
            BY <2>1, <3>3, <3>5
        <3> QED
            BY <3>6 DEF ahead
    <2> QED
        BY <2>2, <2>3, <2>4
<1>2. LaneInv => BarIsSound
    BY <1>1 DEF BarIsSound, InTheBar
<1> QED
    BY <1>2, LaneAlways, PTL

-----------------------------------------------------------------------------
(* What a quick run reports is earned, for any configuration: rows stand in *)
(* the journal in the order of the plan, the plan has every repetition of   *)
(* every case by every build once and in whole pairs, and a worker goes on  *)
(* past a pass only when its answers agreed.                                *)

Builds(g, k) == ToSet(Engines(g.cases[k]))
InOrder(g, k, rep) == IF rep = 0 \/ rep % 2 = 1 THEN Engines(g.cases[k]) ELSE Reverse(Engines(g.cases[k]))
Pass(g, rep) ==
    FlattenSeq([k \in DOMAIN g.cases |->
        Attempts(IF rep = 0 THEN "hash-first" ELSE "hot-fresh", k, rep, InOrder(g, k, rep))])
Attempted(g) == Pass(g, 0) \o FlattenSeq([rep \in 1..g.reps |-> Pass(g, rep)])

Early == {"off", "boot", "request", "lock", "admit", "verify"}
Command == {"fork", "assign", "active", "poll", "drain", "unlink", "settle"}
Busy == Command \cup {"idle", "rivals", "quiet", "journal", "pair"}
Going == Early \cup Busy \cup {"certify"}
Ending == {"final", "ignore", "report", "over", "dead"}

Begun == cfg \in Configs /\ (ValidConfig(cfg) \/ (c \in {"load", "over"} /\ s = "off"))

\* Where a worker x is on the plan of g: at a step of it until it certifies, and
\* with a row to make where it makes one.
OnPlan(g, x) ==
    /\ x.cmd \in 1..3
    /\ x.pc \in Early => x.at = 1 /\ x.cmd = 1
    /\ x.pc \in Busy => x.at \in 1..Len(Plan(g))
    /\ x.pc = "certify" \/ x.state = "complete" => x.at = Len(Plan(g)) + 1
    /\ x.state = "complete" => x.pc \in Ending
    /\ x.pc \in {"quiet", "journal", "pair"} \/ (x.pc \in Command /\ x.cmd # 1) =>
         x.at - 2 \in 1..Len(Attempted(g))
    /\ x.pc \in {"idle", "rivals"} => x.cmd = 1

\* What a native command gave, as the case declares it; and read back.
OfCase(case, o) ==
    /\ o = [exit |-> o.exit, bytes |-> o.bytes, outcome |-> o.outcome, valid |-> o.valid]
    /\ o.outcome = IF case.refusal THEN "refusal" ELSE "answer"
    /\ case.refusal => o.exit = 1 /\ o.bytes = 1
    /\ ~ case.refusal => o.exit = 0
    /\ o.valid \in BOOLEAN
Answered(case, o) == OfCase(case, o) /\ (o.valid <=> case.output = "parquet" /\ ~ case.refusal)

CaseAt(g, x) == g.cases[Plan(g)[x.at].case]
Ready(g, x, o) ==
    /\ x.pc \in Command /\ x.cmd # 1 =>
         OfCase(CaseAt(g, x), o) /\ CaseAt(g, x).output = "parquet" /\ ~ CaseAt(g, x).refusal
    /\ x.pc \in {"quiet", "journal"} /\ x.exc = "none" => Answered(CaseAt(g, x), o)

\* How many rows there are, and what they are: the attempts in their order, ok
\* and as declared; of each pair that is whole the builds agree, and each with
\* its own first answer.
Filed(g, x) ==
    IF x.pc = "pair" THEN x.at - 2
    ELSE IF x.at <= 3 THEN 0
    ELSE IF x.at - 3 <= Len(Attempted(g)) THEN x.at - 3 ELSE Len(Attempted(g))
IsOf(r, x) == /\ r.case = x.case /\ r.engine = x.engine /\ r.phase = x.phase /\ r.rep = x.rep
              /\ r.status = "ok"
Mates(x, y) == x.case = y.case /\ x.rep = y.rep
FirstAnswer(x, y) == x.rep = 0 /\ x.case = y.case /\ x.engine = y.engine
Agreed(g, all, l) ==
    \A i \in 1..Len(all) : Mates(all[i], all[l]) =>
       /\ \A j \in 1..Len(all) : Mates(all[j], all[l]) => Agree(g.cases[all[l].case], all[i], all[j])
       /\ \A j \in 1..Len(all) : FirstAnswer(all[j], all[i]) => Identity(all[i]) = Identity(all[j])
AreOf(g, all, n) ==
    /\ Len(all) = n
    /\ \A i \in 1..n : IsOf(all[i], Attempted(g)[i]) /\ Answered(g.cases[all[i].case], all[i].out)
RowsAre(g, x, all) ==
    (x.pc \in Going \/ x.state = "complete") =>
       /\ AreOf(g, all, Filed(g, x))
       /\ \A l \in 1..Len(all) : Attempted(g)[l].last /\ l + 2 < x.at => Agreed(g, all, l)

\* The hash pass is over once its last attempt is.
EndsPass(g, x) == x.rep = 0 /\ x.last /\ x.case = Len(g.cases)
HashedIs(g, x, hashes) ==
    /\ x.hashed => hashes
    /\ x.pc \in Going \/ x.state = "complete" =>
          ((\E l \in 1..Len(Attempted(g)) : l + 2 < x.at /\ EndsPass(g, Attempted(g)[l])) => x.hashed)

\* CompleteIsEarned, of a report.
EarnedBy(g, hashes, r) ==
    /\ (r.state \in {"complete", "flagged"} \/ (r.state # "none" /\ r.gate = "pass")) =>
        /\ r.complete /\ hashes
        /\ \A k \in DOMAIN g.cases, rep \in 1..g.reps :
             \A e \in ToSet(Engines(g.cases[k])) :
                /\ Cardinality(Good(r.rows, k, e, "hot-fresh", rep)) = 1
                /\ \A i \in Good(r.rows, k, e, "hot-fresh", rep) :
                    /\ i \in r.selected
                    /\ Answers(g.cases[k], r.rows[i])
                    /\ \E j \in Good(r.rows, k, e, "hash-first", 0) : r.rows[i].out = r.rows[j].out
                    /\ \A e2 \in ToSet(Engines(g.cases[k])) :
                        \E j \in Good(r.rows, k, e2, "hot-fresh", rep) :
                            MayDiffer(g.cases[k], r.rows[i], r.rows[j])
    /\ r.state # "none" => \A i \in r.selected :
          /\ hashes
          /\ \A e \in ToSet(Engines(g.cases[r.rows[i].case])) :
                Good(r.rows, r.rows[i].case, e, "hot-fresh", r.rows[i].rep) # {}
EarnedReports == EarnedBy(cfg, disk.hashes, disk.report) /\ EarnedBy(cfg, disk.hashes, disk.home.report)

\* A worker that got as far as the lock has saved its request.
Requested == (w.pc \in (Going \ {"off", "boot", "request"}) \cup {"write"} \/ w.state = "complete") => disk.request

EarnedWork ==
    OnPlan(cfg, w) /\ Ready(cfg, w, out) /\ RowsAre(cfg, w, rows) /\ HashedIs(cfg, w, disk.hashes)

\* A row in memory that is next to be written counts as one of its pair.
Filing(x, o, all, hashes) ==
    x.pc = "write" /\ x.exc = "none" =>
       LET y == [x EXCEPT !.pc = "pair"]
       IN  OnPlan(cfg, y) /\ Ready(cfg, y, o) /\ RowsAre(cfg, y, all) /\ HashedIs(cfg, y, hashes)
EarnedInv ==
    Begun /\ Requested /\ EarnedWork /\ Filing(w, out, rows, disk.hashes) /\ EarnedReports

-----------------------------------------------------------------------------
(* The plan of a quick run: every repetition of every case by every build,  *)
(* once, in whole pairs, the first answers before any other.                *)

QuickSetting(g) == g.reps \in Int /\ g.cases \in Seq(ToSet(g.cases)) /\ g.cases # <<>>

Steps(g) ==
    [phase : {"hash-first", "hot-fresh"}, case : DOMAIN g.cases, engine : {"candidate", "base"}, rep : Int, last : BOOLEAN]

\* A sequence of steps that runs some repetitions.
KindOf(g, reps, x) ==
    /\ x.rep \in reps /\ x.engine \in Builds(g, x.case)
    /\ x.phase = IF x.rep = 0 THEN "hash-first" ELSE "hot-fresh"
Makes(q, k, rep, e) == \E n \in 1..Len(q) : q[n].case = k /\ q[n].rep = rep /\ q[n].engine = e
Closes(q, k, rep) == \E n \in 1..Len(q) : q[n].case = k /\ q[n].rep = rep /\ q[n].last
InPairs(q) ==
    \A m, n \in 1..Len(q) :
        Mates(q[m], q[n]) => (q[m].engine = q[n].engine => m = n) /\ (q[n].last => m <= n)
Runs(g, reps, q) ==
    /\ q \in Seq(Steps(g))
    /\ \A n \in 1..Len(q) : KindOf(g, reps, q[n])
    /\ \A k \in DOMAIN g.cases, rep \in reps :
          Closes(q, k, rep) /\ \A e \in Builds(g, k) : Makes(q, k, rep, e)
    /\ InPairs(q)

LEMMA InPairsIs ==
    ASSUME NEW q, InPairs(q), NEW m \in 1..Len(q), NEW n \in 1..Len(q), Mates(q[m], q[n])
    PROVE  /\ q[m].engine = q[n].engine => m = n
           /\ q[n].last => m <= n
    BY DEF InPairs

LEMMA EnginesAre ==
    ASSUME NEW case
    PROVE  \/ Engines(case) = <<"candidate", "base">>
           \/ Engines(case) = <<"candidate">>
    BY DEF Engines

\* The builds in the order of a repetition.
LEMMA InOrderIs ==
    ASSUME NEW g, NEW k, NEW rep \in Int
    PROVE  LET o == InOrder(g, k, rep)
           IN  /\ o \in Seq({"candidate", "base"}) /\ Len(o) \in 1..2
               /\ \A i \in 1..Len(o) : o[i] \in Builds(g, k)
               /\ \A e \in Builds(g, k) : \E i \in 1..Len(o) : o[i] = e
               /\ \A i, j \in 1..Len(o) : o[i] = o[j] => i = j
<1> DEFINE es == Engines(g.cases[k])  o == InOrder(g, k, rep)
<1>1. es = <<"candidate", "base">> \/ es = <<"candidate">>
    BY EnginesAre
<1>2. Builds(g, k) = {es[i] : i \in DOMAIN es}
    BY DEF Builds, ToSet
<1>3. o = es \/ o = Reverse(es)
    BY DEF InOrder
<1>4. CASE es = <<"candidate">>
    <2>1. o = <<"candidate">>
        BY <1>3, <1>4 DEF Reverse
    <2>2. Builds(g, k) = {"candidate"}
        BY <1>2, <1>4
    <2> HIDE DEF o, es
    <2> QED
        BY <2>1, <2>2 DEF o
<1>5. CASE es = <<"candidate", "base">>
    <2>1. o = <<"candidate", "base">> \/ o = <<"base", "candidate">>
        BY <1>3, <1>5 DEF Reverse
    <2>2. Builds(g, k) = {"candidate", "base"}
        BY <1>2, <1>5
    <2> HIDE DEF o, es
    <2>3. CASE o = <<"candidate", "base">>
        BY <2>2, <2>3 DEF o
    <2>4. CASE o = <<"base", "candidate">>
        BY <2>2, <2>4 DEF o
    <2> QED
        BY <2>1, <2>3, <2>4
<1> QED
    BY <1>1, <1>4, <1>5

PhaseOf(rep) == IF rep = 0 THEN "hash-first" ELSE "hot-fresh"
PassBlock(g, rep, k) == Attempts(PhaseOf(rep), k, rep, InOrder(g, k, rep))

IsBlock(g, rep, k, b) ==
    /\ b \in Seq(Steps(g)) /\ Len(b) \in 1..2
    /\ \A i \in 1..Len(b) : /\ b[i].case = k /\ b[i].rep = rep /\ b[i].phase = PhaseOf(rep)
                            /\ b[i].engine \in Builds(g, k) /\ (b[i].last <=> i = Len(b))
    /\ \A e \in Builds(g, k) : \E i \in 1..Len(b) : b[i].engine = e
    /\ \A i, j \in 1..Len(b) : b[i].engine = b[j].engine => i = j

LEMMA BlockIs ==
    ASSUME NEW g, NEW k \in DOMAIN g.cases, NEW rep \in Int
    PROVE  IsBlock(g, rep, k, PassBlock(g, rep, k))
<1> DEFINE o == InOrder(g, k, rep)  n == Len(o)  b == PassBlock(g, rep, k)
           step(i) == [phase |-> PhaseOf(rep), case |-> k, engine |-> o[i], rep |-> rep, last |-> i = n]
<1>1. /\ o \in Seq({"candidate", "base"}) /\ n \in 1..2
      /\ \A i \in 1..n : o[i] \in Builds(g, k)
      /\ \A e \in Builds(g, k) : \E i \in 1..n : o[i] = e
      /\ \A i, j \in 1..n : o[i] = o[j] => i = j
    BY InOrderIs
<1> HIDE DEF o
<1>2. DOMAIN o = 1..n /\ \A i \in 1..n : o[i] \in {"candidate", "base"}
    BY <1>1
<1>3. b = [i \in 1..n |-> step(i)]
    BY <1>2 DEF PassBlock, Attempts, o
<1>4. ASSUME NEW i \in 1..n PROVE step(i) \in Steps(g)
    <2>1. PhaseOf(rep) \in {"hash-first", "hot-fresh"} /\ o[i] \in {"candidate", "base"}
        BY <1>2 DEF PhaseOf
    <2> QED
        BY <2>1 DEF Steps
<1>5. \A i \in 1..n : /\ step(i).case = k /\ step(i).rep = rep /\ step(i).phase = PhaseOf(rep)
                      /\ step(i).engine = o[i] /\ (step(i).last <=> i = n)
    OBVIOUS
<1> HIDE DEF b, step
<1>n. n \in Nat
    BY <1>1
<1> HIDE DEF n
<1>6. b \in Seq(Steps(g)) /\ Len(b) = n /\ \A i \in 1..n : b[i] = step(i)
    <2>1. b = [i \in 1..n |-> b[i]] /\ \A i \in 1..n : b[i] = step(i)
        BY <1>3
    <2> QED
        BY <2>1, <1>4, <1>n, IsSeqOf
<1>7. \A i \in 1..n : /\ b[i].case = k /\ b[i].rep = rep /\ b[i].phase = PhaseOf(rep)
                      /\ b[i].engine = o[i] /\ (b[i].last <=> i = n)
    BY <1>5, <1>6
<1>8. \A e \in Builds(g, k) : \E i \in 1..n : b[i].engine = e
    BY <1>1, <1>7
<1>9. \A i, j \in 1..n : b[i].engine = b[j].engine => i = j
    BY <1>1, <1>7
<1>10. IsBlock(g, rep, k, b)
    BY <1>1, <1>6, <1>7, <1>8, <1>9 DEF IsBlock
<1> QED
    BY <1>10 DEF b

LEMMA PassRuns ==
    ASSUME NEW g, QuickSetting(g), NEW rep \in Int
    PROVE  Runs(g, {rep}, Pass(g, rep))
<1> DEFINE ss == [k \in DOMAIN g.cases |-> PassBlock(g, rep, k)]  N == Len(g.cases)  q == Pass(g, rep)
<1>1. N \in Nat \ {0} /\ DOMAIN g.cases = 1..N
    BY DEF QuickSetting
<1>2. q = FlattenSeq(ss)
    BY DEF Pass, PassBlock, PhaseOf
<1>3. Len(ss) = N /\ \A k \in 1..N : ss[k] = PassBlock(g, rep, k)
    BY <1>1
<1> HIDE DEF ss, N
<1>k. \A k \in 1..N : IsBlock(g, rep, k, ss[k])
    BY <1>1, <1>3, BlockIs
<1>4. \A k \in 1..N : ss[k] \in Seq(Steps(g))
    BY <1>k DEF IsBlock
<1>5. PICK at : q \in Seq(Steps(g)) /\ Starts(ss, q, at)
    <2>1. Len(ss) \in Nat /\ (Len(ss) = 0 => ss = <<>>) /\ \A k \in 1..Len(ss) : ss[k] \in Seq(Steps(g))
        BY <1>1, <1>3, <1>4
    <2> QED
        BY <2>1, <1>2, Flattened
<1> HIDE DEF q
<1>6. /\ at \in [1..N -> Nat]
      /\ \A k \in 1..N : \A j \in 1..Len(ss[k]) : at[k] + j \in 1..Len(q) /\ q[at[k] + j] = ss[k][j]
      /\ \A x \in 1..Len(q) : \E k \in 1..N : \E j \in 1..Len(ss[k]) : x = at[k] + j
    BY <1>3, <1>5 DEF Starts
<1> DEFINE In(x, k, j) == k \in 1..N /\ j \in 1..Len(ss[k]) /\ x = at[k] + j /\ q[x] = ss[k][j]
<1>8. ASSUME NEW x \in 1..Len(q) PROVE \E k, j : In(x, k, j)
    <2>1. PICK k, j : k \in 1..N /\ j \in 1..Len(ss[k]) /\ x = at[k] + j
        BY <1>6
    <2>2. q[x] = ss[k][j]
        BY <2>1, <1>6
    <2> QED
        BY <2>1, <2>2
<1>9. ASSUME NEW x \in 1..Len(q)
      PROVE  KindOf(g, {rep}, q[x])
    <2>1. PICK k, j : In(x, k, j)
        BY <1>8
    <2>2. IsBlock(g, rep, k, ss[k])
        BY <2>1, <1>k
    <2> QED
        BY <2>1, <2>2 DEF PhaseOf, IsBlock, KindOf
<1>10. ASSUME NEW k \in DOMAIN g.cases, NEW e \in Builds(g, k)
       PROVE  Makes(q, k, rep, e)
    <2>1. k \in 1..N
        BY <1>1
    <2>2. PICK j \in 1..Len(ss[k]) : ss[k][j].engine = e /\ ss[k][j].case = k /\ ss[k][j].rep = rep
        BY <2>1, <1>k DEF IsBlock
    <2>3. at[k] + j \in 1..Len(q) /\ q[at[k] + j] = ss[k][j]
        BY <2>1, <1>6
    <2> QED
        BY <2>2, <2>3 DEF Makes
<1>11. ASSUME NEW x \in 1..Len(q), NEW y \in 1..Len(q), Mates(q[x], q[y])
       PROVE  /\ q[x].engine = q[y].engine => x = y
              /\ q[y].last => x <= y
    <2>1. PICK k, j : In(x, k, j)
        BY <1>8
    <2>2. PICK l, i : In(y, l, i)
        BY <1>8
    <2>3. IsBlock(g, rep, k, ss[k]) /\ IsBlock(g, rep, l, ss[l])
        BY <2>1, <2>2, <1>k
    <2>4. ss[k][j].case = k /\ ss[l][i].case = l
        BY <2>1, <2>2, <2>3 DEF IsBlock
    <2>5. k = l
        BY <2>1, <2>2, <2>4, <1>11 DEF Mates
    <2>p. Len(ss[k]) \in 1..2
        BY <2>3 DEF IsBlock
    <2>a. k \in 1..N
        BY <2>1
    <2>6. at[k] \in Nat /\ Len(ss[k]) \in Nat
        <3>1. at[k] \in Nat
            BY <2>a, <1>6
        <3>2. \A m \in 1..2 : m \in Nat
            OBVIOUS
        <3> QED
            BY <2>p, <3>1, <3>2
    <2>7. ss[k][j].engine = ss[k][i].engine => i = j
        BY <2>1, <2>2, <2>3, <2>5 DEF IsBlock
    <2>8. ss[k][i].last => i = Len(ss[k])
        BY <2>1, <2>2, <2>3, <2>5 DEF IsBlock
    <2> QED
        BY <2>1, <2>2, <2>5, <2>6, <2>7, <2>8
<1>12. ASSUME NEW k \in DOMAIN g.cases
       PROVE  Closes(q, k, rep)
    <2>1. k \in 1..N
        BY <1>1
    <2>b. IsBlock(g, rep, k, ss[k])
        BY <2>1, <1>k
    <2> DEFINE len == Len(ss[k])
    <2>p. len \in 1..2
        BY <2>b DEF IsBlock
    <2>l. len \in 1..len
        <3> HIDE DEF len
        <3> QED
            BY <2>p
    <2>2. PICK j \in 1..Len(ss[k]) : ss[k][j].last /\ ss[k][j].case = k /\ ss[k][j].rep = rep
        BY <2>b, <2>l DEF IsBlock
    <2>3. at[k] + j \in 1..Len(q) /\ q[at[k] + j] = ss[k][j]
        BY <2>1, <1>6
    <2> QED
        BY <2>2, <2>3 DEF Closes
<1> QED
    BY <1>5, <1>9, <1>10, <1>11, <1>12 DEF Runs, InPairs, q

\* One repetition after another.
LEMMA PassesRun ==
    ASSUME NEW g, NEW ss, NEW N \in Nat, Len(ss) = N, N = 0 => ss = <<>>, \A r \in 1..N : Runs(g, {r}, ss[r])
    PROVE  Runs(g, 1..N, FlattenSeq(ss))
<1> DEFINE q == FlattenSeq(ss)
<1>1. PICK at : q \in Seq(Steps(g)) /\ Starts(ss, q, at)
    <2>1. \A r \in 1..N : ss[r] \in Seq(Steps(g))
        BY DEF Runs
    <2> QED
        BY <2>1, Flattened
<1> HIDE DEF q
<1>2. /\ at \in [1..N -> Nat]
      /\ \A r \in 1..N : \A j \in 1..Len(ss[r]) : at[r] + j \in 1..Len(q) /\ q[at[r] + j] = ss[r][j]
      /\ \A x \in 1..Len(q) : \E r \in 1..N : \E j \in 1..Len(ss[r]) : x = at[r] + j
    BY <1>1 DEF Starts
<1> DEFINE In(x, r, j) == r \in 1..N /\ j \in 1..Len(ss[r]) /\ x = at[r] + j /\ q[x] = ss[r][j]
<1>3. ASSUME NEW x \in 1..Len(q) PROVE \E r, j : In(x, r, j)
    <2>1. \E r \in 1..N : \E j \in 1..Len(ss[r]) : x = at[r] + j
        BY <1>2
    <2>2. PICK r \in 1..N : \E j \in 1..Len(ss[r]) : x = at[r] + j
        BY <2>1
    <2>3. PICK j \in 1..Len(ss[r]) : x = at[r] + j
        BY <2>2
    <2>4. q[x] = ss[r][j]
        BY <2>3, <1>2
    <2> QED
        BY <2>3, <2>4
<1>4. ASSUME NEW x, NEW r, NEW j, In(x, r, j) PROVE KindOf(g, {r}, q[x])
    BY <1>4 DEF Runs
<1>5. ASSUME NEW x \in 1..Len(q) PROVE KindOf(g, 1..N, q[x])
    <2>1. PICK r, j : In(x, r, j)
        BY <1>3
    <2>2. KindOf(g, {r}, q[x]) /\ r \in 1..N
        BY <2>1, <1>4
    <2> QED
        BY <2>2 DEF KindOf
<1>6. ASSUME NEW k \in DOMAIN g.cases, NEW r \in 1..N
      PROVE  Closes(q, k, r) /\ \A e \in Builds(g, k) : Makes(q, k, r, e)
    <2>1. Closes(ss[r], k, r) /\ \A e \in Builds(g, k) : Makes(ss[r], k, r, e)
        BY DEF Runs
    <2>2. \A j \in 1..Len(ss[r]) : at[r] + j \in 1..Len(q) /\ q[at[r] + j] = ss[r][j]
        BY <1>2
    <2>3. Closes(q, k, r)
        BY <2>1, <2>2 DEF Closes
    <2>4. \A e \in Builds(g, k) : Makes(q, k, r, e)
        BY <2>1, <2>2 DEF Makes
    <2> QED
        BY <2>3, <2>4
<1>7. ASSUME NEW x \in 1..Len(q), NEW y \in 1..Len(q), Mates(q[x], q[y])
      PROVE  /\ q[x].engine = q[y].engine => x = y
             /\ q[y].last => x <= y
    <2>1. PICK r, j : In(x, r, j)
        BY <1>3
    <2>2. PICK l, i : In(y, l, i)
        BY <1>3
    <2>3. r = l
        <3>1. KindOf(g, {r}, q[x]) /\ KindOf(g, {l}, q[y])
            BY <2>1, <2>2, <1>4
        <3> QED
            BY <3>1, <1>7 DEF Mates, KindOf
    <2>4. InPairs(ss[r])
        BY <2>1 DEF Runs
    <2>m. Mates(ss[r][j], ss[r][i]) /\ j \in 1..Len(ss[r]) /\ i \in 1..Len(ss[r])
        BY <2>1, <2>2, <2>3, <1>7
    <2>5. /\ ss[r][j].engine = ss[r][i].engine => j = i
          /\ ss[r][i].last => j <= i
        BY <2>4, <2>m, InPairsIs
    <2>6. at[r] \in Nat
        BY <2>1, <1>2
    <2>7. x = at[r] + j /\ y = at[r] + i /\ q[x] = ss[r][j] /\ q[y] = ss[r][i]
        BY <2>1, <2>2, <2>3
    <2>8. at[r] + j = at[r] + i <=> j = i
        BY <2>m, <2>6
    <2>9. at[r] + j <= at[r] + i <=> j <= i
        BY <2>m, <2>6
    <2> QED
        BY <2>5, <2>7, <2>8, <2>9
<1> QED
    BY <1>1, <1>5, <1>6, <1>7 DEF Runs, InPairs, q

\* The first answers and then the repetitions.
LEMMA RunsJoined ==
    ASSUME NEW g, NEW N \in Nat, NEW a, NEW b, Runs(g, {0}, a), Runs(g, 1..N, b)
    PROVE  /\ Runs(g, 0..N, a \o b)
           /\ \A m, n \in 1..Len(a \o b) : (a \o b)[m].rep = 0 /\ (a \o b)[n].rep # 0 => m < n
<1> DEFINE q == a \o b  A == Len(a)  B == Len(b)
<1>1. a \in Seq(Steps(g)) /\ b \in Seq(Steps(g)) /\ A \in Nat /\ B \in Nat
    BY DEF Runs
<1>2. /\ q \in Seq(Steps(g)) /\ Len(q) = A + B
      /\ \A i \in 1..A : i \in 1..Len(q) /\ q[i] = a[i]
      /\ \A i \in 1..B : A + i \in 1..Len(q) /\ q[A + i] = b[i]
    BY <1>1
<1>3. \A x \in 1..Len(q) : x \in 1..A \/ (x - A \in 1..B /\ x = A + (x - A))
    BY <1>1, <1>2
<1> HIDE DEF q, A, B
<1> DEFINE InA(x) == x \in 1..A /\ q[x] = a[x] /\ q[x].rep = 0
           InB(x) == x - A \in 1..B /\ q[x] = b[x - A] /\ q[x].rep \in 1..N
<1>4. ASSUME NEW x \in 1..Len(q) PROVE InA(x) \/ InB(x)
    <2>1. CASE x \in 1..A
        <3>1. KindOf(g, {0}, a[x])
            BY <2>1 DEF Runs, A
        <3> QED
            BY <1>2, <2>1, <3>1 DEF KindOf
    <2>2. CASE x - A \in 1..B /\ x = A + (x - A)
        <3>1. KindOf(g, 1..N, b[x - A])
            BY <2>2 DEF Runs, B
        <3>2. q[x] = b[x - A]
            BY <2>2, <1>2
        <3> QED
            BY <2>2, <3>1, <3>2 DEF KindOf
    <2> QED
        BY <1>3, <2>1, <2>2
<1>5. ASSUME NEW x \in 1..Len(q) PROVE KindOf(g, 0..N, q[x])
    <2>1. CASE InA(x)
        BY <2>1 DEF Runs, A, KindOf
    <2>2. CASE InB(x)
        BY <2>2 DEF Runs, B, KindOf
    <2> QED
        BY <1>4, <2>1, <2>2
<1>6. ASSUME NEW k \in DOMAIN g.cases, NEW r \in 0..N
      PROVE  Closes(q, k, r) /\ \A e \in Builds(g, k) : Makes(q, k, r, e)
    <2>1. CASE r = 0
        <3>1. Closes(a, k, 0) /\ \A e \in Builds(g, k) : Makes(a, k, 0, e)
            BY DEF Runs
        <3> QED
            BY <2>1, <3>1, <1>2 DEF Closes, Makes, A
    <2>2. CASE r \in 1..N
        <3>1. Closes(b, k, r) /\ \A e \in Builds(g, k) : Makes(b, k, r, e)
            BY <2>2 DEF Runs
        <3>2. \A n \in 1..Len(b) : A + n \in 1..Len(q) /\ q[A + n] = b[n]
            BY <1>2 DEF B
        <3>3. Closes(q, k, r)
            BY <3>1, <3>2 DEF Closes
        <3>4. \A e \in Builds(g, k) : Makes(q, k, r, e)
            BY <3>1, <3>2 DEF Makes
        <3> QED
            BY <3>3, <3>4
    <2> QED
        BY <2>1, <2>2
<1>7. ASSUME NEW x \in 1..Len(q), NEW y \in 1..Len(q), Mates(q[x], q[y])
      PROVE  /\ q[x].engine = q[y].engine => x = y
             /\ q[y].last => x <= y
    <2>1. CASE q[x].rep = 0
        <3>1. InA(x) /\ InA(y)
            <4>1. q[y].rep = 0 /\ 0 \notin 1..N
                BY <1>7, <2>1 DEF Mates
            <4> QED
                BY <1>4, <2>1, <4>1
        <3>2. InPairs(a)
            BY DEF Runs
        <3>3. Mates(a[x], a[y]) /\ x \in 1..Len(a) /\ y \in 1..Len(a)
            BY <3>1, <1>7 DEF A
        <3>4. /\ a[x].engine = a[y].engine => x = y
              /\ a[y].last => x <= y
            BY <3>2, <3>3, InPairsIs
        <3> QED
            BY <3>1, <3>4
    <2>2. CASE q[x].rep # 0
        <3>1. InB(x) /\ InB(y)
            <4>1. q[y].rep # 0
                BY <1>7, <2>2 DEF Mates
            <4> QED
                BY <1>4, <2>2, <4>1
        <3>2. InPairs(b)
            BY DEF Runs
        <3>4. Mates(b[x - A], b[y - A]) /\ x - A \in 1..Len(b) /\ y - A \in 1..Len(b)
            BY <3>1, <1>7 DEF B
        <3>5. /\ b[x - A].engine = b[y - A].engine => x - A = y - A
              /\ b[y - A].last => x - A <= y - A
            BY <3>2, <3>4, InPairsIs
        <3>3. /\ q[x].engine = q[y].engine => x - A = y - A
              /\ q[y].last => x - A <= y - A
            BY <3>1, <3>5
        <3> QED
            BY <3>3, <1>1
    <2> QED
        BY <2>1, <2>2
<1>8. ASSUME NEW m \in 1..Len(q), NEW n \in 1..Len(q), q[m].rep = 0, q[n].rep # 0 PROVE m < n
    <2>1. 0 \notin 1..N
        OBVIOUS
    <2>2. InA(m) /\ InB(n)
        BY <1>4, <1>8, <2>1
    <2> QED
        BY <2>2, <1>1
<1>9. Runs(g, 0..N, q)
    BY <1>2, <1>5, <1>6, <1>7 DEF Runs, InPairs
<1> QED
    BY <1>8, <1>9 DEF q

-----------------------------------------------------------------------------
\* The probes, the attempts in whole pairs with the first answers before any
\* other, and the rivals.
PlanHas(g, P, A) ==
    /\ Len(A) \in Nat \ {0} /\ Len(P) \in {Len(A) + 2, Len(A) + 3}
    /\ \A n \in 1..2 : P[n].phase = "probe"
    /\ \A n \in 1..Len(A) : P[n + 2] = A[n]
    /\ Len(P) = Len(A) + 3 => P[Len(A) + 3].phase = "rivals"
    /\ Runs(g, 0..g.reps, A)
    /\ \A m, n \in 1..Len(A) : A[m].rep = 0 /\ A[n].rep # 0 => m < n

LEMMA AttemptedIs ==
    ASSUME NEW g, QuickSetting(g), g.reps >= 1
    PROVE  LET A == Attempted(g)
           IN  /\ Len(A) \in Nat \ {0} /\ A \in Seq(Steps(g)) /\ Runs(g, 0..g.reps, A)
               /\ \A m, n \in 1..Len(A) : A[m].rep = 0 /\ A[n].rep # 0 => m < n
<1> DEFINE N == g.reps  ss == [rep \in 1..N |-> Pass(g, rep)]  a == Pass(g, 0)  b == FlattenSeq(ss)
<1>1. N \in Nat \ {0}
    BY DEF QuickSetting
<1>2. Len(ss) = N /\ \A r \in 1..N : ss[r] = Pass(g, r)
    BY <1>1
<1>p. ASSUME NEW r \in Int PROVE Runs(g, {r}, Pass(g, r))
    BY PassRuns
<1>3. \A r \in 1..N : Runs(g, {r}, ss[r])
    <2> HIDE DEF ss
    <2> QED
        BY <1>1, <1>2, <1>p
<1>4. Runs(g, 1..N, b)
    <2> HIDE DEF ss
    <2> QED
        BY <1>1, <1>2, <1>3, PassesRun
<1>5. Runs(g, {0}, a)
    BY PassRuns
<1>6. Attempted(g) = a \o b
    BY DEF Attempted
<1> HIDE DEF a, b, N
<1>7. /\ Runs(g, 0..N, a \o b)
      /\ \A m, n \in 1..Len(a \o b) : (a \o b)[m].rep = 0 /\ (a \o b)[n].rep # 0 => m < n
    <2>1. N \in Nat /\ Runs(g, {0}, a) /\ Runs(g, 1..N, b)
        BY <1>1, <1>4, <1>5
    <2> HIDE <1>1, <1>4, <1>5
    <2> QED
        BY <2>1, RunsJoined
<1>8. a \o b \in Seq(Steps(g))
    BY <1>7 DEF Runs
<1>9. Len(a \o b) \in Nat \ {0}
    <2>1. 1 \in DOMAIN g.cases
        BY DEF QuickSetting
    <2>2. Closes(a \o b, 1, 0)
        BY <1>1, <1>7, <2>1 DEF Runs
    <2> QED
        BY <1>8, <2>2 DEF Closes
<1> QED
    BY <1>6, <1>7, <1>8, <1>9 DEF N

LEMMA PlanIsOf ==
    ASSUME NEW g, QuickSetting(g), g.reps >= 1
    PROVE  Plan(g) = (<<Single("probe", "candidate"), Single("probe", "base")>> \o Attempted(g))
                        \o IF g.rivals THEN <<Single("rivals", "arch")>> ELSE <<>>
<1> DEFINE probes == [e \in 1..2 |-> Single("probe", Engines([paired |-> TRUE])[e])]
           first == [k \in DOMAIN g.cases |-> Attempts("hash-first", k, 0, Engines(g.cases[k]))]
           order(k, rep) == IF rep % 2 = 1 THEN Engines(g.cases[k]) ELSE Reverse(Engines(g.cases[k]))
           hot(rep) == FlattenSeq([k \in DOMAIN g.cases |-> Attempts("hot-fresh", k, rep, order(k, rep))])
           hots == [rep \in 1..g.reps |-> hot(rep)]
           passes == [rep \in 1..g.reps |-> Pass(g, rep)]
           rivals == IF g.rivals THEN <<Single("rivals", "arch")>> ELSE <<>>
<1>1. probes = <<Single("probe", "candidate"), Single("probe", "base")>>
    <2>1. Engines([paired |-> TRUE]) = <<"candidate", "base">>
        BY DEF Engines
    <2> QED
        BY <2>1
<1>2. FlattenSeq(first) = Pass(g, 0)
    BY DEF Pass, InOrder
<1>3. ASSUME NEW rep \in 1..g.reps PROVE hot(rep) = Pass(g, rep)
    <2>1. rep # 0
        BY DEF QuickSetting
    <2>2. \A k : InOrder(g, k, rep) = order(k, rep)
        BY <2>1 DEF InOrder
    <2>3. [k \in DOMAIN g.cases |-> Attempts("hot-fresh", k, rep, order(k, rep))]
          = [k \in DOMAIN g.cases |-> Attempts(IF rep = 0 THEN "hash-first" ELSE "hot-fresh", k, rep, InOrder(g, k, rep))]
        BY <2>1, <2>2
    <2> QED
        BY <2>3 DEF Pass
<1>4. hots = passes
    <2> HIDE DEF hot
    <2> QED
        BY <1>3
<1>5. Plan(g) = ((probes \o FlattenSeq(first)) \o FlattenSeq(hots)) \o rivals
    BY DEF Plan
<1>6. Attempted(g) = Pass(g, 0) \o FlattenSeq(passes)
    BY DEF Attempted
<1> DEFINE a == Pass(g, 0)  b == FlattenSeq(passes)
<1>7. /\ probes \in Seq({Single("probe", "candidate"), Single("probe", "base")} \cup Steps(g))
      /\ a \in Seq({Single("probe", "candidate"), Single("probe", "base")} \cup Steps(g))
      /\ b \in Seq({Single("probe", "candidate"), Single("probe", "base")} \cup Steps(g))
    <2>p. ASSUME NEW r \in Int PROVE Runs(g, {r}, Pass(g, r))
        BY PassRuns
    <2>0. Runs(g, {0}, a)
        BY <2>p
    <2>1. a \in Seq(Steps(g))
        BY <2>0 DEF Runs
    <2>2. b \in Seq(Steps(g))
        <3>1. g.reps \in Nat /\ Len(passes) = g.reps /\ (g.reps = 0 => passes = <<>>)
            BY DEF QuickSetting
        <3>2. \A r \in 1..g.reps : passes[r] = Pass(g, r) /\ Runs(g, {r}, Pass(g, r))
            BY <3>1, <2>p
        <3>3. \A r \in 1..g.reps : Runs(g, {r}, passes[r])
            BY <3>2
        <3> HIDE DEF passes
        <3> QED
            BY <3>1, <3>3, PassesRun DEF Runs
    <2> HIDE DEF a, b, probes
    <2> QED
        BY <1>1, <2>1, <2>2
<1> HIDE DEF a, b, probes, first, hots, passes, rivals
<1>8. (probes \o a) \o b = probes \o (a \o b)
    BY <1>7, ConcatAssociative
<1> QED
    BY <1>1, <1>2, <1>4, <1>5, <1>6, <1>8 DEF a, b, rivals

LEMMA PlanIs ==
    ASSUME NEW g, QuickSetting(g), g.reps >= 1
    PROVE  PlanHas(g, Plan(g), Attempted(g))
<1> DEFINE A == Attempted(g)  R == Len(A)  P == Plan(g)
           p == Single("probe", "candidate")  q == Single("probe", "base")  v == Single("rivals", "arch")
           S == Steps(g) \cup {p, q, v}
           front == <<p, q>> \o A  end == IF g.rivals THEN <<v>> ELSE <<>>
<1>1. /\ R \in Nat \ {0} /\ A \in Seq(Steps(g)) /\ Runs(g, 0..g.reps, A)
      /\ \A m, n \in 1..R : A[m].rep = 0 /\ A[n].rep # 0 => m < n
    BY AttemptedIs
<1>2. P = front \o end
    BY PlanIsOf
<1>3. p.phase = "probe" /\ q.phase = "probe" /\ v.phase = "rivals"
    BY DEF Single
<1> HIDE DEF A, P, p, q, v
<1>4. <<p, q>> \in Seq(S) /\ A \in Seq(S) /\ end \in Seq(S) /\ Len(end) \in 0..1 /\ (Len(end) = 1 => end[1] = v)
    <2>1. p \in S /\ q \in S /\ v \in S /\ Steps(g) \subseteq S
        OBVIOUS
    <2> HIDE DEF S
    <2>2. <<p, q>> \in Seq(S) /\ <<v>> \in Seq(S) /\ Len(<<v>>) = 1 /\ <<v>>[1] = v
        BY <2>1
    <2>3. A \in Seq(S)
        BY <1>1, <2>1
    <2>4. end = <<v>> \/ end = <<>>
        OBVIOUS
    <2> HIDE DEF end
    <2>5. CASE end = <<v>>
        BY <2>2, <2>3, <2>5
    <2>6. CASE end = <<>>
        BY <2>2, <2>3, <2>6
    <2> QED
        BY <2>4, <2>5, <2>6
<1> HIDE DEF S, end
<1>5. /\ front \in Seq(S) /\ Len(front) = R + 2 /\ front[1] = p /\ front[2] = q
      /\ \A n \in 1..R : front[n + 2] = A[n]
    BY <1>1, <1>4
<1> HIDE DEF front
<1>6. /\ Len(P) = R + 2 + Len(end)
      /\ \A n \in 1..R + 2 : P[n] = front[n]
      /\ Len(end) = 1 => P[R + 3] = end[1]
    <2>0. R \in Nat /\ Len(end) \in Nat
        BY <1>1, <1>4
    <2>1. /\ Len(P) = Len(front) + Len(end)
          /\ \A n \in 1..Len(front) : P[n] = front[n]
          /\ \A n \in 1..Len(end) : P[Len(front) + n] = end[n]
        <3>1. /\ Len(P) = Len(front) + Len(end)
              /\ \A i \in 1..Len(front) + Len(end) : P[i] = IF i <= Len(front) THEN front[i] ELSE end[i - Len(front)]
            <4>1. front \in Seq(S) /\ end \in Seq(S)
                BY <1>4, <1>5
            <4>2. /\ Len(front \o end) = Len(front) + Len(end)
                  /\ \A i \in 1..Len(front) + Len(end) :
                        (front \o end)[i] = IF i <= Len(front) THEN front[i] ELSE end[i - Len(front)]
                BY <4>1, ConcatProperties
            <4> QED
                BY <1>2, <4>2
        <3>2. Len(front) \in Nat
            BY <1>5, <2>0
        <3> QED
            BY <2>0, <3>1, <3>2
    <2>2. Len(end) = 1 => P[Len(front) + 1] = end[1]
        BY <2>1
    <2>3. Len(front) + 1 = R + 3
        BY <1>5, <2>0
    <2> QED
        BY <1>5, <2>1, <2>2, <2>3
<1>7. Len(P) \in {R + 2, R + 3}
    BY <1>1, <1>4, <1>6
<1>8. P[1] = p /\ P[2] = q /\ \A n \in 1..R : P[n + 2] = A[n]
    BY <1>1, <1>5, <1>6
<1>9. \A n \in 1..2 : P[n].phase = "probe"
    BY <1>3, <1>8
<1>10. Len(P) = R + 3 => P[R + 3].phase = "rivals"
    BY <1>1, <1>3, <1>4, <1>6
<1> QED
    BY <1>1, <1>7, <1>8, <1>9, <1>10 DEF PlanHas, A, P

\* Who is where on the plan.
LEMMA AtIs ==
    ASSUME NEW g, PlanHas(g, Plan(g), Attempted(g)), NEW n \in 1..Len(Plan(g))
    PROVE  LET R == Len(Attempted(g))  x == Plan(g)[n]
           IN  /\ x.phase = "probe" => n \in 1..2
               /\ x.phase = "rivals" => n = R + 3 /\ n = Len(Plan(g))
               /\ ~ HasNoRow(x) <=> n - 2 \in 1..R
               /\ n - 2 \in 1..R => x = Attempted(g)[n - 2] /\ (x.phase = "hash-first" <=> x.rep = 0)
               /\ n - 2 \in 1..R => (x.phase = "hot-fresh" <=> x.rep # 0)
<1> DEFINE A == Attempted(g)  R == Len(A)  P == Plan(g)
<1>1. /\ R \in Nat \ {0} /\ Len(P) \in {R + 2, R + 3} /\ \A i \in 1..2 : P[i].phase = "probe"
      /\ \A i \in 1..R : P[i + 2] = A[i]
      /\ Len(P) = R + 3 => P[R + 3].phase = "rivals"
      /\ \A i \in 1..R : KindOf(g, 0..g.reps, A[i])
    BY DEF PlanHas, Runs
<1> HIDE DEF A, P
<1>2. CASE n \in 1..2
    <2>1. P[n].phase = "probe" /\ n - 2 \notin 1..R
        BY <1>1, <1>2
    <2>2. HasNoRow(P[n]) /\ P[n].phase # "rivals"
        BY <2>1 DEF HasNoRow
    <2> QED
        BY <1>2, <2>1, <2>2 DEF P, A
<1>3. CASE n - 2 \in 1..R
    <2>1. P[n] = A[n - 2]
        <3>1. n = (n - 2) + 2
            BY <1>1
        <3> QED
            BY <1>1, <1>3, <3>1
    <2>2. P[n].phase = IF P[n].rep = 0 THEN "hash-first" ELSE "hot-fresh"
        BY <1>1, <1>3, <2>1 DEF KindOf
    <2> QED
        BY <1>1, <1>3, <2>1, <2>2 DEF HasNoRow, P, A
<1>4. CASE n = R + 3
    <2>1. P[n].phase = "rivals" /\ n = Len(P)
        BY <1>1, <1>4 DEF P
    <2> QED
        BY <1>1, <1>4, <2>1 DEF HasNoRow, P, A
<1> QED
    BY <1>1, <1>2, <1>3, <1>4 DEF P

-----------------------------------------------------------------------------
(* A worker from where it was, x, to where it is, y.                        *)

HasPlan(g) == PlanHas(g, Plan(g), Attempted(g))
Same(x, y) == x.at \in Nat /\ y.at = x.at /\ y.state = x.state /\ y.hashed = x.hashed

LEMMA RowsStay ==
    ASSUME NEW g, NEW x, NEW y, NEW all, NEW hashes, Same(x, y), OnPlan(g, x),
           RowsAre(g, x, all), HashedIs(g, x, hashes),
           y.pc \in Going => x.pc \in Going \ {"pair"}, y.pc # "pair"
    PROVE  RowsAre(g, y, all) /\ HashedIs(g, y, hashes)
<1>1. y.pc \in Going \/ y.state = "complete" => (x.pc \in Going \/ x.state = "complete") /\ x.pc # "pair"
    BY DEF Same, OnPlan, Ending
<1>2. x.pc # "pair" => Filed(g, y) = Filed(g, x)
    BY DEF Same, Filed
<1>3. RowsAre(g, y, all)
    BY <1>1, <1>2 DEF RowsAre, Same
<1>4. HashedIs(g, y, hashes)
    BY <1>1 DEF HashedIs, Same
<1> QED
    BY <1>3, <1>4

\* Through the steps of one attempt.
LEMMA GotoStays ==
    ASSUME NEW g, HasPlan(g), NEW x, NEW y, NEW o, NEW o2, OnPlan(g, x), Ready(g, x, o), Same(x, y),
           y.cmd = x.cmd, y.exc = x.exc, o2 = o \/ x.pc = "idle",
           \/ x.pc \in Early /\ y.pc \in Early \cup {"fork"}
           \/ x.pc \in Command /\ y.pc \in Command
           \/ x.pc = "rivals" /\ y.pc = "idle"
           \/ x.pc = "idle" /\ y.pc = "fork"
           \/ x.pc = "quiet" /\ y.pc = "journal"
           \/ x.pc \in Ending /\ y.pc \in Ending
           \/ y.pc = "dead"
    PROVE  OnPlan(g, y) /\ Ready(g, y, o2) /\ (y.pc \in Going => x.pc \in Going \ {"pair"}) /\ y.pc # "pair"
<1>1. Len(Plan(g)) \in Nat /\ Len(Plan(g)) >= 1 /\ Len(Attempted(g)) \in Nat
    BY DEF HasPlan, PlanHas
<1>2. CaseAt(g, y) = CaseAt(g, x)
    BY DEF CaseAt, Same
<1>3. (y.pc \in Going => x.pc \in Going \ {"pair"}) /\ y.pc # "pair"
    BY DEF Going, Busy, Early, Command, Ending
<1>4. OnPlan(g, y)
    <2>1. y.pc \in Early => x.pc \in Early
        BY DEF Early, Command, Ending
    <2>2. y.pc \in Busy => y.at \in 1..Len(Plan(g))
        BY <1>1 DEF OnPlan, Same, Early, Command, Ending, Busy
    <2>3. y.pc # "certify" /\ (y.state = "complete" => y.pc \in Ending)
        BY DEF OnPlan, Same, Early, Command, Ending
    <2>4. y.pc \in {"quiet", "journal", "pair"} \/ (y.pc \in Command /\ y.cmd # 1) =>
             x.pc \in {"quiet", "journal", "pair"} \/ (x.pc \in Command /\ x.cmd # 1)
        BY DEF OnPlan, Early, Command, Ending
    <2>5. y.pc \in {"idle", "rivals"} => y.cmd = 1
        BY DEF OnPlan, Early, Command, Ending
    <2> QED
        BY <2>1, <2>2, <2>3, <2>4, <2>5 DEF OnPlan, Same
<1>5. Ready(g, y, o2)
    <2>1. y.pc \in Command /\ y.cmd # 1 => x.pc \in Command /\ x.cmd # 1 /\ o2 = o
        BY DEF OnPlan, Early, Command, Ending
    <2>2. y.pc \in {"quiet", "journal"} => x.pc \in {"quiet", "journal"} /\ o2 = o
        BY DEF Early, Command, Ending
    <2> QED
        BY <1>2, <2>1, <2>2 DEF Ready
<1> QED
    BY <1>3, <1>4, <1>5

\* Where an exception leads.
LEMMA RaiseStays ==
    ASSUME NEW g, HasPlan(g), NEW x, NEW y, NEW o, NEW o2, OnPlan(g, x), Ready(g, x, o), Same(x, y),
           y.cmd = x.cmd, y.exc # "none", o2 = o \/ y.pc \notin Command, x.pc \notin Ending,
           y.pc \in {"drain", "unlink", "journal", "except"},
           y.pc \in Command => x.pc \in Command,
           y.pc = "journal" => x.pc \in Command \cup {"quiet"} /\ ~ HasNoRow(Plan(g)[x.at])
    PROVE  OnPlan(g, y) /\ Ready(g, y, o2) /\ (y.pc \in Going => x.pc \in Going \ {"pair"}) /\ y.pc # "pair"
<1>1. Len(Plan(g)) \in Nat /\ Len(Attempted(g)) \in Nat
    BY DEF HasPlan, PlanHas
<1>2. CaseAt(g, y) = CaseAt(g, x)
    BY DEF CaseAt, Same
<1>3. (y.pc \in Going => x.pc \in Going \ {"pair"}) /\ y.pc # "pair"
    BY DEF Going, Busy, Early, Command
<1>4. y.pc \in Busy => x.pc \in Busy /\ x.at \in 1..Len(Plan(g))
    BY DEF OnPlan, Busy, Command
<1>5. y.pc = "journal" => x.at - 2 \in 1..Len(Attempted(g))
    BY <1>4, AtIs DEF HasPlan, Busy
<1>6. OnPlan(g, y)
    <2>1. y.pc \notin Early /\ y.pc # "certify" /\ y.pc \notin {"idle", "rivals"}
        BY DEF Early
    <2>2. y.state # "complete"
        BY DEF OnPlan, Same
    <2>3. y.pc \in Command /\ y.cmd # 1 => x.at - 2 \in 1..Len(Attempted(g))
        BY DEF OnPlan
    <2> QED
        BY <1>4, <1>5, <2>1, <2>2, <2>3 DEF OnPlan, Same
<1>7. Ready(g, y, o2)
    BY <1>2 DEF Ready
<1> QED
    BY <1>3, <1>6, <1>7

\* On to the next step of the plan, whatever was made at this one.
StepsOn(g, x, y) ==
    /\ y.at = x.at + 1 /\ y.cmd = 1
    /\ y.pc = IF x.at = Len(Plan(g)) THEN "certify"
              ELSE CASE Plan(g)[x.at + 1].phase = "probe" -> "fork"
                     [] Plan(g)[x.at + 1].phase = "rivals" -> "rivals"
                     [] OTHER -> "idle"
    /\ y.state = x.state

LEMMA NextStays ==
    ASSUME NEW g, HasPlan(g), NEW x, NEW y, NEW o, OnPlan(g, x), x.pc \in Busy, StepsOn(g, x, y)
    PROVE  OnPlan(g, y) /\ Ready(g, y, o)
<1>1. Len(Plan(g)) \in Nat /\ x.at \in 1..Len(Plan(g))
    BY DEF HasPlan, PlanHas, OnPlan
<1>2. x.state # "complete"
    BY DEF OnPlan, Busy, Command, Ending
<1>3. y.pc \in {"certify", "fork", "rivals", "idle"} /\ (y.pc # "certify" => x.at # Len(Plan(g)))
      /\ (y.pc = "certify" => x.at = Len(Plan(g)))
    BY DEF StepsOn
<1>4. OnPlan(g, y)
    BY <1>1, <1>2, <1>3 DEF OnPlan, StepsOn, Early, Busy, Command
<1>5. Ready(g, y, o)
    BY <1>3 DEF Ready, StepsOn
<1> QED
    BY <1>4, <1>5

\* The rows after it: none is made by a step without rows, and one's is made
\* before the step is left.
LEMMA NextRows ==
    ASSUME NEW g, HasPlan(g), NEW x, NEW y, NEW all, NEW hashes, NEW hashes2, OnPlan(g, x), x.pc \in Busy,
           StepsOn(g, x, y), RowsAre(g, x, all), HashedIs(g, x, hashes),
           x.pc = "pair" \/ (x.pc = "settle" /\ HasNoRow(Plan(g)[x.at])),
           x.pc = "pair" /\ Attempted(g)[x.at - 2].last => Agreed(g, all, x.at - 2),
           y.hashed <=> (x.hashed \/ (x.pc = "pair" /\ EndsPass(g, Attempted(g)[x.at - 2]))),
           hashes2 <=> (hashes \/ (x.pc = "pair" /\ EndsPass(g, Attempted(g)[x.at - 2])))
    PROVE  RowsAre(g, y, all) /\ HashedIs(g, y, hashes2)
<1> DEFINE R == Len(Attempted(g))
<1>1. R \in Nat \ {0} /\ Len(Plan(g)) \in {R + 2, R + 3} /\ x.at \in 1..Len(Plan(g))
    BY DEF HasPlan, PlanHas, OnPlan
<1>2. y.at = x.at + 1 /\ y.state = x.state /\ y.pc # "pair"
    BY DEF StepsOn
<1>3. x.pc = "pair" => x.at - 2 \in 1..R
    BY DEF OnPlan
<1>4. x.pc # "pair" => x.at - 2 \notin 1..R /\ x.pc = "settle"
    BY <1>1, AtIs DEF HasPlan
<1> HIDE DEF R
<1>5. Filed(g, y) = Filed(g, x)
    <2>1. CASE x.pc = "pair"
        BY <1>1, <1>2, <1>3, <2>1 DEF Filed, R
    <2>2. CASE x.pc # "pair"
        <3>1. x.at \in Nat /\ R \in Nat /\ (x.at <= 2 \/ x.at > R + 2)
            BY <1>1, <1>4, <2>2
        <3>2. x.at <= 2 => Filed(g, x) = 0 /\ Filed(g, y) = 0
            BY <1>2, <2>2, <3>1 DEF Filed
        <3>3. x.at > R + 2 => Filed(g, x) = R /\ Filed(g, y) = R
            <4>1. x.at > R + 2 => x.at > 3 /\ x.at - 3 >= R /\ y.at > 3 /\ y.at - 3 > R
                BY <1>1, <1>2, <3>1 DEF R
            <4>2. x.at > R + 2 => Filed(g, x) = R
                BY <2>2, <3>1, <4>1 DEF Filed, R
            <4>3. x.at > R + 2 => Filed(g, y) = R
                BY <1>1, <1>2, <4>1 DEF Filed, R
            <4> QED
                BY <4>2, <4>3
        <3> QED
            BY <3>1, <3>2, <3>3
    <2> QED
        BY <2>1, <2>2
<1>6. AreOf(g, all, Filed(g, x)) /\ \A l \in 1..Len(all) : Attempted(g)[l].last /\ l + 2 < x.at => Agreed(g, all, l)
    BY DEF RowsAre, Going
<1>7. Filed(g, x) \in 0..R
    BY <1>1, <1>3 DEF Filed, R
<1>8. ASSUME NEW l \in 1..R, l + 2 < y.at PROVE l + 2 < x.at \/ (x.pc = "pair" /\ l = x.at - 2)
    BY <1>1, <1>2, <1>4, <1>8
<1>9. RowsAre(g, y, all)
    <2>1. Len(all) \in 0..R
        BY <1>6, <1>7 DEF AreOf
    <2>2. ASSUME NEW l \in 1..Len(all), Attempted(g)[l].last, l + 2 < y.at PROVE Agreed(g, all, l)
        <3>1. l \in 1..R
            BY <1>1, <2>1
        <3>2. l + 2 < x.at \/ (x.pc = "pair" /\ l = x.at - 2)
            BY <1>8, <2>2, <3>1
        <3> QED
            BY <1>6, <2>2, <3>2
    <2> QED
        BY <1>5, <1>6, <2>2 DEF RowsAre
<1>10. HashedIs(g, y, hashes2)
    <2>1. y.hashed => hashes2
        BY DEF HashedIs
    <2>2. ASSUME NEW l \in 1..R, l + 2 < y.at, EndsPass(g, Attempted(g)[l]) PROVE y.hashed
        <3>1. CASE l + 2 < x.at
            BY <2>2, <3>1 DEF HashedIs, R, Going
        <3>2. CASE x.pc = "pair" /\ l = x.at - 2
            BY <2>2, <3>2
        <3> QED
            BY <1>8, <2>2, <3>1, <3>2
    <2> QED
        BY <2>1, <2>2 DEF HashedIs, R
<1> QED
    BY <1>9, <1>10

\* The target is reached with every row.
LEMMA CertifyStays ==
    ASSUME NEW g, HasPlan(g), NEW x, NEW y, NEW o, NEW all, NEW hashes, OnPlan(g, x), x.pc = "certify",
           y.pc = "final", y.state = "complete", y.at = x.at, y.cmd = x.cmd, y.hashed = x.hashed,
           RowsAre(g, x, all), HashedIs(g, x, hashes)
    PROVE  OnPlan(g, y) /\ Ready(g, y, o) /\ RowsAre(g, y, all) /\ HashedIs(g, y, hashes)
<1>1. y.pc \notin Going /\ x.pc \in Going /\ y.pc \in Ending
    BY DEF Going, Busy, Command, Early, Ending
<1>2. OnPlan(g, y)
    BY <1>1 DEF OnPlan, Early, Busy, Command
<1>3. Ready(g, y, o)
    BY DEF Ready, Command
<1>4. Filed(g, y) = Filed(g, x)
    BY DEF Filed
<1>5. RowsAre(g, y, all)
    BY <1>1, <1>4 DEF RowsAre
<1>6. HashedIs(g, y, hashes)
    BY <1>1 DEF HashedIs
<1> QED
    BY <1>2, <1>3, <1>5, <1>6

\* What rows that are of the attempts have of them.
LEMMA AreOfIs ==
    ASSUME NEW g, HasPlan(g), NEW n \in Nat, n <= Len(Attempted(g)), NEW all, AreOf(g, all, n)
    PROVE  /\ \A i, j \in 1..n : Mates(all[i], all[j]) => Mates(Attempted(g)[i], Attempted(g)[j])
           /\ \A i, j \in 1..n : Mates(all[i], all[j]) /\ all[i].engine = all[j].engine => i = j
           /\ \A i, j \in 1..n : Mates(all[i], all[j]) /\ Attempted(g)[j].last => i <= j
           /\ \A i, j \in 1..n : all[i].rep = 0 /\ all[j].rep # 0 => i < j
           /\ \A i \in 1..n : all[i].phase = "hash-first" <=> all[i].rep = 0
<1> DEFINE A == Attempted(g)  R == Len(A)
<1>1. /\ R \in Nat /\ InPairs(A) /\ \A i \in 1..R : KindOf(g, 0..g.reps, A[i])
      /\ \A i, j \in 1..R : A[i].rep = 0 /\ A[j].rep # 0 => i < j
    BY DEF HasPlan, PlanHas, Runs
<1>2. \A i \in 1..n : i \in 1..R
    BY <1>1
<1>3. \A i \in 1..n : IsOf(all[i], A[i])
    BY DEF AreOf
<1> HIDE DEF A
<1>4. ASSUME NEW i \in 1..n, NEW j \in 1..n, Mates(all[i], all[j])
      PROVE  Mates(A[i], A[j]) /\ (all[i].engine = all[j].engine => i = j) /\ (A[j].last => i <= j)
    <2>1. i \in 1..R /\ j \in 1..R
        BY <1>2
    <2>2. Mates(A[i], A[j]) /\ (all[i].engine = all[j].engine <=> A[i].engine = A[j].engine)
        BY <1>3, <1>4 DEF Mates, IsOf
    <2> QED
        BY <1>1, <2>1, <2>2, InPairsIs
<1>5. ASSUME NEW i \in 1..n, NEW j \in 1..n, all[i].rep = 0, all[j].rep # 0 PROVE i < j
    BY <1>1, <1>2, <1>3, <1>5 DEF IsOf
<1>6. ASSUME NEW i \in 1..n PROVE all[i].phase = "hash-first" <=> all[i].rep = 0
    <2>1. KindOf(g, 0..g.reps, A[i]) /\ IsOf(all[i], A[i])
        BY <1>1, <1>2, <1>3
    <2> QED
        BY <2>1 DEF KindOf, IsOf
<1> QED
    BY <1>4, <1>5, <1>6 DEF A

\* A row more leaves the pairs before it as they were found.
LEMMA AgreedStays ==
    ASSUME NEW g, HasPlan(g), NEW n \in Nat, n + 1 <= Len(Attempted(g)), NEW all, NEW all2,
           AreOf(g, all, n), AreOf(g, all2, n + 1), \A i \in 1..n : all2[i] = all[i],
           NEW l \in 1..n, Attempted(g)[l].last, Agreed(g, all, l)
    PROVE  Agreed(g, all2, l)
<1>1. n + 1 \in Nat /\ Len(all) = n /\ Len(all2) = n + 1 /\ l \in 1..n + 1
    BY DEF AreOf
<1>2. /\ \A i, j \in 1..n + 1 : Mates(all2[i], all2[j]) /\ Attempted(g)[j].last => i <= j
      /\ \A i, j \in 1..n + 1 : all2[i].rep = 0 /\ all2[j].rep # 0 => i < j
    <2> DEFINE m == n + 1
    <2>1. m \in Nat /\ m <= Len(Attempted(g)) /\ AreOf(g, all2, m)
        OBVIOUS
    <2> HIDE DEF m
    <2>2. /\ \A i, j \in 1..m : Mates(all2[i], all2[j]) /\ Attempted(g)[j].last => i <= j
          /\ \A i, j \in 1..m : all2[i].rep = 0 /\ all2[j].rep # 0 => i < j
        BY <2>1, AreOfIs
    <2> QED
        BY <2>2 DEF m
<1>3. \A i \in 1..n + 1 : Mates(all2[i], all2[l]) => i \in 1..n
    BY <1>1, <1>2
<1>4. ASSUME NEW i \in 1..n, NEW j \in 1..n + 1, FirstAnswer(all2[j], all2[i]), Mates(all2[i], all2[l]) PROVE j \in 1..n
    <2>1. CASE all2[i].rep = 0
        <3>1. Mates(all2[j], all2[l])
            BY <1>4, <2>1 DEF FirstAnswer, Mates
        <3> QED
            BY <1>3, <3>1
    <2>2. CASE all2[i].rep # 0
        <3>1. j < i
            BY <1>1, <1>2, <1>4, <2>2 DEF FirstAnswer
        <3> QED
            BY <1>1, <3>1
    <2> QED
        BY <2>1, <2>2
<1>5. ASSUME NEW i \in 1..n + 1, Mates(all2[i], all2[l])
      PROVE  /\ \A j \in 1..n + 1 : Mates(all2[j], all2[l]) => Agree(g.cases[all2[l].case], all2[i], all2[j])
             /\ \A j \in 1..n + 1 : FirstAnswer(all2[j], all2[i]) => Identity(all2[i]) = Identity(all2[j])
    <2>1. i \in 1..n /\ all2[i] = all[i] /\ all2[l] = all[l]
        BY <1>3, <1>5
    <2>2. /\ \A j \in 1..n : Mates(all[j], all[l]) => Agree(g.cases[all[l].case], all[i], all[j])
          /\ \A j \in 1..n : FirstAnswer(all[j], all[i]) => Identity(all[i]) = Identity(all[j])
        BY <1>1, <1>5, <2>1 DEF Agreed
    <2>3. ASSUME NEW j \in 1..n + 1, Mates(all2[j], all2[l]) PROVE Agree(g.cases[all2[l].case], all2[i], all2[j])
        <3>1. j \in 1..n /\ all2[j] = all[j]
            BY <1>3, <2>3
        <3> QED
            BY <2>1, <2>2, <2>3, <3>1
    <2>4. ASSUME NEW j \in 1..n + 1, FirstAnswer(all2[j], all2[i]) PROVE Identity(all2[i]) = Identity(all2[j])
        <3>1. j \in 1..n /\ all2[j] = all[j]
            BY <1>4, <1>5, <2>1, <2>4
        <3> QED
            BY <2>1, <2>2, <2>4, <3>1
    <2> QED
        BY <2>3, <2>4
<1> QED
    BY <1>1, <1>5 DEF Agreed

LEMMA RowAdded ==
    ASSUME NEW g, HasPlan(g), NEW x, NEW y, NEW all, NEW all2, NEW hashes, OnPlan(g, x), Same(x, y),
           x.pc = "journal", y.pc = "pair", RowsAre(g, x, all), HashedIs(g, x, hashes),
           Len(all2) = Len(all) + 1, \A i \in 1..Len(all) : all2[i] = all[i],
           IsOf(all2[Len(all) + 1], Plan(g)[x.at]),
           Answered(g.cases[all2[Len(all) + 1].case], all2[Len(all) + 1].out)
    PROVE  RowsAre(g, y, all2) /\ HashedIs(g, y, hashes)
<1> DEFINE R == Len(Attempted(g))  n == x.at - 3
<1>1. R \in Nat \ {0} /\ x.at - 2 \in 1..R /\ x.at \in Nat /\ y.at = x.at /\ x.at \in 1..Len(Plan(g))
    BY DEF HasPlan, PlanHas, OnPlan, Same, Busy
<1>2. Plan(g)[x.at] = Attempted(g)[n + 1]
    <2>1. Plan(g)[x.at] = Attempted(g)[x.at - 2]
        BY <1>1, AtIs DEF HasPlan
    <2>2. x.at - 2 = n + 1
        BY <1>1
    <2> QED
        BY <2>1, <2>2
<1>3. n \in Nat /\ n + 1 <= R /\ Filed(g, x) = n /\ Filed(g, y) = n + 1
    <2>1. x.at >= 3 /\ x.at - 3 <= R
        BY <1>1
    <2>2. Filed(g, x) = n
        BY <1>1, <2>1 DEF Filed
    <2>3. Filed(g, y) = x.at - 2
        BY <1>1 DEF Filed
    <2> QED
        BY <1>1, <2>1, <2>2, <2>3
<1>4. AreOf(g, all, n) /\ \A l \in 1..n : Attempted(g)[l].last /\ l + 2 < x.at => Agreed(g, all, l)
    BY <1>3 DEF RowsAre, Going, Busy, AreOf
<1> HIDE DEF n
<1>5. AreOf(g, all2, n + 1)
    <2>1. Len(all) = n
        BY <1>4 DEF AreOf
    <2>2. ASSUME NEW i \in 1..n + 1 PROVE IsOf(all2[i], Attempted(g)[i]) /\ Answered(g.cases[all2[i].case], all2[i].out)
        <3>1. CASE i = n + 1
            BY <1>2, <2>1, <3>1
        <3>2. CASE i # n + 1
            <4>1. i \in 1..n
                BY <1>3, <3>2
            <4> QED
                BY <1>4, <2>1, <4>1 DEF AreOf
        <3> QED
            BY <3>1, <3>2
    <2> QED
        BY <2>1, <2>2 DEF AreOf
<1>6. ASSUME NEW l \in 1..n + 1, Attempted(g)[l].last, l + 2 < y.at PROVE Agreed(g, all2, l)
    <2>1. l \in 1..n
        BY <1>1, <1>3, <1>6 DEF n
    <2>2. Agreed(g, all, l)
        BY <1>1, <1>4, <1>6, <2>1
    <2>3. \A i \in 1..n : all2[i] = all[i]
        BY <1>4 DEF AreOf
    <2> QED
        BY <1>3, <1>4, <1>5, <1>6, <2>1, <2>2, <2>3, AgreedStays
<1>7. RowsAre(g, y, all2)
    BY <1>3, <1>5, <1>6 DEF RowsAre, AreOf
<1>8. HashedIs(g, y, hashes)
    BY <1>1 DEF HashedIs, Same, Going, Busy
<1> QED
    BY <1>7, <1>8

\* A pair whose rows agree, each with the first answer it finds.
PairOf(all, n, t) == {i \in 1..n : all[i].case = t.case /\ all[i].rep = t.rep}
FirstIn(all, n, row) ==
    CHOOSE j \in 1..n : all[j].phase = "hash-first" /\ all[j].case = row.case /\ all[j].engine = row.engine

LEMMA PairAgrees ==
    ASSUME NEW g, HasPlan(g), NEW n \in 1..Len(Attempted(g)), NEW all, AreOf(g, all, n),
           LET t == Attempted(g)[n]
           IN  \A i, j \in PairOf(all, n, t) : Agree(g.cases[t.case], all[i], all[j]),
           \A i \in PairOf(all, n, Attempted(g)[n]) : Identity(all[i]) = Identity(all[FirstIn(all, n, all[i])])
    PROVE  Agreed(g, all, n)
<1> DEFINE t == Attempted(g)[n]  pair == PairOf(all, n, t)
<1>1. n \in Nat /\ n <= Len(Attempted(g)) /\ n \in 1..n /\ Len(all) = n
    BY DEF HasPlan, PlanHas, AreOf
<1>2. /\ \A i, j \in 1..n : Mates(all[i], all[j]) /\ all[i].engine = all[j].engine => i = j
      /\ \A i \in 1..n : all[i].phase = "hash-first" <=> all[i].rep = 0
    <2>1. HasPlan(g) /\ n \in Nat /\ n <= Len(Attempted(g)) /\ AreOf(g, all, n)
        BY <1>1
    <2> QED
        BY <2>1, AreOfIs
<1>3. all[n].case = t.case /\ all[n].rep = t.rep
    BY <1>1 DEF AreOf, IsOf
<1>4. \A i \in 1..n : Mates(all[i], all[n]) <=> i \in pair
    BY <1>3 DEF Mates, PairOf
<1>i. \A i \in pair : i \in 1..n
    BY DEF PairOf
<1>5. ASSUME NEW i \in pair, NEW j \in 1..n, FirstAnswer(all[j], all[i]) PROVE Identity(all[i]) = Identity(all[j])
    <2> DEFINE First(k) == all[k].phase = "hash-first" /\ all[k].case = all[i].case /\ all[k].engine = all[i].engine
    <2>1. First(j)
        BY <1>2, <1>5 DEF FirstAnswer
    <2> DEFINE f == CHOOSE k \in 1..n : First(k)
    <2>2. f \in 1..n /\ First(f)
        BY <2>1
    <2>3. Identity(all[i]) = Identity(all[f])
        BY DEF FirstIn
    <2> HIDE DEF f
    <2>4. f = j
        BY <1>2, <1>5, <1>i, <2>1, <2>2 DEF Mates, FirstAnswer
    <2> QED
        BY <2>3, <2>4
<1>6. ASSUME NEW i \in 1..n, Mates(all[i], all[n])
      PROVE  /\ \A j \in 1..n : Mates(all[j], all[n]) => Agree(g.cases[all[n].case], all[i], all[j])
             /\ \A j \in 1..n : FirstAnswer(all[j], all[i]) => Identity(all[i]) = Identity(all[j])
    <2>1. i \in pair
        BY <1>4, <1>6
    <2>2. \A j \in 1..n : Mates(all[j], all[n]) => Agree(g.cases[all[n].case], all[i], all[j])
        BY <1>3, <1>4, <2>1
    <2> QED
        BY <1>5, <2>1, <2>2
<1> QED
    BY <1>1, <1>6 DEF Agreed

-----------------------------------------------------------------------------
(* What a report says.                                                      *)

\* Whatever the rows: what a report selects comes in whole pairs after the pass.
LEMMA PairsWhole ==
    ASSUME NEW g, NEW all, NEW state, NEW hashed, NEW hashes, hashed => hashes,
           NEW i \in Report(g, all, state, hashed).selected
    PROVE  hashes /\ \A e \in ToSet(Engines(g.cases[all[i].case])) :
                        Good(all, all[i].case, e, "hot-fresh", all[i].rep) # {}
<1>1. i \in DOMAIN all /\ Selected(g, all[i], all, hashed)
    BY DEF Report
<1>2. hashed /\ all[i].phase = "hot-fresh"
    BY <1>1 DEF Selected
<1>3. ASSUME NEW e \in ToSet(Engines(g.cases[all[i].case]))
      PROVE  Good(all, all[i].case, e, "hot-fresh", all[i].rep) # {}
    <2>1. PICK j \in DOMAIN all :
            /\ all[j].case = all[i].case /\ all[j].rep = all[i].rep /\ all[j].phase = all[i].phase
            /\ all[j].engine = e /\ all[j].status = "ok"
        BY <1>1 DEF Selected
    <2> QED
        BY <1>2, <2>1 DEF Good
<1> QED
    BY <1>2, <1>3

\* A report that does not say complete claims no more.
LEMMA OpenReport ==
    ASSUME NEW g, NEW all, NEW state \in {"incomplete", "deferred", "failed"}, NEW hashed, NEW hashes, hashed => hashes
    PROVE  EarnedBy(g, hashes, Report(g, all, state, hashed))
<1> DEFINE r == Report(g, all, state, hashed)
<1>1. r.state = state /\ r.rows = all /\ (r.gate = "not-applicable" \/ r.gate = state)
    BY DEF Report
<1>2. \A i \in r.selected : hashes /\ \A e \in ToSet(Engines(g.cases[all[i].case])) :
                        Good(all, all[i].case, e, "hot-fresh", all[i].rep) # {}
    BY PairsWhole
<1> HIDE DEF r
<1>3. EarnedBy(g, hashes, r)
    BY <1>1, <1>2 DEF EarnedBy
<1> QED
    BY <1>3 DEF r

LEMMA BareEarned ==
    ASSUME NEW g, NEW hashes, NEW state \in {"incomplete", "deferred", "failed"}
    PROVE  EarnedBy(g, hashes, BareReport(state)) /\ EarnedBy(g, hashes, NoReport)
    BY DEF EarnedBy, BareReport, NoReport

LEMMA DeferredEarned ==
    ASSUME NEW g, NEW all, NEW hashes
    PROVE  EarnedBy(g, hashes, [Report(g, all, "incomplete", FALSE) EXCEPT !.state = "deferred", !.gate = "deferred"])
<1> DEFINE m == Report(g, all, "incomplete", FALSE)
           r == [m EXCEPT !.state = "deferred", !.gate = "deferred"]
<1>1. r.state = "deferred" /\ r.rows = all /\ r.gate = "deferred" /\ r.selected = {}
    BY DEF Report, Selected
<1> HIDE DEF r
<1>2. EarnedBy(g, hashes, r)
    BY <1>1 DEF EarnedBy
<1> QED
    BY <1>2 DEF r

-----------------------------------------------------------------------------
(* A run whose rows are all there.                                          *)

LEMMA AgreeMay ==
    ASSUME NEW case, NEW a, NEW b, Agree(case, a, b)
    PROVE  MayDiffer(case, a, b)
<1>1. CASE Identity(a) = Identity(b)
    <2>1. Identity(a).bytes = a.out.bytes /\ Identity(b).bytes = b.out.bytes
        BY DEF Identity
    <2> QED
        BY <1>1, <2>1 DEF MayDiffer
<1>2. CASE Identity(a) # Identity(b)
    BY <1>2 DEF Agree, MayDiffer
<1> QED
    BY <1>1, <1>2

LEMMA AnsweredAnswers ==
    ASSUME NEW case, NEW a, Answered(case, a.out)
    PROVE  Answers(case, a)
    BY DEF Answered, OfCase, Answers

LEMMA SameAnswer ==
    ASSUME NEW case, NEW a, NEW b, Answered(case, a.out), Answered(case, b.out), Identity(a) = Identity(b)
    PROVE  a.out = b.out
<1> DEFINE o == a.out  p == b.out
<1>1. /\ Identity(a).exit = o.exit /\ Identity(a).bytes = o.bytes /\ Identity(a).outcome = o.outcome
      /\ Identity(b).exit = p.exit /\ Identity(b).bytes = p.bytes /\ Identity(b).outcome = p.outcome
    BY DEF Identity
<1>2. /\ o = [exit |-> o.exit, bytes |-> o.bytes, outcome |-> o.outcome, valid |-> o.valid]
      /\ p = [exit |-> p.exit, bytes |-> p.bytes, outcome |-> p.outcome, valid |-> p.valid]
      /\ o.valid \in BOOLEAN /\ p.valid \in BOOLEAN /\ (o.valid <=> p.valid)
    BY DEF Answered, OfCase
<1> HIDE DEF o, p
<1>3. o = p
    <2>1. o.valid = p.valid
        BY <1>2
    <2> QED
        BY <1>1, <1>2, <2>1
<1> QED
    BY <1>3 DEF o, p

\* The row of an attempt is the only one of its kind.
OnlyRow(g, all, i) ==
    LET t == Attempted(g)[i] IN Good(all, t.case, t.engine, PhaseOf(t.rep), t.rep) = {i}

LEMMA GoodIs ==
    ASSUME NEW g, HasPlan(g), NEW n \in Nat, n <= Len(Attempted(g)), NEW all, AreOf(g, all, n), DOMAIN all = 1..n,
           NEW i \in 1..n
    PROVE  OnlyRow(g, all, i)
<1> DEFINE k == Attempted(g)[i].case  rep == Attempted(g)[i].rep  e == Attempted(g)[i].engine
<1>1. \A a, b \in 1..n : Mates(all[a], all[b]) /\ all[a].engine = all[b].engine => a = b
    BY AreOfIs
<1>2. IsOf(all[i], Attempted(g)[i])
    BY DEF AreOf
<1>3. KindOf(g, 0..g.reps, Attempted(g)[i])
    <2>1. i \in 1..Len(Attempted(g))
        BY DEF HasPlan, PlanHas
    <2> QED
        BY <2>1 DEF HasPlan, PlanHas, Runs
<1>4. all[i].case = k /\ all[i].rep = rep /\ all[i].engine = e /\ all[i].status = "ok" /\ all[i].phase = PhaseOf(rep)
    BY <1>2, <1>3 DEF IsOf, KindOf, PhaseOf
<1>5. i \in Good(all, k, e, PhaseOf(rep), rep)
    BY <1>4 DEF Good
<1>6. ASSUME NEW j \in Good(all, k, e, PhaseOf(rep), rep) PROVE j = i
    <2>1. j \in 1..n /\ all[j].case = k /\ all[j].rep = rep /\ all[j].engine = e
        BY DEF Good
    <2> QED
        BY <1>1, <1>4, <2>1 DEF Mates
<1> QED
    BY <1>5, <1>6 DEF OnlyRow

\* A pair whose last attempt has agreed: what its two builds gave.
LEMMA PairEarned ==
    ASSUME NEW g, HasPlan(g), NEW n \in Nat, n <= Len(Attempted(g)), NEW all, AreOf(g, all, n), DOMAIN all = 1..n,
           NEW k \in DOMAIN g.cases, NEW rep \in 0..g.reps, NEW l \in 1..n, Attempted(g)[l].case = k,
           Attempted(g)[l].rep = rep, Agreed(g, all, l),
           NEW e1 \in Builds(g, k), NEW i \in Good(all, k, e1, PhaseOf(rep), rep)
    PROVE  /\ \A e2 \in Builds(g, k) : \A j \in Good(all, k, e2, PhaseOf(rep), rep) : MayDiffer(g.cases[k], all[i], all[j])
           /\ \A j \in Good(all, k, e1, "hash-first", 0) : all[i].out = all[j].out
           /\ Answers(g.cases[k], all[i])
<1>1. Len(all) = n /\ all[l].case = k /\ all[l].rep = rep
    BY DEF AreOf, IsOf
<1>2. i \in 1..n /\ all[i].case = k /\ all[i].rep = rep /\ all[i].engine = e1 /\ Mates(all[i], all[l])
    BY <1>1 DEF Good, Mates
<1>3. /\ \A j \in 1..n : Mates(all[j], all[l]) => Agree(g.cases[k], all[i], all[j])
      /\ \A j \in 1..n : FirstAnswer(all[j], all[i]) => Identity(all[i]) = Identity(all[j])
    BY <1>1, <1>2 DEF Agreed
<1>4. \A j \in 1..n : Answered(g.cases[all[j].case], all[j].out)
    BY DEF AreOf
<1>5. ASSUME NEW e2 \in Builds(g, k), NEW j \in Good(all, k, e2, PhaseOf(rep), rep) PROVE MayDiffer(g.cases[k], all[i], all[j])
    <2>1. j \in 1..n /\ Mates(all[j], all[l])
        BY <1>1 DEF Good, Mates
    <2> QED
        BY <1>3, <2>1, AgreeMay
<1>6. ASSUME NEW j \in Good(all, k, e1, "hash-first", 0) PROVE all[i].out = all[j].out
    <2>1. j \in 1..n /\ FirstAnswer(all[j], all[i]) /\ all[j].case = k
        BY <1>2 DEF Good, FirstAnswer
    <2>2. Identity(all[i]) = Identity(all[j]) /\ Answered(g.cases[k], all[i].out) /\ Answered(g.cases[k], all[j].out)
        BY <1>2, <1>3, <1>4, <2>1
    <2> QED
        BY <2>2, SameAnswer
<1>7. Answers(g.cases[k], all[i])
    BY <1>2, <1>4, AnsweredAnswers
<1> QED
    BY <1>5, <1>6, <1>7

\* Every attempt of the plan has its row, and every pair has agreed.
AllAgreed(g, all) ==
    /\ AreOf(g, all, Len(Attempted(g))) /\ DOMAIN all = 1..Len(Attempted(g))
    /\ \A l \in 1..Len(Attempted(g)) : Attempted(g)[l].last => Agreed(g, all, l)

LEMMA RowOf ==
    ASSUME NEW g, HasPlan(g), NEW all, AllAgreed(g, all), NEW k \in DOMAIN g.cases, NEW rep \in 0..g.reps,
           NEW e \in Builds(g, k)
    PROVE  \E i \in 1..Len(Attempted(g)) :
              /\ Good(all, k, e, PhaseOf(rep), rep) = {i}
              /\ all[i].case = k /\ all[i].rep = rep /\ all[i].engine = e /\ all[i].status = "ok"
              /\ all[i].phase = PhaseOf(rep)
<1> DEFINE A == Attempted(g)  R == Len(A)
<1>1. R \in Nat /\ Makes(A, k, rep, e)
    BY DEF HasPlan, PlanHas, Runs
<1>2. PICK i \in 1..R : A[i].case = k /\ A[i].rep = rep /\ A[i].engine = e
    BY <1>1 DEF Makes
<1>3. Good(all, k, e, PhaseOf(rep), rep) = {i}
    <2> DEFINE n == R
    <2>1. n \in Nat /\ n <= Len(Attempted(g)) /\ AreOf(g, all, n) /\ DOMAIN all = 1..n /\ i \in 1..n
        BY <1>1 DEF AllAgreed
    <2> DEFINE t == Attempted(g)[i]
    <2>2. t.case = k /\ t.rep = rep /\ t.engine = e
        BY <1>2
    <2>3. Good(all, t.case, t.engine, PhaseOf(t.rep), t.rep) = {i}
        <3> HIDE DEF n
        <3>1. OnlyRow(g, all, i)
            BY <2>1, GoodIs
        <3> QED
            BY <3>1 DEF OnlyRow
    <2> HIDE DEF t
    <2> QED
        BY <2>2, <2>3
<1>4. i \in Good(all, k, e, PhaseOf(rep), rep)
    BY <1>3
<1>5. /\ all[i].case = k /\ all[i].rep = rep /\ all[i].engine = e /\ all[i].status = "ok"
      /\ all[i].phase = PhaseOf(rep)
    BY <1>4 DEF Good
<1> QED
    BY <1>3, <1>5

LEMMA WholeSelected ==
    ASSUME NEW g, HasPlan(g), NEW all, AllAgreed(g, all), NEW k \in DOMAIN g.cases, NEW rep \in 1..g.reps,
           NEW i \in DOMAIN all, all[i].case = k, all[i].rep = rep, all[i].status = "ok", all[i].phase = "hot-fresh"
    PROVE  Selected(g, all[i], all, TRUE)
<1>1. rep \in 0..g.reps /\ PhaseOf(rep) = "hot-fresh"
    <2>1. rep # 0 /\ rep \in 0..g.reps
        OBVIOUS
    <2> QED
        BY <2>1 DEF PhaseOf
<1>2. ASSUME NEW e \in Builds(g, k)
      PROVE  \E j \in DOMAIN all :
                /\ all[j].case = all[i].case /\ all[j].rep = all[i].rep /\ all[j].phase = all[i].phase
                /\ all[j].engine = e /\ all[j].status = "ok"
    <2>1. PICK j \in 1..Len(Attempted(g)) :
              /\ all[j].case = k /\ all[j].rep = rep /\ all[j].engine = e /\ all[j].status = "ok"
              /\ all[j].phase = PhaseOf(rep)
        BY <1>1, RowOf
    <2> QED
        BY <1>1, <2>1 DEF AllAgreed
<1> QED
    BY <1>2 DEF Selected, Builds

\* A build's samples of a case are as many as there are repetitions.
LEMMA WholeComplete ==
    ASSUME NEW g, HasPlan(g), NEW all, AllAgreed(g, all), g.reps \in Nat
    PROVE  Complete(g, all, TRUE)
<1>1. ASSUME NEW k \in DOMAIN g.cases, NEW e \in Builds(g, k)
      PROVE  Cardinality({i \in DOMAIN all : /\ all[i].case = k /\ all[i].engine = e
                                             /\ Selected(g, all[i], all, TRUE)}) = g.reps
    <2> DEFINE S == {i \in DOMAIN all : /\ all[i].case = k /\ all[i].engine = e
                                        /\ Selected(g, all[i], all, TRUE)}
               Is(i, rep) == all[i].rep = rep
               f == [rep \in 1..g.reps |-> CHOOSE i \in S : Is(i, rep)]
    <2>1. ASSUME NEW rep \in 1..g.reps PROVE \E i \in S : Is(i, rep)
        <3>1. rep \in 0..g.reps /\ PhaseOf(rep) = "hot-fresh"
            <4>1. rep # 0 /\ rep \in 0..g.reps
                OBVIOUS
            <4> QED
                BY <4>1 DEF PhaseOf
        <3>2. PICK i \in 1..Len(Attempted(g)) :
                  /\ all[i].case = k /\ all[i].rep = rep /\ all[i].engine = e /\ all[i].status = "ok"
                  /\ all[i].phase = PhaseOf(rep)
            BY <3>1, RowOf
        <3>3. i \in DOMAIN all
            BY DEF AllAgreed
        <3>4. Selected(g, all[i], all, TRUE)
            BY <3>1, <3>2, <3>3, WholeSelected
        <3> QED
            BY <3>2, <3>3, <3>4
    <2>2. ASSUME NEW i \in S PROVE all[i].rep \in 1..g.reps
        <3>1. i \in 1..Len(Attempted(g)) /\ all[i].phase = "hot-fresh"
            BY DEF AllAgreed, Selected
        <3>2. KindOf(g, 0..g.reps, Attempted(g)[i]) /\ IsOf(all[i], Attempted(g)[i])
            BY <3>1 DEF HasPlan, PlanHas, Runs, AllAgreed, AreOf
        <3>3. all[i].rep \in 0..g.reps /\ all[i].rep # 0
            BY <3>1, <3>2 DEF KindOf, IsOf
        <3> QED
            BY <3>3
    <2>3. ASSUME NEW i \in S, NEW j \in S, all[i].rep = all[j].rep PROVE i = j
        <3>1. \A a, b \in 1..Len(Attempted(g)) : Mates(all[a], all[b]) /\ all[a].engine = all[b].engine => a = b
            <4>1. Len(Attempted(g)) \in Nat
                BY DEF HasPlan, PlanHas
            <4> QED
                BY <4>1, AreOfIs DEF AllAgreed
        <3>2. i \in 1..Len(Attempted(g)) /\ j \in 1..Len(Attempted(g)) /\ Mates(all[i], all[j]) /\ all[i].engine = all[j].engine
            BY <2>3 DEF AllAgreed, Mates
        <3> QED
            BY <3>1, <3>2
    <2> HIDE DEF S
    <2>4. ASSUME NEW rep \in 1..g.reps PROVE f[rep] \in S /\ all[f[rep]].rep = rep
        BY <2>1
    <2>5. f \in [1..g.reps -> S]
        BY <2>4
    <2> HIDE DEF f
    <2>6. \A a, b \in 1..g.reps : f[a] = f[b] => a = b
        BY <2>4
    <2>7. \A i \in S : \E rep \in 1..g.reps : f[rep] = i
        <3> TAKE i \in S
        <3>1. all[i].rep \in 1..g.reps
            BY <2>2
        <3>2. f[all[i].rep] = i
            BY <2>3, <2>4, <3>1
        <3> QED
            BY <3>1, <3>2
    <2>8. f \in Bijection(1..g.reps, S)
        BY <2>5, <2>6, <2>7 DEF Bijection, Injection, IsInjective, Surjection
    <2>9. ExistsBijection(1..g.reps, S)
        BY <2>8 DEF ExistsBijection
    <2> QED
        BY <2>9, FS_CountingElements DEF S
<1> QED
    BY <1>1 DEF Complete, Builds

LEMMA WholeEarned ==
    ASSUME NEW g, HasPlan(g), NEW all, AllAgreed(g, all), g.reps \in Nat
    PROVE  EarnedBy(g, TRUE, Report(g, all, "complete", TRUE))
<1> DEFINE r == Report(g, all, "complete", TRUE)
<1>1. r.complete = TRUE /\ r.rows = all /\ r.selected = {i \in DOMAIN all : Selected(g, all[i], all, TRUE)}
    BY WholeComplete DEF Report
<1>2. \A i \in r.selected : \A e \in ToSet(Engines(g.cases[all[i].case])) :
                        Good(all, all[i].case, e, "hot-fresh", all[i].rep) # {}
    BY PairsWhole
<1> HIDE DEF r
<1>3. ASSUME NEW k \in DOMAIN g.cases, NEW rep \in 1..g.reps, NEW e \in Builds(g, k)
      PROVE  /\ Cardinality(Good(all, k, e, "hot-fresh", rep)) = 1
             /\ \A i \in Good(all, k, e, "hot-fresh", rep) :
                  /\ i \in r.selected
                  /\ Answers(g.cases[k], all[i])
                  /\ \E j \in Good(all, k, e, "hash-first", 0) : all[i].out = all[j].out
                  /\ \A e2 \in Builds(g, k) :
                        \E j \in Good(all, k, e2, "hot-fresh", rep) : MayDiffer(g.cases[k], all[i], all[j])
    <2>1. rep \in 0..g.reps /\ 0 \in 0..g.reps /\ PhaseOf(rep) = "hot-fresh" /\ PhaseOf(0) = "hash-first"
        <3>1. rep # 0 /\ rep \in 0..g.reps /\ 0 \in 0..g.reps
            OBVIOUS
        <3> QED
            BY <3>1 DEF PhaseOf
    <2>r. ASSUME NEW q \in 0..g.reps, NEW e2 \in Builds(g, k) PROVE \E i : Good(all, k, e2, PhaseOf(q), q) = {i}
        <3>1. PICK i \in 1..Len(Attempted(g)) :
                  /\ Good(all, k, e2, PhaseOf(q), q) = {i}
                  /\ all[i].case = k /\ all[i].rep = q /\ all[i].engine = e2 /\ all[i].status = "ok"
                  /\ all[i].phase = PhaseOf(q)
            BY RowOf
        <3> QED
            BY <3>1
    <2>2. ASSUME NEW e2 \in Builds(g, k) PROVE \E i : Good(all, k, e2, "hot-fresh", rep) = {i}
        <3>1. \E i : Good(all, k, e2, PhaseOf(rep), rep) = {i}
            BY <2>1, <2>r
        <3> QED
            BY <2>1, <3>1
    <2>3. \E j : Good(all, k, e, "hash-first", 0) = {j}
        <3>1. \E i : Good(all, k, e, PhaseOf(0), 0) = {i}
            BY <2>1, <2>r
        <3> QED
            BY <2>1, <3>1
    <2>4. PICK l \in 1..Len(Attempted(g)) : Attempted(g)[l].case = k /\ Attempted(g)[l].rep = rep /\ Attempted(g)[l].last
        <3>1. Closes(Attempted(g), k, rep)
            BY <2>1 DEF HasPlan, PlanHas, Runs
        <3> QED
            BY <3>1 DEF Closes
    <2>5. Agreed(g, all, l)
        BY <2>4 DEF AllAgreed
    <2>6. ASSUME NEW i \in Good(all, k, e, "hot-fresh", rep)
          PROVE  /\ i \in r.selected
                 /\ Answers(g.cases[k], all[i])
                 /\ \E j \in Good(all, k, e, "hash-first", 0) : all[i].out = all[j].out
                 /\ \A e2 \in Builds(g, k) :
                       \E j \in Good(all, k, e2, "hot-fresh", rep) : MayDiffer(g.cases[k], all[i], all[j])
        <3>1. /\ \A e2 \in Builds(g, k) : \A j \in Good(all, k, e2, PhaseOf(rep), rep) : MayDiffer(g.cases[k], all[i], all[j])
              /\ \A j \in Good(all, k, e, "hash-first", 0) : all[i].out = all[j].out
              /\ Answers(g.cases[k], all[i])
            <4> DEFINE n == Len(Attempted(g))
            <4>1. /\ n \in Nat /\ n <= Len(Attempted(g)) /\ AreOf(g, all, n) /\ DOMAIN all = 1..n /\ l \in 1..n
                  /\ i \in Good(all, k, e, PhaseOf(rep), rep) /\ rep \in 0..g.reps
                BY <2>1 DEF HasPlan, PlanHas, AllAgreed
            <4> HIDE DEF n
            <4> QED
                BY <2>4, <2>5, <4>1, PairEarned
        <3>2. i \in r.selected
            <4>1. i \in DOMAIN all /\ all[i].case = k /\ all[i].rep = rep /\ all[i].status = "ok" /\ all[i].phase = "hot-fresh"
                BY DEF Good
            <4>2. Selected(g, all[i], all, TRUE)
                BY <4>1, WholeSelected
            <4> QED
                BY <1>1, <4>1, <4>2
        <3> QED
            BY <2>1, <2>2, <2>3, <3>1, <3>2
    <2>7. Cardinality(Good(all, k, e, "hot-fresh", rep)) = 1
        BY <2>2, FS_Singleton
    <2> QED
        BY <2>6, <2>7
<1>4. EarnedBy(g, TRUE, r)
    <2>1. r.complete /\ r.rows = all
        BY <1>1
    <2> HIDE <1>1
    <2>2. \A i \in r.selected : \A e \in ToSet(Engines(g.cases[r.rows[i].case])) :
                        Good(r.rows, r.rows[i].case, e, "hot-fresh", r.rows[i].rep) # {}
        BY <1>2, <2>1
    <2>3. \A k \in DOMAIN g.cases, rep \in 1..g.reps : \A e \in ToSet(Engines(g.cases[k])) :
             /\ Cardinality(Good(r.rows, k, e, "hot-fresh", rep)) = 1
             /\ \A i \in Good(r.rows, k, e, "hot-fresh", rep) :
                  /\ i \in r.selected
                  /\ Answers(g.cases[k], r.rows[i])
                  /\ \E j \in Good(r.rows, k, e, "hash-first", 0) : r.rows[i].out = r.rows[j].out
                  /\ \A e2 \in ToSet(Engines(g.cases[k])) :
                        \E j \in Good(r.rows, k, e2, "hot-fresh", rep) : MayDiffer(g.cases[k], r.rows[i], r.rows[j])
        BY <1>3, <2>1 DEF Builds
    <2> QED
        BY <2>1, <2>2, <2>3 DEF EarnedBy
<1> QED
    BY <1>4 DEF r

-----------------------------------------------------------------------------
(* What the worker's steps leave of a run.                                  *)

LEMMA PlanOfRun ==
    ASSUME Begun, c \notin {"load", "over"} \/ s # "off"
    PROVE  HasPlan(cfg)
<1>1. QuickSetting(cfg) /\ cfg.reps >= 1
    BY QuickAssumption DEF Begun, ValidConfig, QuickSetting
<1> QED
    BY <1>1, PlanIs DEF HasPlan

LEMMA PlanOfWorker ==
    ASSUME QuickInv, EarnedInv, w.pc # "off"
    PROVE  HasPlan(cfg)
<1>1. s # "off"
    BY DEF QuickInv, CoordinatorBegins
<1> QED
    BY <1>1, PlanOfRun DEF EarnedInv

LEMMA GotoIs ==
    ASSUME WorkerTypes, NEW p, Goto(p)
    PROVE  w'.pc = p /\ Same(w, w') /\ w'.cmd = w.cmd /\ w'.exc = w.exc
    BY DEF WorkerTypes, Goto, Same

LEMMA RaiseIs ==
    ASSUME WorkerTypes, NEW e \in {"expired", "deferred", "mismatch"}, RaiseAs(e)
    PROVE  w'.pc = Unwound(w.pc) /\ Same(w, w') /\ w'.cmd = w.cmd /\ w'.exc = e
    BY DEF WorkerTypes, RaiseAs, Same

\* Only what the worker's part of the invariant is about.
LEMMA WorkIs ==
    ASSUME cfg' = cfg, OnPlan(cfg, w'), Ready(cfg, w', out'), RowsAre(cfg, w', rows'),
           HashedIs(cfg, w', disk'.hashes)
    PROVE  EarnedWork'
    BY DEF EarnedWork

LEMMA WorkStays ==
    ASSUME EarnedWork, UNCHANGED <<cfg, w, out, rows>>, disk'.hashes = disk.hashes
    PROVE  EarnedWork'
    BY WorkIs DEF EarnedWork

LEMMA GotoWorks ==
    ASSUME WorkerTypes, EarnedWork, HasPlan(cfg), UNCHANGED <<cfg, rows>>, disk'.hashes = disk.hashes,
           NEW p, Goto(p), out' = out \/ w.pc = "idle",
           \/ w.pc \in Early /\ p \in Early \cup {"fork"}
           \/ w.pc \in Command /\ p \in Command
           \/ w.pc = "rivals" /\ p = "idle"
           \/ w.pc = "idle" /\ p = "fork"
           \/ w.pc = "quiet" /\ p = "journal"
           \/ w.pc \in Ending /\ p \in Ending
           \/ p = "dead"
    PROVE  EarnedWork'
<1> DEFINE x == w  y == w'  o == out  o2 == out'
<1>1. y.pc = p /\ Same(x, y) /\ y.cmd = x.cmd /\ y.exc = x.exc
    BY GotoIs
<1>2. OnPlan(cfg, x) /\ Ready(cfg, x, o) /\ RowsAre(cfg, x, rows) /\ HashedIs(cfg, x, disk.hashes)
    BY DEF EarnedWork
<1> HIDE DEF y, o2
<1>3. OnPlan(cfg, y) /\ Ready(cfg, y, o2) /\ (y.pc \in Going => x.pc \in Going \ {"pair"}) /\ y.pc # "pair"
    <2>1. o2 = o \/ x.pc = "idle"
        BY DEF o2
    <2> QED
        BY <1>1, <1>2, <2>1, GotoStays
<1>4. RowsAre(cfg, y, rows) /\ HashedIs(cfg, y, disk.hashes)
    BY <1>1, <1>2, <1>3, RowsStay
<1> QED
    BY <1>3, <1>4, WorkIs DEF y, o2

LEMMA RaiseWorks ==
    ASSUME WorkerTypes, EarnedWork, HasPlan(cfg), UNCHANGED <<cfg, rows>>, disk'.hashes = disk.hashes,
           NEW e \in {"expired", "deferred", "mismatch"}, RaiseAs(e), w.pc \notin Ending,
           out' = out \/ Unwound(w.pc) \notin Command
    PROVE  EarnedWork'
<1> DEFINE x == w  y == w'  o == out  o2 == out'
<1>1. y.pc = Unwound(x.pc) /\ Same(x, y) /\ y.cmd = x.cmd /\ y.exc # "none"
    BY RaiseIs
<1>2. OnPlan(cfg, x) /\ Ready(cfg, x, o) /\ RowsAre(cfg, x, rows) /\ HashedIs(cfg, x, disk.hashes)
    BY DEF EarnedWork
<1>3. /\ y.pc \in {"drain", "unlink", "journal", "except"}
      /\ y.pc \in Command => x.pc \in Command
      /\ y.pc = "journal" => x.pc \in Command \cup {"quiet"} /\ ~ HasNoRow(Plan(cfg)[x.at])
    <2>1. /\ Unwound(x.pc) \in {"drain", "unlink", "journal", "except"}
          /\ Unwound(x.pc) \in Command => x.pc \in Command
          /\ Unwound(x.pc) = "journal" => x.pc \in Command \cup {"quiet"} /\ ~ HasNoRow(This)
        BY DEF Unwound, Command
    <2> QED
        BY <1>1, <2>1 DEF This
<1> HIDE DEF y, o2
<1>4. OnPlan(cfg, y) /\ Ready(cfg, y, o2) /\ (y.pc \in Going => x.pc \in Going \ {"pair"}) /\ y.pc # "pair"
    <2>1. o2 = o \/ y.pc \notin Command
        BY <1>1 DEF o2
    <2> QED
        BY <1>1, <1>2, <1>3, <2>1, RaiseStays
<1>5. RowsAre(cfg, y, rows) /\ HashedIs(cfg, y, disk.hashes)
    BY <1>1, <1>2, <1>4, RowsStay
<1> QED
    BY <1>4, <1>5, WorkIs DEF y, o2

\* Once it is stopped, nothing more is claimed.
LEMMA StoppedWorks ==
    ASSUME WorkerTypes, EarnedWork, cfg' = cfg, disk'.hashes = disk.hashes, w'.pc \in {"except", "final", "write"},
           w'.state # "complete", w'.at = w.at, w'.cmd = w.cmd, w'.hashed = w.hashed
    PROVE  EarnedWork'
<1> DEFINE x == w  y == w'  o2 == out'  all2 == rows'
<1>1. OnPlan(cfg, x) /\ HashedIs(cfg, x, disk.hashes)
    BY DEF EarnedWork
<1>2. y.pc \in {"except", "final", "write"} /\ y.state # "complete" /\ y.at = x.at /\ y.cmd = x.cmd /\ y.hashed = x.hashed
    OBVIOUS
<1> HIDE DEF y, o2, all2
<1>3. OnPlan(cfg, y)
    BY <1>1, <1>2 DEF OnPlan, Early, Busy, Command
<1>4. Ready(cfg, y, o2)
    BY <1>2 DEF Ready, Command
<1>5. RowsAre(cfg, y, all2) /\ HashedIs(cfg, y, disk.hashes)
    BY <1>1, <1>2 DEF RowsAre, HashedIs, Going, Early, Busy, Command
<1> QED
    BY <1>3, <1>4, <1>5, WorkIs DEF y, o2, all2

LEMMA UnlinkWorks ==
    ASSUME WorkerTypes, DiskTypes, EarnedWork, HasPlan(cfg), Unlink
    PROVE  EarnedWork'
<1>0. w.pc = "unlink" /\ UNCHANGED <<cfg, rows, out>> /\ disk'.hashes = disk.hashes
    BY DEF Unlink, At, DiskTypes
<1>1. CASE w.exc = "none"
    <2>1. Goto("settle")
        BY <1>1 DEF Unlink
    <2> QED
        BY <1>0, <2>1, GotoWorks DEF Command
<1>2. CASE w.exc # "none"
    <2> DEFINE x == w  y == w'  o == out  p == IF HasNoRow(This) THEN "except" ELSE "journal"
    <2>1. Goto(p)
        BY <1>2 DEF Unlink
    <2>2. y.pc = p /\ Same(x, y) /\ y.cmd = x.cmd /\ y.exc # "none"
        <3> HIDE DEF p
        <3> QED
            BY <1>2, <2>1, GotoIs
    <2>3. OnPlan(cfg, x) /\ Ready(cfg, x, o) /\ RowsAre(cfg, x, rows) /\ HashedIs(cfg, x, disk.hashes)
        BY DEF EarnedWork
    <2>4. /\ p \in {"drain", "unlink", "journal", "except"} /\ p \notin Command
          /\ p = "journal" => ~ HasNoRow(Plan(cfg)[x.at])
        BY DEF This, Command
    <2> HIDE DEF y, p
    <2>5. OnPlan(cfg, y) /\ Ready(cfg, y, o) /\ (y.pc \in Going => x.pc \in Going \ {"pair"}) /\ y.pc # "pair"
        <3>1. x.pc \notin Ending /\ x.pc \in Command
            BY <1>0 DEF Ending, Command
        <3> QED
            BY <2>2, <2>3, <2>4, <3>1, RaiseStays
    <2>6. RowsAre(cfg, y, rows) /\ HashedIs(cfg, y, disk.hashes)
        BY <2>2, <2>3, <2>5, RowsStay
    <2> QED
        BY <1>0, <2>5, <2>6, WorkIs DEF y
<1> QED
    BY <1>1, <1>2

LEMMA NextStepIs ==
    ASSUME WorkerTypes
    PROVE  StepsOn(cfg, w, NextStep) /\ NextStep.hashed = w.hashed /\ NextStep.exc = w.exc
<1> DEFINE goes == IF w.at = Len(Plan(cfg)) THEN "certify"
                   ELSE CASE Plan(cfg)[w.at + 1].phase = "probe" -> "fork"
                          [] Plan(cfg)[w.at + 1].phase = "rivals" -> "rivals"
                          [] OTHER -> "idle"
<1>1. NextStep = [w EXCEPT !.at = @ + 1, !.cmd = 1, !.pc = goes]
    BY DEF NextStep
<1> HIDE DEF goes
<1>2. /\ NextStep.at = w.at + 1 /\ NextStep.cmd = 1 /\ NextStep.pc = goes /\ NextStep.state = w.state
      /\ NextStep.hashed = w.hashed /\ NextStep.exc = w.exc
    BY <1>1 DEF WorkerTypes
<1> QED
    BY <1>2 DEF StepsOn, goes

\* A step that makes no row.
LEMMA SettleWorks ==
    ASSUME WorkerTypes, EarnedWork, HasPlan(cfg), SettleProbe \/ SettleRivals
    PROVE  EarnedWork'
<1>0. w.pc = "settle" /\ UNCHANGED <<cfg, rows, out, disk>> /\ HasNoRow(Plan(cfg)[w.at])
    BY DEF SettleProbe, SettleRivals, At, This, HasNoRow
<1>1. CASE w' = NextStep
    <2> DEFINE x == w  y == w'  o == out  hashes == disk.hashes
    <2>1. StepsOn(cfg, x, y) /\ y.hashed = x.hashed
        BY <1>1, NextStepIs
    <2>2. OnPlan(cfg, x) /\ RowsAre(cfg, x, rows) /\ HashedIs(cfg, x, hashes)
        BY DEF EarnedWork
    <2>3. x.pc = "settle" /\ x.pc \in Busy /\ HasNoRow(Plan(cfg)[x.at])
        BY <1>0 DEF Busy, Command
    <2> HIDE DEF x, y, hashes
    <2>4. OnPlan(cfg, y) /\ Ready(cfg, y, o)
        BY <2>1, <2>2, <2>3, NextStays
    <2>5. RowsAre(cfg, y, rows) /\ HashedIs(cfg, y, hashes)
        BY <2>1, <2>2, <2>3, NextRows
    <2> QED
        BY <1>0, <2>4, <2>5, WorkIs DEF y, hashes
<1>2. ASSUME NEW e \in {"expired", "deferred", "mismatch"}, RaiseAs(e) PROVE EarnedWork'
    BY <1>0, <1>2, RaiseWorks DEF Ending
<1> QED
    BY <1>1, <1>2 DEF SettleProbe, SettleRivals

\* What a native command gave is as declared; a Parquet answer goes on to the
\* validators.
LEMMA SettleNativeWorks ==
    ASSUME WorkerTypes, EarnedWork, HasPlan(cfg), SettleNative
    PROVE  EarnedWork'
<1> DEFINE x == w  y == w'  o == out  o2 == out'  case == CaseAt(cfg, w)
<1>0. /\ x.pc = "settle" /\ x.cmd = 1 /\ UNCHANGED <<cfg, rows, disk>> /\ ~ HasNoRow(Plan(cfg)[x.at])
      /\ Case = case
    BY DEF SettleNative, At, This, Case, CaseAt
<1>1. ASSUME NEW e \in {"expired", "deferred", "mismatch"}, RaiseAs(e) PROVE EarnedWork'
    <2>1. Unwound(w.pc) \notin Command
        BY <1>0 DEF Unwound, Command
    <2> QED
        BY <1>0, <1>1, <2>1, RaiseWorks DEF Ending
<1>2. ASSUME NEW r, NEW row, row = [exit |-> r.exit, bytes |-> r.bytes, outcome |-> Outcome(Case, r), valid |-> FALSE],
             Outcome(Case, r) # "mismatch", out' = row,
             w' = IF Validated(Case, row) THEN [w EXCEPT !.pc = "fork", !.cmd = 2] ELSE [w EXCEPT !.pc = "quiet"]
      PROVE  EarnedWork'
    <2> DEFINE read == Validated(case, row)
    <2>1. OnPlan(cfg, x) /\ RowsAre(cfg, x, rows) /\ HashedIs(cfg, x, disk.hashes)
        BY DEF EarnedWork
    <2>2. Same(x, y) /\ y.exc = x.exc /\ (read => y.pc = "fork" /\ y.cmd = 2) /\ (~ read => y.pc = "quiet" /\ y.cmd = 1)
        BY <1>0, <1>2 DEF WorkerTypes, Same
    <2>3. OfCase(case, row)
        <3>1. row.exit = r.exit /\ row.bytes = r.bytes /\ row.outcome = Outcome(case, r) /\ row.valid = FALSE
            BY <1>0, <1>2
        <3>2. case.refusal => row.exit = 1 /\ row.bytes = 1 /\ row.outcome = "refusal"
            BY <1>0, <1>2, <3>1 DEF Outcome
        <3>3. ~ case.refusal => row.exit = 0 /\ row.outcome = "answer"
            BY <1>0, <1>2, <3>1 DEF Outcome
        <3>4. row = [exit |-> row.exit, bytes |-> row.bytes, outcome |-> row.outcome, valid |-> row.valid]
            BY <1>2, <3>1
        <3> HIDE DEF case
        <3> QED
            BY <3>1, <3>2, <3>3, <3>4 DEF OfCase
    <2>4. /\ read => case.output = "parquet" /\ ~ case.refusal
          /\ ~ read => (row.valid <=> case.output = "parquet" /\ ~ case.refusal)
        <3>1. row.valid = FALSE /\ (row.outcome = "answer" <=> ~ case.refusal)
            <4>1. row.valid = FALSE
                BY <1>2
            <4> HIDE DEF case
            <4> QED
                BY <2>3, <4>1 DEF OfCase
        <3> HIDE DEF case
        <3> QED
            BY <3>1 DEF Validated
    <2>5. x.at \in 1..Len(Plan(cfg)) /\ x.at - 2 \in 1..Len(Attempted(cfg))
        <3>1. x.at \in 1..Len(Plan(cfg))
            BY <1>0, <2>1 DEF OnPlan, Busy, Command
        <3> QED
            BY <1>0, <3>1, AtIs DEF HasPlan
    <2>c. CaseAt(cfg, y) = case
        BY <2>2 DEF CaseAt, Same
    <2>s. y.pc \in {"fork", "quiet"} /\ y.cmd \in 1..3
        BY <2>2
    <2> HIDE DEF y, read, case
    <2>6. OnPlan(cfg, y)
        BY <1>0, <2>1, <2>2, <2>5, <2>s DEF OnPlan, Early, Busy, Command, Same, Ending
    <2>7. Ready(cfg, y, row)
        BY <2>2, <2>3, <2>4, <2>c DEF Ready, Answered, Command
    <2>8. RowsAre(cfg, y, rows) /\ HashedIs(cfg, y, disk.hashes)
        BY <1>0, <2>1, <2>2, <2>s, RowsStay DEF Going, Busy, Command
    <2> QED
        BY <1>0, <1>2, <2>6, <2>7, <2>8, WorkIs DEF y
<1>3. ASSUME NEW r \in Results,
             LET outcome == Outcome(Case, r)
                 row == [exit |-> r.exit, bytes |-> r.bytes, outcome |-> outcome, valid |-> FALSE]
             IN  IF outcome = "mismatch"
                 THEN out' = [row EXCEPT !.outcome = "unknown"] /\ RaiseAs("mismatch")
                 ELSE /\ out' = row
                      /\ w' = IF Validated(Case, row) THEN [w EXCEPT !.pc = "fork", !.cmd = 2]
                              ELSE [w EXCEPT !.pc = "quiet"]
      PROVE  EarnedWork'
    <2>1. CASE Outcome(Case, r) = "mismatch"
        <3>1. RaiseAs("mismatch")
            BY <1>3, <2>1
        <3> QED
            BY <1>1, <3>1
    <2>2. CASE Outcome(Case, r) # "mismatch"
        <3> DEFINE row == [exit |-> r.exit, bytes |-> r.bytes, outcome |-> Outcome(Case, r), valid |-> FALSE]
        <3>1. out' = row /\ w' = IF Validated(Case, row) THEN [w EXCEPT !.pc = "fork", !.cmd = 2]
                                 ELSE [w EXCEPT !.pc = "quiet"]
            BY <1>3, <2>2
        <3>2. row = [exit |-> r.exit, bytes |-> r.bytes, outcome |-> Outcome(Case, r), valid |-> FALSE]
            OBVIOUS
        <3> HIDE DEF row
        <3> QED
            BY <1>2, <2>2, <3>1, <3>2
    <2> QED
        BY <2>1, <2>2
<1>4. RaiseAs("deferred") \/ \E r \in Results :
             LET outcome == Outcome(Case, r)
                 row == [exit |-> r.exit, bytes |-> r.bytes, outcome |-> outcome, valid |-> FALSE]
             IN  IF outcome = "mismatch"
                 THEN out' = [row EXCEPT !.outcome = "unknown"] /\ RaiseAs("mismatch")
                 ELSE /\ out' = row
                      /\ w' = IF Validated(Case, row) THEN [w EXCEPT !.pc = "fork", !.cmd = 2]
                              ELSE [w EXCEPT !.pc = "quiet"]
    BY DEF SettleNative
<1> QED
    BY <1>1, <1>3, <1>4

\* The second validator is the one that makes it valid.
LEMMA SettleValidatorWorks ==
    ASSUME WorkerTypes, EarnedWork, HasPlan(cfg), SettleValidator
    PROVE  EarnedWork'
<1> DEFINE x == w  y == w'  o == out  o2 == out'  case == CaseAt(cfg, w)
<1>0. x.pc = "settle" /\ x.cmd > 1 /\ UNCHANGED <<cfg, rows, disk>>
    BY DEF SettleValidator, At
<1>1. CASE RaiseAs("mismatch") /\ out' = out
    BY <1>0, <1>1, RaiseWorks DEF Ending
<1>2. CASE /\ w' = IF w.cmd = 2 THEN [w EXCEPT !.pc = "fork", !.cmd = 3] ELSE [w EXCEPT !.pc = "quiet"]
           /\ out' = [out EXCEPT !.valid = w.cmd = 3]
    <2>1. OnPlan(cfg, x) /\ Ready(cfg, x, o) /\ RowsAre(cfg, x, rows) /\ HashedIs(cfg, x, disk.hashes)
        BY DEF EarnedWork
    <2>2. /\ Same(x, y) /\ y.exc = x.exc
          /\ x.cmd = 2 => y.pc = "fork" /\ y.cmd = 3
          /\ x.cmd # 2 => y.pc = "quiet" /\ y.cmd = x.cmd
        BY <1>0, <1>2 DEF WorkerTypes, Same
    <2>3. x.cmd \in {2, 3}
        BY <1>0, <2>1 DEF OnPlan
    <2>4. /\ x.at \in 1..Len(Plan(cfg)) /\ x.at - 2 \in 1..Len(Attempted(cfg))
          /\ OfCase(case, o) /\ case.output = "parquet" /\ ~ case.refusal
        BY <1>0, <2>1, <2>3 DEF OnPlan, Busy, Command, Ready
    <2>5. OfCase(case, o2) /\ o2.valid = (x.cmd = 3)
        <3>1. /\ o2.exit = o.exit /\ o2.bytes = o.bytes /\ o2.outcome = o.outcome /\ o2.valid = (x.cmd = 3)
              /\ o2 = [exit |-> o2.exit, bytes |-> o2.bytes, outcome |-> o2.outcome, valid |-> o2.valid]
            BY <1>2, <2>4 DEF OfCase
        <3> HIDE DEF case, o2, o
        <3> QED
            BY <2>4, <3>1 DEF OfCase
    <2>c. CaseAt(cfg, y) = case
        BY <2>2 DEF CaseAt, Same
    <2>s. y.pc \in {"fork", "quiet"} /\ y.cmd \in 1..3
        BY <2>2, <2>3
    <2> HIDE DEF y, case, o2
    <2>6. OnPlan(cfg, y)
        BY <1>0, <2>1, <2>2, <2>4, <2>s DEF OnPlan, Early, Busy, Command, Same, Ending
    <2>7. Ready(cfg, y, o2)
        <3>1. y.pc = "quiet" => o2.valid
            BY <2>2, <2>3, <2>5
        <3> QED
            BY <2>4, <2>5, <2>c, <2>s, <3>1 DEF Ready, Answered, Command
    <2>8. RowsAre(cfg, y, rows) /\ HashedIs(cfg, y, disk.hashes)
        BY <1>0, <2>1, <2>2, <2>s, RowsStay DEF Going, Busy, Command
    <2> QED
        BY <1>0, <2>6, <2>7, <2>8, WorkIs DEF y, o2
<1> QED
    BY <1>1, <1>2 DEF SettleValidator

\* The row made now stands in memory, for itself and then on disk.
LEMMA JournalWorks ==
    ASSUME QuickInv, EarnedWork, HasPlan(cfg), Journal
    PROVE  EarnedWork' /\ Filing(w, out, rows, disk.hashes)'
<1>0. /\ w.pc = "journal" /\ cfg' = cfg /\ out' = out /\ WorkerTypes /\ disk'.hashes = disk.hashes
      /\ IsList(rows) /\ rows' = Append(rows, Row(Status)) /\ Goto("write")
    BY DEF Journal, At, QuickInv, DiskTypes, Listed
<1>1. w'.pc = "write" /\ Same(w, w') /\ w'.cmd = w.cmd /\ w'.exc = w.exc
    BY <1>0, GotoIs
<1>2. EarnedWork'
    <2>1. w.state # "complete"
        BY <1>0 DEF EarnedWork, OnPlan, Ending
    <2> QED
        BY <1>0, <1>1, <2>1, StoppedWorks DEF Same
<1>3. CASE w.exc = "none"
    <2> DEFINE x == w  y == [w' EXCEPT !.pc = "pair"]  n == Len(rows)  all2 == rows'  row == Row(Status)
    <2>2. y.pc = "pair" /\ Same(x, y) /\ y.cmd = x.cmd /\ y.exc = x.exc
        BY <1>0, <1>1 DEF WorkerTypes, Goto, Same
    <2>3. OnPlan(cfg, x) /\ Ready(cfg, x, out) /\ RowsAre(cfg, x, rows) /\ HashedIs(cfg, x, disk.hashes)
        BY DEF EarnedWork
    <2>4. Answered(CaseAt(cfg, x), out)
        BY <1>0, <1>3, <2>3 DEF Ready
    <2>5. IsOf(row, Plan(cfg)[x.at]) /\ row.out = out /\ row.case = Plan(cfg)[x.at].case
        BY <1>3 DEF IsOf, Row, Status, This
    <2> HIDE DEF row
    <2>6. Len(all2) = n + 1 /\ (\A i \in 1..n : all2[i] = rows[i]) /\ all2[n + 1] = row
        BY <1>0, AppendList DEF row
    <2> HIDE DEF y, all2
    <2>7. IsOf(all2[Len(rows) + 1], Plan(cfg)[x.at]) /\ Answered(cfg.cases[all2[Len(rows) + 1].case], all2[Len(rows) + 1].out)
        BY <2>4, <2>5, <2>6 DEF CaseAt
    <2>8. RowsAre(cfg, y, all2) /\ HashedIs(cfg, y, disk.hashes)
        BY <1>0, <2>2, <2>3, <2>6, <2>7, RowAdded
    <2>9. OnPlan(cfg, y)
        BY <1>0, <2>2, <2>3 DEF OnPlan, Early, Busy, Command, Same, Ending
    <2>10. Ready(cfg, y, out)
        BY <2>2 DEF Ready, Command
    <2> QED
        BY <1>0, <1>2, <2>8, <2>9, <2>10 DEF Filing, y, all2
<1>4. CASE w.exc # "none"
    BY <1>1, <1>2, <1>4 DEF Filing
<1> QED
    BY <1>3, <1>4

LEMMA WriteRowWorks ==
    ASSUME QuickInv, EarnedWork, Filing(w, out, rows, disk.hashes), WriteRow
    PROVE  EarnedWork'
<1>0. /\ w.pc = "write" /\ UNCHANGED <<cfg, out, rows>> /\ WorkerTypes /\ disk'.hashes = disk.hashes
    BY DEF WriteRow, At, QuickInv, DiskTypes
<1>1. CASE w.exc = "none"
    <2>1. w' = [w EXCEPT !.pc = "pair"]
        BY <1>1 DEF WriteRow, Goto
    <2>2. OnPlan(cfg, w') /\ Ready(cfg, w', out) /\ RowsAre(cfg, w', rows) /\ HashedIs(cfg, w', disk.hashes)
        BY <1>0, <1>1, <2>1 DEF Filing
    <2> QED
        BY <1>0, <2>2, WorkIs
<1>2. CASE w.exc # "none"
    <2>1. Goto("except")
        BY <1>2 DEF WriteRow
    <2>2. w'.pc = "except" /\ Same(w, w') /\ w'.cmd = w.cmd
        BY <1>0, <2>1, GotoIs
    <2>3. w.state # "complete"
        BY <1>0 DEF EarnedWork, OnPlan, Ending
    <2> QED
        BY <1>0, <2>2, <2>3, StoppedWorks DEF Same
<1> QED
    BY <1>1, <1>2

LEMMA PairWorks ==
    ASSUME QuickInv, EarnedWork, HasPlan(cfg), Pair
    PROVE  EarnedWork'
<1>0. w.pc = "pair" /\ cfg' = cfg /\ out' = out /\ WorkerTypes /\ DiskTypes /\ IsList(rows)
    BY DEF Pair, At, QuickInv, Listed
<1>1. ASSUME RaiseAs("mismatch"), disk' = disk PROVE EarnedWork'
    <2>1. w'.pc = "except" /\ Same(w, w') /\ w'.cmd = w.cmd
        BY <1>0, <1>1, RaiseIs DEF Unwound
    <2>2. w.state # "complete"
        BY <1>0 DEF EarnedWork, OnPlan, Ending
    <2> QED
        BY <1>0, <1>1, <2>1, <2>2, StoppedWorks DEF Same
<1>2. ASSUME ~ (This.last /\ \E i, j \in PairRows : ~ Agree(Case, rows[i], rows[j])), ~ (This.last /\ Changed # {}),
             rows' = rows, disk' = [disk EXCEPT !.hashes = @ \/ HashPassEnds],
             w' = [NextStep EXCEPT !.hashed = @ \/ HashPassEnds]
      PROVE  EarnedWork'
    <2> DEFINE x == w  y == w'  n == w.at - 2  t == Attempted(cfg)[n]  hashes == disk.hashes  hashes2 == disk'.hashes
    <2>1. OnPlan(cfg, x) /\ RowsAre(cfg, x, rows) /\ HashedIs(cfg, x, hashes)
        BY DEF EarnedWork
    <2>2. n \in 1..Len(Attempted(cfg)) /\ x.at \in 1..Len(Plan(cfg)) /\ This = t /\ (t.phase = "hash-first" <=> t.rep = 0)
        <3>1. n \in 1..Len(Attempted(cfg)) /\ x.at \in 1..Len(Plan(cfg))
            BY <1>0, <2>1 DEF OnPlan, Busy
        <3>2. PlanHas(cfg, Plan(cfg), Attempted(cfg))
            BY DEF HasPlan
        <3>3. /\ Plan(cfg)[x.at] = Attempted(cfg)[x.at - 2]
              /\ Plan(cfg)[x.at].phase = "hash-first" <=> Plan(cfg)[x.at].rep = 0
            BY <3>1, <3>2, AtIs
        <3> QED
            BY <3>1, <3>3 DEF This
    <2>3. AreOf(cfg, rows, n) /\ DOMAIN rows = 1..n
        <3>1. AreOf(cfg, rows, n)
            BY <1>0, <2>1 DEF RowsAre, Going, Busy, Filed
        <3> QED
            BY <1>0, <3>1 DEF AreOf, IsList
    <2>4. HashPassEnds <=> EndsPass(cfg, t)
        BY <2>2 DEF HashPassEnds, EndsPass
    <2>5. /\ StepsOn(cfg, x, y)
          /\ y.hashed <=> (x.hashed \/ EndsPass(cfg, t))
          /\ hashes2 <=> (hashes \/ EndsPass(cfg, t))
        <3> DEFINE z == NextStep
        <3>1. StepsOn(cfg, x, z) /\ z.hashed = x.hashed
            BY <1>0, NextStepIs
        <3>2. z \in [pc : WorkerPCs, at : Nat, cmd : Nat, exc : {"none", "expired", "deferred", "mismatch"},
                            state : {"incomplete", "complete", "deferred", "failed"}, hashed : BOOLEAN]
            BY <1>0, NextStepW
        <3>3. y = [z EXCEPT !.hashed = @ \/ HashPassEnds]
            BY <1>2
        <3> HIDE DEF z, y
        <3>4. /\ y.pc = z.pc /\ y.at = z.at /\ y.cmd = z.cmd /\ y.state = z.state
              /\ y.hashed = (z.hashed \/ HashPassEnds)
            BY <3>2, <3>3
        <3>5. hashes2 = (disk.hashes \/ HashPassEnds)
            BY <1>0, <1>2 DEF DiskTypes
        <3>6. StepsOn(cfg, x, y)
            BY <3>1, <3>4 DEF StepsOn
        <3> HIDE DEF hashes2
        <3>7. y.hashed <=> (x.hashed \/ EndsPass(cfg, t))
            BY <2>4, <3>1, <3>4
        <3>8. hashes2 <=> (hashes \/ EndsPass(cfg, t))
            BY <2>4, <3>5
        <3> QED
            BY <3>6, <3>7, <3>8
    <2>6. ASSUME t.last PROVE Agreed(cfg, rows, n)
        <3> DEFINE pair == PairOf(rows, n, t)
        <3>1. PairRows = pair
            BY <2>2, <2>3 DEF PairRows, PairOf
        <3>2. \A i, j \in pair : Agree(cfg.cases[t.case], rows[i], rows[j])
            BY <1>2, <2>2, <2>6, <3>1 DEF Case
        <3>3. \A i \in pair : Identity(rows[i]) = Identity(rows[FirstIn(rows, n, rows[i])])
            <4>1. \A i \in pair : Identity(rows[i]) = Identity(rows[FirstOf(rows[i])])
                BY <1>2, <2>2, <2>6, <3>1 DEF Changed
            <4>2. \A i : FirstOf(rows[i]) = FirstIn(rows, n, rows[i])
                BY <2>3 DEF FirstOf, FirstIn
            <4> QED
                BY <4>1, <4>2
        <3> HIDE DEF n
        <3> QED
            BY <2>2, <2>3, <3>2, <3>3, PairAgrees
    <2>7. OnPlan(cfg, y) /\ Ready(cfg, y, out)
        <3> HIDE DEF y
        <3> QED
            BY <1>0, <2>1, <2>5, NextStays DEF Busy
    <2>8. RowsAre(cfg, y, rows) /\ HashedIs(cfg, y, hashes2)
        <3> HIDE DEF y, hashes, hashes2
        <3>1. x.pc = "pair" /\ x.pc \in Busy
            BY <1>0 DEF Busy
        <3> QED
            BY <2>1, <2>5, <2>6, <3>1, NextRows
    <2> QED
        BY <1>0, <1>2, <2>7, <2>8, WorkIs
<1> QED
    BY <1>1, <1>2 DEF Pair

LEMMA CertifyWorks ==
    ASSUME WorkerTypes, EarnedWork, HasPlan(cfg), Certify
    PROVE  EarnedWork'
<1> DEFINE x == w  y == w'  o2 == out'
<1>1. /\ x.pc = "certify" /\ UNCHANGED <<cfg, rows, disk>>
      /\ y.pc = "final" /\ y.state = "complete" /\ y.at = x.at /\ y.cmd = x.cmd /\ y.hashed = x.hashed
    BY DEF Certify, At, WorkerTypes
<1>2. OnPlan(cfg, x) /\ RowsAre(cfg, x, rows) /\ HashedIs(cfg, x, disk.hashes)
    BY DEF EarnedWork
<1> HIDE DEF y, o2
<1>3. OnPlan(cfg, y) /\ Ready(cfg, y, o2) /\ RowsAre(cfg, y, rows) /\ HashedIs(cfg, y, disk.hashes)
    BY <1>1, <1>2, CertifyStays
<1> QED
    BY <1>1, <1>3, WorkIs DEF y, o2

LEMMA ExceptWorks ==
    ASSUME WorkerTypes, EarnedWork, Except
    PROVE  EarnedWork'
<1>1. /\ w'.pc = "final" /\ w'.state # "complete" /\ w'.at = w.at /\ w'.cmd = w.cmd /\ w'.hashed = w.hashed
      /\ UNCHANGED <<cfg, disk>>
    BY DEF Except, WorkerTypes
<1> QED
    BY <1>1, StoppedWorks

\* The worker's steps through an attempt, and what stops it there.
LEMMA StepWorks ==
    ASSUME QuickInv, EarnedWork, HasPlan(cfg),
           WorkerBoots \/ SaveRequest \/ WorkerLock \/ Admit \/ Verify \/ Idle \/ Fork \/ Assign \/ SaveActive
           \/ Poll \/ Drain \/ CheckRivals \/ Quiet \/ FinalDrain \/ IgnoreTerm \/ WriteReport
    PROVE  EarnedWork'
<1>0. WorkerTypes /\ DiskTypes
    BY DEF QuickInv
<1>1. UNCHANGED <<cfg, rows>> /\ disk'.hashes = disk.hashes
    BY <1>0 DEF WorkerBoots, SaveRequest, WorkerLock, Admit, Verify, Idle, Fork, Assign, SaveActive,
                Poll, Drain, CheckRivals, Quiet, FinalDrain, IgnoreTerm, WriteReport, DiskTypes
<1>2. out' = out \/ w.pc = "idle"
    BY DEF WorkerBoots, SaveRequest, WorkerLock, Admit, Verify, Idle, Fork, Assign, SaveActive, At,
           Poll, Drain, CheckRivals, Quiet, FinalDrain, IgnoreTerm, WriteReport
<1>3. CASE UNCHANGED w
    BY <1>0, <1>1, <1>2, <1>3, WorkStays DEF Verify, At, EarnedWork, Ready, Command, OnPlan, Same
<1>4. CASE \E p : /\ Goto(p)
                  /\ \/ w.pc \in Early /\ p \in Early \cup {"fork"}
                     \/ w.pc \in Command /\ p \in Command
                     \/ w.pc = "rivals" /\ p = "idle"
                     \/ w.pc = "idle" /\ p = "fork"
                     \/ w.pc = "quiet" /\ p = "journal"
                     \/ w.pc \in Ending /\ p \in Ending
                     \/ p = "dead"
    BY <1>0, <1>1, <1>2, <1>4, GotoWorks
<1>5. CASE \E e \in {"expired", "deferred", "mismatch"} : RaiseAs(e) /\ w.pc \in {"lock", "admit", "verify", "idle", "rivals", "quiet"}
    <2>1. Unwound(w.pc) \notin Command /\ w.pc \notin Ending
        BY <1>5 DEF Unwound, Command, Ending
    <2> QED
        BY <1>0, <1>1, <1>5, <2>1, RaiseWorks
<1> DEFINE Goes(p) == /\ Goto(p)
                      /\ \/ w.pc \in Early /\ p \in Early \cup {"fork"}
                         \/ w.pc \in Command /\ p \in Command
                         \/ w.pc = "rivals" /\ p = "idle"
                         \/ w.pc = "idle" /\ p = "fork"
                         \/ w.pc = "quiet" /\ p = "journal"
                         \/ w.pc \in Ending /\ p \in Ending
                         \/ p = "dead"
           Raises == \E e \in {"expired", "deferred", "mismatch"} :
                        RaiseAs(e) /\ w.pc \in {"lock", "admit", "verify", "idle", "rivals", "quiet"}
<1>6. (\E p : Goes(p)) \/ Raises \/ w' = w
    <2>1. WorkerBoots \/ SaveRequest => \E p : Goes(p)
        BY DEF WorkerBoots, SaveRequest, At, Early
    <2>2. WorkerLock \/ Admit => (\E p : Goes(p)) \/ Raises
        BY DEF WorkerLock, Admit, At, Early
    <2>3. Verify => (\E p : Goes(p)) \/ Raises \/ w' = w
        BY DEF Verify, At, Early
    <2>4. Idle \/ CheckRivals \/ Quiet => (\E p : Goes(p)) \/ Raises
        BY DEF Idle, CheckRivals, Quiet, At
    <2>5. Fork \/ Assign \/ SaveActive \/ Poll \/ Drain => \E p : Goes(p)
        BY DEF Fork, Assign, SaveActive, Poll, Drain, At, Command
    <2>6. FinalDrain \/ IgnoreTerm \/ WriteReport => \E p : Goes(p)
        BY DEF FinalDrain, IgnoreTerm, WriteReport, At, Ending
    <2> HIDE DEF Goes, Raises
    <2> QED
        BY <2>1, <2>2, <2>3, <2>4, <2>5, <2>6
<1> QED
    BY <1>3, <1>4, <1>5, <1>6

LEMMA SignalWorks ==
    ASSUME QuickInv, EarnedWork, HasPlan(cfg), BudgetExpired \/ TakeTerm
    PROVE  EarnedWork'
<1>0. WorkerTypes /\ UNCHANGED <<cfg, rows, out, disk>>
    BY DEF QuickInv, BudgetExpired, TakeTerm
<1>1. CASE RaiseAs("expired") /\ w.pc \notin Ending
    BY <1>0, <1>1, RaiseWorks
<1>2. CASE w' = w
    BY <1>0, <1>2, WorkStays
<1>3. CASE Goto("dead")
    BY <1>0, <1>3, GotoWorks
<1>4. CASE w.pc = "except" /\ w' = [w EXCEPT !.pc = "final"]
    <2>1. w'.pc = "final" /\ w'.state = w.state /\ w'.at = w.at /\ w'.cmd = w.cmd /\ w'.hashed = w.hashed
        BY <1>0, <1>4 DEF WorkerTypes
    <2>2. w.state # "complete"
        BY <1>4 DEF EarnedWork, OnPlan, Ending
    <2> QED
        BY <1>0, <2>1, <2>2, StoppedWorks
<1>5. BudgetExpired => RaiseAs("expired") /\ w.pc \notin Ending
    BY DEF BudgetExpired, Ending
<1>6. TakeTerm => \/ RaiseAs("expired") /\ w.pc \notin Ending
                  \/ w' = w
                  \/ Goto("dead")
                  \/ w.pc = "except" /\ w' = [w EXCEPT !.pc = "final"]
    BY DEF TakeTerm, Ended, Ending
<1> QED
    BY <1>1, <1>2, <1>3, <1>4, <1>5, <1>6

LEMMA WorkerWorks ==
    ASSUME QuickInv, EarnedInv, Worker
    PROVE  EarnedWork' /\ Filing(w, out, rows, disk.hashes)' /\ HasPlan(cfg)
<1>1. w.pc # "off"
    BY DEF Worker, WorkerBoots, SaveRequest, WorkerLock, Admit, Verify, Idle, Fork, Assign, SaveActive, Poll, Drain,
           Unlink, CheckRivals, SettleRivals, SettleProbe, SettleNative, SettleValidator, Quiet, Journal, WriteRow, Pair,
           Certify, Except, FinalDrain, IgnoreTerm, WriteReport, BudgetExpired, TakeTerm, At, QuickInv, WindsUp
<1>2. HasPlan(cfg) /\ EarnedWork /\ WorkerTypes /\ DiskTypes /\ Filing(w, out, rows, disk.hashes)
    BY <1>1, PlanOfWorker DEF EarnedInv, QuickInv
<1>3. EarnedWork'
    BY <1>2, StepWorks, SignalWorks, UnlinkWorks, SettleWorks, SettleNativeWorks, SettleValidatorWorks,
       JournalWorks, WriteRowWorks, PairWorks, CertifyWorks, ExceptWorks DEF Worker
<1>4. CASE Journal
    BY <1>2, <1>3, <1>4, JournalWorks
<1>5. CASE ~ Journal
    <2>1. w'.pc # "write"
        BY <1>2, <1>5, OnlyJournalWrites
    <2> QED
        BY <1>2, <1>3, <2>1 DEF Filing
<1> QED
    BY <1>4, <1>5

\* A worker on its way has come by the request.
LEMMA RequestKeeps ==
    ASSUME QuickInv, EarnedInv, Worker
    PROVE  Requested'
<1> DEFINE Late == (Going \ {"off", "boot", "request"}) \cup {"write"}
           Before == {"off", "boot", "request"}
<1>0. WorkerTypes /\ DiskTypes /\ Requested /\ (disk.request => disk'.request)
    <2>1. WorkerTypes /\ DiskTypes /\ Requested
        BY DEF QuickInv, EarnedInv
    <2>2. disk' = disk \/ disk'.request = disk.request \/ disk'.request = TRUE
        BY <2>1 DEF Worker, WorkerBoots, SaveRequest, WorkerLock, Admit, Verify, Idle, Fork, Assign, SaveActive, Poll, Drain,
           Unlink, CheckRivals, SettleRivals, SettleProbe, SettleNative, SettleValidator, Quiet, Journal, WriteRow, Pair,
           Certify, Except, FinalDrain, IgnoreTerm, WriteReport, BudgetExpired, TakeTerm, DiskTypes
    <2> QED
        BY <2>1, <2>2
<1>1. CASE SaveRequest
    BY <1>0, <1>1 DEF SaveRequest, DiskTypes, Requested
<1>2. ASSUME w'.pc \in Late => w.pc \in Late, w'.state = "complete" => w.state = "complete" \/ w.pc \in Late
      PROVE  Requested'
    BY <1>0, <1>2 DEF Requested
<1>3. ASSUME NEW p, Goto(p), p \in Late => w.pc \in Late PROVE Requested'
    <2>1. w'.pc = p /\ w'.state = w.state
        BY <1>0, <1>3, GotoIs DEF Same
    <2> QED
        BY <1>2, <1>3, <2>1
<1>4. ASSUME NEW e \in {"expired", "deferred", "mismatch"}, RaiseAs(e) PROVE Requested'
    <2>1. w'.pc = Unwound(w.pc) /\ w'.state = w.state
        BY <1>0, <1>4, RaiseIs DEF Same
    <2>2. Unwound(w.pc) \in Late => w.pc \in Late
        BY DEF Unwound, Going, Early, Busy, Command
    <2> QED
        BY <1>2, <2>1, <2>2
<1>5. CASE w' = w
    BY <1>2, <1>5
<1>6. CASE w.pc \in Late /\ w'.state = w.state
    BY <1>2, <1>6
<1> DEFINE Goes == \E p : Goto(p) /\ (p \in Late => w.pc \in Late)
           Raises == \E e \in {"expired", "deferred", "mismatch"} : RaiseAs(e)
<1>7. CASE Goes
    BY <1>3, <1>7
<1>8. CASE Raises
    BY <1>4, <1>8
<1>10. WorkerBoots \/ WorkerLock \/ Admit \/ Verify \/ Idle \/ Fork \/ Assign \/ SaveActive \/ Poll \/ Drain => Goes \/ Raises \/ w' = w
    <2>1. WorkerBoots => Goes
        BY DEF WorkerBoots, Going, Early, Busy, Command
    <2>2. WorkerLock \/ Admit \/ Verify \/ Idle => Goes \/ Raises \/ w' = w
        BY DEF WorkerLock, Admit, Verify, Idle, At, Going, Early, Busy, Command
    <2>3. Fork \/ Assign \/ SaveActive \/ Poll \/ Drain => Goes
        BY DEF Fork, Assign, SaveActive, Poll, Drain, At, Going, Early, Busy, Command
    <2> HIDE DEF Goes, Raises
    <2> QED
        BY <2>1, <2>2, <2>3
<1>11. Unlink \/ CheckRivals \/ Quiet \/ Journal \/ WriteRow \/ FinalDrain \/ IgnoreTerm \/ WriteReport \/ BudgetExpired \/ TakeTerm =>
          Goes \/ Raises \/ w' = w \/ (w.pc = "except" /\ w' = [w EXCEPT !.pc = "final"])
    <2>1. Unlink \/ CheckRivals \/ Quiet \/ Journal \/ WriteRow => Goes \/ Raises
        BY DEF Unlink, CheckRivals, Quiet, Journal, WriteRow, At, Going, Early, Busy, Command
    <2>2. FinalDrain \/ IgnoreTerm \/ WriteReport => Goes
        BY DEF FinalDrain, IgnoreTerm, WriteReport, At, Going, Early, Busy, Command
    <2>3. BudgetExpired \/ TakeTerm => Goes \/ Raises \/ w' = w \/ (w.pc = "except" /\ w' = [w EXCEPT !.pc = "final"])
        BY DEF BudgetExpired, TakeTerm, Going, Early, Busy, Command
    <2> HIDE DEF Goes, Raises
    <2> QED
        BY <2>1, <2>2, <2>3
<1>12. SettleRivals \/ SettleProbe \/ SettleNative \/ SettleValidator \/ Pair => Raises \/ (w.pc \in Late /\ w'.state = w.state)
    <2>1. SettleRivals \/ SettleProbe => Raises \/ (w.pc \in Late /\ w'.state = w.state)
        BY <1>0, NextStepIs DEF SettleRivals, SettleProbe, At, StepsOn, Going, Busy, Command, Early
    <2>2. SettleNative => Raises \/ (w.pc \in Late /\ w'.state = w.state)
        BY <1>0 DEF SettleNative, At, WorkerTypes, Going, Busy, Command, Early
    <2>3. SettleValidator => Raises \/ (w.pc \in Late /\ w'.state = w.state)
        BY <1>0 DEF SettleValidator, At, WorkerTypes, Going, Busy, Command, Early
    <2>4. Pair => Raises \/ (w.pc \in Late /\ w'.state = w.state)
        <3>1. Pair => Raises \/ w' = [NextStep EXCEPT !.hashed = @ \/ HashPassEnds]
            BY DEF Pair
        <3>2. w' = [NextStep EXCEPT !.hashed = @ \/ HashPassEnds] => w'.state = w.state
            BY <1>0, NextStepW, NextStepIs DEF StepsOn
        <3> QED
            BY <3>1, <3>2 DEF Pair, At, Going, Busy, Command, Early
    <2> HIDE DEF Raises
    <2> QED
        BY <2>1, <2>2, <2>3, <2>4
<1>13. Certify \/ Except \/ (w.pc = "except" /\ w' = [w EXCEPT !.pc = "final"]) => Requested'
    <2>1. Certify => w.pc \in Late /\ w'.pc = "final"
        BY <1>0 DEF Certify, At, WorkerTypes, Going, Busy, Command, Early
    <2>2. Except => w'.pc = "final" /\ w'.state # "complete"
        BY <1>0 DEF Except, At, WorkerTypes
    <2>3. w' = [w EXCEPT !.pc = "final"] => w'.pc = "final" /\ w'.state = w.state
        BY <1>0 DEF WorkerTypes
    <2>4. "final" \notin Late
        BY DEF Going, Busy, Command, Early
    <2> HIDE DEF Late
    <2> QED
        BY <1>2, <2>1, <2>2, <2>3, <2>4
<1> HIDE DEF Goes, Raises, Late
<1> QED
    BY <1>1, <1>5, <1>6, <1>7, <1>8, <1>10, <1>11, <1>12, <1>13 DEF Worker

-----------------------------------------------------------------------------
(* The reports.                                                             *)

LEMMA EarnedGrows ==
    ASSUME NEW g, NEW r, NEW h1, NEW h2, h1 => h2, EarnedBy(g, h1, r)
    PROVE  EarnedBy(g, h2, r)
    BY DEF EarnedBy

LEMMA ReportsStay ==
    ASSUME EarnedReports, cfg' = cfg, disk.hashes => disk'.hashes,
           disk'.report = disk.report \/ EarnedBy(cfg, disk'.hashes, disk'.report),
           disk'.home.report = disk.home.report \/ EarnedBy(cfg, disk'.hashes, disk'.home.report)
    PROVE  EarnedReports'
<1>1. EarnedBy(cfg, disk'.hashes, disk'.report) /\ EarnedBy(cfg, disk'.hashes, disk'.home.report)
    BY EarnedGrows DEF EarnedReports
<1> QED
    BY <1>1 DEF EarnedReports

\* The worker that says complete has made every row, and hashed.
LEMMA CompleteIsWhole ==
    ASSUME QuickInv, EarnedInv, HasPlan(cfg), w.state = "complete"
    PROVE  AllAgreed(cfg, rows) /\ w.hashed = TRUE /\ disk.hashes /\ disk.request /\ cfg.reps \in Nat
<1> DEFINE A == Attempted(cfg)  R == Len(A)
<1>1. OnPlan(cfg, w) /\ RowsAre(cfg, w, rows) /\ HashedIs(cfg, w, disk.hashes) /\ disk.request
    BY DEF EarnedInv, EarnedWork, Requested
<1>2. R \in Nat \ {0} /\ w.at = Len(Plan(cfg)) + 1 /\ Len(Plan(cfg)) \in {R + 2, R + 3} /\ Runs(cfg, 0..cfg.reps, A)
    BY <1>1 DEF OnPlan, HasPlan, PlanHas
<1>3. Filed(cfg, w) = R
    <2>1. w.pc # "pair"
        BY <1>1 DEF OnPlan, Ending
    <2> HIDE DEF A
    <2> QED
        BY <1>2, <2>1 DEF Filed, A
<1>4. AreOf(cfg, rows, R) /\ DOMAIN rows = 1..R
    <2>1. AreOf(cfg, rows, R)
        BY <1>1, <1>3 DEF RowsAre
    <2> QED
        BY <2>1 DEF AreOf, QuickInv, Listed, IsList
<1>5. ASSUME NEW l \in 1..R PROVE l + 2 < w.at
    BY <1>2
<1>6. AllAgreed(cfg, rows)
    BY <1>1, <1>4, <1>5 DEF RowsAre, AllAgreed, AreOf
<1>7. cfg.reps \in Nat /\ cfg.reps >= 1
    <2>1. ValidConfig(cfg)
        <3>1. s # "off"
            BY <1>1 DEF QuickInv, CoordinatorBegins, OnPlan, Ending
        <3> QED
            BY <3>1 DEF EarnedInv, Begun
    <2> QED
        BY <2>1, QuickAssumption DEF ValidConfig, EarnedInv, Begun
<1>8. w.hashed
    <2>1. Len(cfg.cases) \in DOMAIN cfg.cases
        BY QuickAssumption DEF EarnedInv, Begun
    <2>2. Closes(A, Len(cfg.cases), 0)
        BY <1>2, <1>7, <2>1 DEF Runs
    <2>3. PICK l \in 1..R : A[l].case = Len(cfg.cases) /\ A[l].rep = 0 /\ A[l].last
        BY <2>2 DEF Closes
    <2> QED
        BY <1>1, <1>5, <2>3 DEF HashedIs, EndsPass
<1>9. w.hashed = TRUE /\ disk.hashes
    BY <1>1, <1>8 DEF QuickInv, WorkerTypes, HashedIs
<1> QED
    BY <1>1, <1>6, <1>7, <1>9

LEMMA WriteReportEarned ==
    ASSUME QuickInv, EarnedInv, HasPlan(cfg), WriteReport
    PROVE  EarnedBy(cfg, disk'.hashes, disk'.report) /\ disk'.hashes = disk.hashes /\ disk'.home = disk.home
<1>1. /\ disk'.hashes = disk.hashes /\ disk'.home = disk.home
      /\ disk'.report = IF disk.request THEN Report(cfg, rows, w.state, w.hashed) ELSE BareReport(w.state)
    BY DEF WriteReport, QuickInv, DiskTypes
<1>2. w.state \in {"incomplete", "complete", "deferred", "failed"} /\ (w.hashed => disk.hashes)
    BY DEF QuickInv, WorkerTypes, EarnedInv, EarnedWork, HashedIs
<1>3. CASE w.state = "complete"
    <2>1. AllAgreed(cfg, rows) /\ w.hashed = TRUE /\ disk.hashes /\ disk.request /\ cfg.reps \in Nat
        BY <1>3, CompleteIsWhole
    <2>2. disk'.report = Report(cfg, rows, "complete", TRUE)
        BY <1>1, <1>3, <2>1
    <2>3. EarnedBy(cfg, TRUE, disk'.report)
        BY <2>1, <2>2, WholeEarned
    <2> QED
        BY <1>1, <2>1, <2>3, EarnedGrows
<1>4. CASE w.state # "complete"
    <2>1. w.state \in {"incomplete", "deferred", "failed"}
        BY <1>2, <1>4
    <2>2. EarnedBy(cfg, disk.hashes, Report(cfg, rows, w.state, w.hashed)) /\ EarnedBy(cfg, disk.hashes, BareReport(w.state))
        BY <1>2, <2>1, OpenReport, BareEarned
    <2> QED
        BY <1>1, <2>2
<1> QED
    BY <1>3, <1>4

LEMMA WorkerEarns == ASSUME QuickInv, EarnedInv, Worker PROVE EarnedInv'
<1>1. EarnedWork' /\ Filing(w, out, rows, disk.hashes)' /\ HasPlan(cfg) /\ Requested'
    BY WorkerWorks, RequestKeeps
<1>2. UNCHANGED <<cfg, c, s>>
    BY DEF Worker, WorkerBoots, SaveRequest, WorkerLock, Admit, Verify, Idle, Fork, Assign, SaveActive, Poll, Drain,
           Unlink, CheckRivals, SettleRivals, SettleProbe, SettleNative, SettleValidator, Quiet, Journal, WriteRow, Pair,
           Certify, Except, FinalDrain, IgnoreTerm, WriteReport, BudgetExpired, TakeTerm
<1>3. Begun'
    BY <1>2 DEF EarnedInv, Begun, ValidConfig
<1>4. EarnedReports'
    <2>1. CASE WriteReport
        BY <1>1, <1>2, <2>1, WriteReportEarned, ReportsStay DEF EarnedInv
    <2>2. CASE ~ WriteReport
        <3>1. disk'.report = disk.report /\ disk'.home = disk.home /\ (disk.hashes => disk'.hashes)
            BY <2>2 DEF QuickInv, DiskTypes, Worker, WorkerBoots, SaveRequest, WorkerLock, Admit, Verify, Idle, Fork,
               Assign, SaveActive, Poll, Drain, Unlink, CheckRivals, SettleRivals, SettleProbe, SettleNative,
               SettleValidator, Quiet, Journal, WriteRow, Pair, Certify, Except, FinalDrain, IgnoreTerm, BudgetExpired, TakeTerm
        <3> QED
            BY <1>2, <3>1, ReportsStay DEF EarnedInv
    <2> QED
        BY <2>1, <2>2
<1> QED
    BY <1>1, <1>3, <1>4 DEF EarnedInv

\* A step of the others that leaves the worker alone.
LEMMA OthersEarn ==
    ASSUME QuickInv, EarnedInv, UNCHANGED <<cfg, w, out, rows>>, Begun', disk'.hashes = disk.hashes,
           disk.request => disk'.request,
           disk'.report = disk.report \/ EarnedBy(cfg, disk.hashes, disk'.report),
           disk'.home.report = disk.home.report \/ EarnedBy(cfg, disk.hashes, disk'.home.report)
    PROVE  EarnedInv'
<1>1. EarnedWork' /\ Filing(w, out, rows, disk.hashes)'
    BY WorkStays DEF EarnedInv, Filing
<1>2. Requested'
    BY DEF EarnedInv, Requested
<1>3. EarnedReports'
    BY ReportsStay DEF EarnedInv
<1> QED
    BY <1>1, <1>2, <1>3 DEF EarnedInv

LEMMA CoordinatorEarns == ASSUME QuickInv, EarnedInv, Coordinator PROVE EarnedInv'
<1>0. DiskTypes /\ UNCHANGED <<cfg, w, out, rows>>
    BY DEF QuickInv, Coordinator, Load, SaveConfig, SetupLock, CheckManifest, SetupVerify, StartSupervisor, FleetReturns,
           MainRecover, OnHost, AtHome, Probe, StartRemote, SshReturns, Fetch
<1>1. Begun'
    <2>1. CASE Load
        BY <2>1 DEF Load, Coordinate, EarnedInv, Begun, ValidConfig, QuickInv, CoordinatorBegins
    <2>2. CASE c \notin {"load", "over"}
        BY <1>0, <2>2 DEF EarnedInv, Begun, ValidConfig
    <2> QED
        BY <2>1, <2>2 DEF Coordinator, Load, SaveConfig, SetupLock, CheckManifest, SetupVerify, StartSupervisor, FleetReturns,
           MainRecover, OnHost, AtHome, Probe, StartRemote, SshReturns, Fetch, Commands, Transfers
<1>2. CASE UNCHANGED disk
    BY <1>0, <1>1, <1>2, OthersEarn
<1>3. CASE SaveConfig
    <2>1. disk'.hashes = disk.hashes /\ disk'.request = disk.request /\ disk'.report = disk.report /\ disk'.home = disk.home
        BY <1>0, <1>3 DEF SaveConfig, DiskTypes
    <2> QED
        BY <1>0, <1>1, <2>1, OthersEarn
<1>4. CASE MainRecover
    <2> DEFINE made == Report(cfg, disk.home.journal, "incomplete", FALSE)
    <2>0. EarnedBy(cfg, disk.hashes, Recovered) /\ EarnedBy(cfg, disk.hashes, made)
          /\ EarnedBy(cfg, disk.hashes, [made EXCEPT !.state = "deferred", !.gate = "deferred"])
        BY OpenReport, DeferredEarned DEF Recovered
    <2>1. CASE ~ cfg.remote
        <3>1. disk'.hashes = disk.hashes /\ disk'.request = TRUE /\ disk'.report = Recovered /\ disk'.home = disk.home
            BY <1>0, <1>4, <2>1 DEF MainRecover, DiskTypes
        <3> QED
            BY <1>0, <1>1, <2>0, <3>1, OthersEarn
    <2>2. CASE cfg.remote
        <3> DEFINE sent == IF c = "defer" THEN [made EXCEPT !.state = "deferred", !.gate = "deferred"] ELSE made
        <3>1. disk' = [disk EXCEPT !.home.report = sent]
            BY <1>4, <2>2 DEF MainRecover
        <3>2. EarnedBy(cfg, disk.hashes, sent)
            BY <2>0
        <3> HIDE DEF sent
        <3>3. disk'.hashes = disk.hashes /\ disk'.request = disk.request /\ disk'.report = disk.report /\ disk'.home.report = sent
            BY <1>0, <3>1 DEF DiskTypes
        <3> QED
            BY <1>0, <1>1, <3>2, <3>3, OthersEarn
    <2> QED
        BY <2>1, <2>2
<1>5. ASSUME NEW n, NEW report \in {disk.report, NoReport}, Copied(n, report) PROVE EarnedInv'
    <2>1. disk'.hashes = disk.hashes /\ disk'.request = disk.request /\ disk'.report = disk.report /\ disk'.home.report = report
        BY <1>0, <1>5 DEF Copied, DiskTypes
    <2>2. EarnedBy(cfg, disk.hashes, report)
        BY BareEarned DEF EarnedInv, EarnedReports
    <2> QED
        BY <1>0, <1>1, <2>1, <2>2, OthersEarn
<1>6. CASE Fetch
    BY <1>2, <1>5, <1>6 DEF Fetch
<1> QED
    BY <1>2, <1>3, <1>4, <1>6 DEF Coordinator, Load, SetupLock, CheckManifest, SetupVerify, StartSupervisor,
       FleetReturns, OnHost, AtHome, Probe, StartRemote, SshReturns

LEMMA SupervisorEarns == ASSUME QuickInv, EarnedInv, Supervisor PROVE EarnedInv'
<1>0. WorkerTypes /\ DiskTypes /\ UNCHANGED <<cfg, c, out, rows>> /\ s # "off"
    BY DEF QuickInv, Supervisor, Supervise, Collect, Timeout, LookForActive, Sweep, Kill, Recover
<1>1. Begun' /\ HasPlan(cfg)
    <2>1. HasPlan(cfg) /\ ValidConfig(cfg)
        BY <1>0, PlanOfRun DEF EarnedInv, Begun
    <2> QED
        BY <1>0, <2>1 DEF EarnedInv, Begun, ValidConfig
<1>2. CASE Recover
    <2>1. EarnedBy(cfg, disk.hashes, Recovered)
        BY OpenReport DEF Recovered
    <2>2. /\ disk'.hashes = disk.hashes /\ disk'.request = TRUE /\ disk'.report = Recovered
          /\ disk'.home = disk.home /\ w' = w
        BY <1>0, <1>2 DEF Recover, DiskTypes
    <2> QED
        BY <1>0, <1>1, <2>1, <2>2, OthersEarn
<1>3. CASE UNCHANGED <<w, disk>>
    BY <1>0, <1>1, <1>3, OthersEarn
<1>4. ASSUME NEW p \in {"boot", "dead"}, Goto(p), p = "boot" => w.pc = "off",
             disk'.hashes = disk.hashes, disk'.request = disk.request, disk'.report = disk.report, disk'.home = disk.home
      PROVE  EarnedInv'
    <2>1. EarnedWork'
        BY <1>0, <1>1, <1>4, GotoWorks DEF EarnedInv, Early
    <2>2. Requested'
        <3>1. w'.pc = p /\ w'.state = w.state
            BY <1>0, <1>4, GotoIs DEF Same
        <3> QED
            BY <1>4, <3>1 DEF EarnedInv, Requested, Going, Early, Busy, Command
    <2>3. EarnedReports'
        BY <1>0, <1>4, ReportsStay DEF EarnedInv
    <2>4. Filing(w, out, rows, disk.hashes)'
        <3>1. w'.pc = p
            BY <1>0, <1>4, GotoIs
        <3> QED
            BY <1>4, <3>1 DEF Filing
    <2> QED
        BY <1>1, <2>1, <2>2, <2>3, <2>4 DEF EarnedInv
<1>5. CASE Supervise
    <2>1. w.pc = "off" /\ Goto("boot") /\ disk' = disk
        BY <1>5 DEF Supervise, QuickInv, CoordinatorBegins
    <2> QED
        BY <1>4, <2>1
<1>6. CASE Kill
    <2>1. CASE Ended
        BY <1>3, <1>6, <2>1 DEF Kill
    <2>2. CASE ~ Ended
        <3>1. /\ Goto("dead") /\ disk'.hashes = disk.hashes /\ disk'.request = disk.request
              /\ disk'.report = disk.report /\ disk'.home = disk.home
            BY <1>0, <1>6, <2>2 DEF Kill, DiskTypes
        <3> QED
            BY <1>4, <3>1
    <2> QED
        BY <2>1, <2>2
<1> QED
    BY <1>2, <1>3, <1>5, <1>6 DEF Supervisor, Collect, Timeout, LookForActive, Sweep

LEMMA InitEarns == Init => EarnedInv
<1> SUFFICES ASSUME Init PROVE EarnedInv
    OBVIOUS
<1>1. Begun /\ Requested
    BY DEF Init, QuickInit, Begun, Requested
<1>2. EarnedReports
    BY BareEarned DEF Init, QuickInit, EarnedReports
<1>3. OnPlan(cfg, w) /\ Ready(cfg, w, out)
    BY DEF Init, QuickInit, OnPlan, Ready, Early, Busy, Command
<1>4. RowsAre(cfg, w, rows)
    BY DEF Init, QuickInit, RowsAre, AreOf, Filed
<1>5. HashedIs(cfg, w, disk.hashes)
    BY DEF Init, QuickInit, HashedIs
<1>6. w.pc = "off"
    BY DEF Init, QuickInit
<1> QED
    BY <1>1, <1>2, <1>3, <1>4, <1>5, <1>6 DEF EarnedInv, EarnedWork, Filing

LEMMA StepEarns == QuickInv /\ EarnedInv /\ [Next]_vars => EarnedInv'
<1> SUFFICES ASSUME QuickInv, EarnedInv, [Next]_vars PROVE EarnedInv'
    OBVIOUS
<1>1. CASE UNCHANGED <<cfg, c, s, w, out, rows, disk>>
    <2>1. Begun'
        BY <1>1 DEF EarnedInv, Begun, ValidConfig
    <2> QED
        BY <1>1, <2>1, OthersEarn
<1>2. EngineExits \/ Expire \/ Harness \/ Others \/ Finished \/ UNCHANGED vars => UNCHANGED <<cfg, c, s, w, out, rows, disk>>
    BY DEF EngineExits, Expire, Harness, Others, Finished, vars, quickVars
<1> QED
    BY <1>1, <1>2, WorkerEarns, CoordinatorEarns, SupervisorEarns DEF Next

LEMMA InvIsEarned == EarnedInv => CompleteIsEarned
<1> SUFFICES ASSUME EarnedInv PROVE CompleteIsEarned
    OBVIOUS
<1>1. \A r \in {disk.report, disk.home.report} : EarnedBy(cfg, disk.hashes, r)
    BY DEF EarnedInv, EarnedReports
<1> QED
    BY <1>1, Zenon DEF EarnedBy, CompleteIsEarned

\* At a repetition every first answer has its row, and its pair has agreed.
LEMMA InvIsTimed == QuickInv /\ EarnedInv => TimingAfterAgreement
<1> SUFFICES ASSUME QuickInv, EarnedInv, w.pc \in {"poll", "journal"}, This.phase = "hot-fresh",
                    NEW k \in DOMAIN cfg.cases, NEW e1 \in Builds(cfg, k), NEW e2 \in Builds(cfg, k)
             PROVE  \E i \in Good(rows, k, e1, "hash-first", 0), j \in Good(rows, k, e2, "hash-first", 0) :
                       /\ Answers(cfg.cases[k], rows[i])
                       /\ MayDiffer(cfg.cases[k], rows[i], rows[j])
    BY DEF TimingAfterAgreement, Builds
<1> DEFINE A == Attempted(cfg)  R == Len(A)  n == w.at - 3
<1>1. HasPlan(cfg) /\ OnPlan(cfg, w) /\ RowsAre(cfg, w, rows)
    BY PlanOfWorker DEF EarnedInv, EarnedWork
<1>2. /\ R \in Nat \ {0} /\ Runs(cfg, 0..cfg.reps, A)
      /\ \A i, j \in 1..R : A[i].rep = 0 /\ A[j].rep # 0 => i < j
    BY <1>1 DEF HasPlan, PlanHas
<1>3. w.at \in 1..Len(Plan(cfg)) /\ w.at - 2 \in 1..R /\ A[w.at - 2].rep # 0
    <2>1. w.at \in 1..Len(Plan(cfg))
        BY <1>1 DEF OnPlan, Busy, Command
    <2>2. w.at - 2 \in 1..R
        BY <1>1, <2>1, AtIs DEF HasPlan, This, HasNoRow
    <2> QED
        BY <1>1, <2>1, <2>2, AtIs DEF HasPlan, This
<1>4. n \in Nat /\ n <= R /\ Filed(cfg, w) = n
    <2>1. w.at \in Nat
        BY DEF QuickInv, WorkerTypes
    <2> HIDE DEF A
    <2> QED
        BY <1>2, <1>3, <2>1 DEF Filed, A
<1>5. /\ AreOf(cfg, rows, n) /\ DOMAIN rows = 1..n
      /\ \A l \in 1..n : A[l].last /\ l + 2 < w.at => Agreed(cfg, rows, l)
    <2>1. w.pc \in Going
        BY DEF Going, Busy, Command
    <2>2. AreOf(cfg, rows, n) /\ \A l \in 1..Len(rows) : A[l].last /\ l + 2 < w.at => Agreed(cfg, rows, l)
        BY <1>1, <1>4, <2>1 DEF RowsAre
    <2> QED
        BY <2>2 DEF AreOf, QuickInv, Listed, IsList
<1>6. ASSUME NEW i \in 1..R, A[i].rep = 0 PROVE i \in 1..n /\ i + 2 < w.at
    <2>1. i < w.at - 2
        BY <1>2, <1>3, <1>6
    <2> HIDE DEF A
    <2> QED
        BY <1>2, <1>3, <2>1
<1>7. 0 \in 0..cfg.reps /\ PhaseOf(0) = "hash-first"
    <2>1. \E i \in 1..R : A[i].rep \in 0..cfg.reps
        BY <1>2, <1>3 DEF Runs, KindOf
    <2> QED
        BY <2>1, QuickAssumption DEF PhaseOf, EarnedInv, Begun
<1>8. ASSUME NEW e \in Builds(cfg, k) PROVE \E i : Good(rows, k, e, "hash-first", 0) = {i}
    <2>1. Makes(A, k, 0, e)
        BY <1>2, <1>7 DEF Runs
    <2>2. PICK i \in 1..R : A[i].case = k /\ A[i].rep = 0 /\ A[i].engine = e
        BY <2>1 DEF Makes
    <2> DEFINE t == A[i]
    <2>3. Good(rows, t.case, t.engine, PhaseOf(t.rep), t.rep) = {i}
        <3>1. n \in Nat /\ n <= Len(Attempted(cfg)) /\ AreOf(cfg, rows, n) /\ DOMAIN rows = 1..n /\ i \in 1..n
            BY <1>4, <1>5, <1>6, <2>2
        <3>2. HasPlan(cfg)
            BY <1>1
        <3> HIDE DEF n
        <3>3. OnlyRow(cfg, rows, i)
            BY <3>1, <3>2, GoodIs
        <3> QED
            BY <3>3 DEF OnlyRow
    <2>4. t.case = k /\ t.rep = 0 /\ t.engine = e
        BY <2>2
    <2> HIDE DEF t
    <2> QED
        BY <1>7, <2>3, <2>4
<1>9. PICK l \in 1..n : A[l].case = k /\ A[l].rep = 0 /\ Agreed(cfg, rows, l)
    <2>1. Closes(A, k, 0)
        BY <1>2, <1>7 DEF Runs
    <2>2. PICK l \in 1..R : A[l].case = k /\ A[l].rep = 0 /\ A[l].last
        BY <2>1 DEF Closes
    <2>3. l \in 1..n /\ l + 2 < w.at
        BY <1>6, <2>2
    <2> QED
        BY <1>5, <2>2, <2>3
<1>10. PICK i : Good(rows, k, e1, "hash-first", 0) = {i}
    BY <1>8
<1>11. PICK j : Good(rows, k, e2, "hash-first", 0) = {j}
    BY <1>8
<1>12. i \in Good(rows, k, e1, PhaseOf(0), 0) /\ j \in Good(rows, k, e2, PhaseOf(0), 0)
    BY <1>7, <1>10, <1>11
<1>13. MayDiffer(cfg.cases[k], rows[i], rows[j]) /\ Answers(cfg.cases[k], rows[i])
    <2> DEFINE zero == 0
    <2>1. /\ n \in Nat /\ n <= Len(Attempted(cfg)) /\ zero \in 0..cfg.reps
          /\ Attempted(cfg)[l].case = k /\ Attempted(cfg)[l].rep = zero
          /\ i \in Good(rows, k, e1, PhaseOf(zero), zero) /\ j \in Good(rows, k, e2, PhaseOf(zero), zero)
        BY <1>4, <1>7, <1>9, <1>12
    <2> HIDE DEF n, zero
    <2> QED
        BY <1>1, <1>5, <1>9, <2>1, PairEarned
<1> QED
    BY <1>7, <1>12, <1>13

\* A report that says complete, or passes its gate, stands for every repetition
\* of every case by every build, each as declared, the same as its first answer
\* and in agreement with the other build; and what any report selects comes in
\* whole pairs after the hash pass (quick.py:466-515, :605-646, :857-867).
THEOREM CompleteIsEarnedAlways == Spec => []CompleteIsEarned
<1>1. Init => QuickInv /\ EarnedInv
    BY QuickInitInv, InitEarns
<1>2. QuickInv /\ EarnedInv /\ [Next]_vars => (QuickInv /\ EarnedInv)'
    BY StepKeeps, StepEarns
<1>3. QuickInv /\ EarnedInv => CompleteIsEarned
    BY InvIsEarned
<1> QED
    BY <1>1, <1>2, <1>3, PTL DEF Spec

\* No repetition is timed before every case has its first answers and the
\* builds agree on all of them (quick.py:605-624).
THEOREM TimedAfterAgreement == Spec => []TimingAfterAgreement
<1>1. Init => QuickInv /\ EarnedInv
    BY QuickInitInv, InitEarns
<1>2. QuickInv /\ EarnedInv /\ [Next]_vars => (QuickInv /\ EarnedInv)'
    BY StepKeeps, StepEarns
<1>3. QuickInv /\ EarnedInv => TimingAfterAgreement
    BY InvIsTimed
<1> QED
    BY <1>1, <1>2, <1>3, PTL DEF Spec

-----------------------------------------------------------------------------
(* An export: what is at the destination is of one package, and the cells   *)
(* of a package are what the scorer and its accepted attempts say, for any  *)
(* requests and saved runs.                                                 *)

Files == ToSet(PackageFiles)
InPackage(f) == dst[f] = WholeFile(f)

\* Being written, what is there is of the package, but the one file still open;
\* whatever the stage, two whole files are of one package.
Generations ==
    /\ dst \in [Files -> [at : {"absent", "torn", "whole"}, data : {dst[f].data : f \in Files}]]
    /\ stage \in {"write", "done"} => \A f \in Files : Absent(f) \/ InPackage(f)
    /\ stage = "fill" => \E f \in Files : /\ dst[f].at = "torn"
                                          /\ \A g \in Files \ {f} : Absent(g) \/ InPackage(g)
    /\ OneGeneration

LEMMA OnePackage ==
    ASSUME NEW p, NEW f, NEW g, NEW part \in 1..3
    PROVE  {} \in {Data(f, p)[part], Data(g, p)[part]} \/ Data(f, p)[part] = Data(g, p)[part]
    BY DEF Data

LEMMA WholeIs ==
    ASSUME NEW x, NEW told, x = [at |-> "whole", data |-> told]
    PROVE  x.at = "whole" /\ x.data = told
    OBVIOUS

\* All that is whole is of a package: the files tell one story.
OneStory(d) ==
    \A f, g \in Files :
        d[f].at = "whole" /\ d[g].at = "whole" =>
            \A part \in 1..3 : {} \in {d[f].data[part], d[g].data[part]} \/ d[f].data[part] = d[g].data[part]

LEMMA TellOneStory ==
    ASSUME NEW d, NEW p, \A f \in Files : d[f].at = "whole" => d[f] = [at |-> "whole", data |-> Data(f, p)]
    PROVE  OneStory(d)
<1>1. \A f \in Files : d[f].at = "whole" => d[f].data = Data(f, p)
    BY WholeIs
<1> QED
    BY <1>1, OnePackage DEF OneStory

LEMMA InitGenerations == ExportInit => Generations
<1> SUFFICES ASSUME ExportInit PROVE Generations
    OBVIOUS
<1>1. stage = "off" /\ \A f \in Files : dst[f].at = "absent"
    BY DEF ExportInit, Files, Nothing
<1>2. dst = [f \in Files |-> [at |-> dst[f].at, data |-> dst[f].data]]
    BY DEF ExportInit, Files, Nothing
<1>3. OneGeneration
    BY <1>1 DEF OneGeneration, Files
<1> QED
    BY <1>1, <1>2, <1>3 DEF Generations

\* Nothing at the destination changes, and nobody writes, or the package stays.
LEMMA GenerationsStay ==
    ASSUME Generations, dst' = dst, stage' \notin {"write", "fill", "done"} \/ UNCHANGED <<stage, pack>>
    PROVE  Generations'
<1>1. CASE UNCHANGED <<stage, pack>>
    BY <1>1 DEF Generations, OneGeneration, InPackage, WholeFile, Absent
<1>2. CASE stage' \notin {"write", "fill", "done"}
    BY <1>2 DEF Generations, OneGeneration
<1> QED
    BY <1>1, <1>2

LEMMA OpenKeeps == ASSUME Generations, OpenFile PROVE Generations'
<1>1. PICK n \in DOMAIN PackageFiles :
        /\ Absent(PackageFiles[n])
        /\ dst' = [dst EXCEPT ![PackageFiles[n]] = [at |-> "torn", data |-> Nothing.data]]
    BY DEF OpenFile
<1> DEFINE f == PackageFiles[n]
<1>2. f \in Files /\ DOMAIN dst = Files /\ stage' = "fill" /\ pack' = pack /\ stage = "write"
    BY DEF Files, ToSet, OpenFile, Generations
<1>3. /\ DOMAIN dst' = Files /\ dst'[f].at = "torn" /\ dst'[f] = [at |-> "torn", data |-> dst'[f].data]
      /\ \A g \in Files \ {f} : dst'[g] = dst[g]
    BY <1>1, <1>2
<1> HIDE DEF f
<1>4. \A g \in Files \ {f} : (Absent(g) \/ InPackage(g))'
    BY <1>2, <1>3 DEF Generations, Absent, InPackage, WholeFile
<1>5. \A g \in Files : dst'[g].at = "whole" => InPackage(g)'
    BY <1>3, <1>4 DEF Absent
<1>6. OneGeneration'
    <2>1. OneStory(dst')
        BY <1>5, TellOneStory DEF InPackage, WholeFile
    <2> QED
        BY <1>2, <2>1 DEF OneGeneration, OneStory, Files
<1>7. dst' \in [Files -> [at : {"absent", "torn", "whole"}, data : {dst'[g].data : g \in Files}]]
    <2>1. dst' = [g \in Files |-> dst'[g]]
        BY <1>1, <1>2 DEF Generations
    <2>2. \A g \in Files : dst'[g].at \in {"absent", "torn", "whole"} /\ dst'[g] = [at |-> dst'[g].at, data |-> dst'[g].data]
        <3>1. \A g \in Files \ {f} : dst[g].at \in {"absent", "torn", "whole"} /\ dst[g] = [at |-> dst[g].at, data |-> dst[g].data]
            BY DEF Generations
        <3> QED
            BY <1>3, <3>1
    <2> QED
        BY <2>1, <2>2
<1> QED
    BY <1>2, <1>3, <1>4, <1>6, <1>7 DEF Generations
LEMMA FillKeeps == ASSUME Generations, FillFile PROVE Generations'
<1>1. PICK f \in Files : dst[f].at = "torn" /\ dst' = [dst EXCEPT ![f] = WholeFile(f)]
    BY DEF FillFile, Files
<1>2. DOMAIN dst = Files /\ stage' = "write" /\ pack' = pack /\ stage = "fill"
    BY DEF FillFile, Generations
<1>3. \A g \in Files \ {f} : Absent(g) \/ InPackage(g)
    <2>1. PICK x \in Files : \A g \in Files \ {x} : Absent(g) \/ InPackage(g)
        BY <1>2 DEF Generations
    <2>2. f = x
        <3>1. InPackage(f) => dst[f].at = "whole"
            BY WholeIs DEF InPackage, WholeFile
        <3> QED
            BY <1>1, <2>1, <3>1 DEF Absent
    <2> QED
        BY <2>1, <2>2
<1>4. \A g \in Files : (Absent(g) \/ InPackage(g))'
    BY <1>1, <1>2, <1>3 DEF Absent, InPackage, WholeFile
<1>5. \A g \in Files : dst'[g].at = "whole" => InPackage(g)'
    BY <1>4 DEF Absent
<1>6. OneGeneration'
    <2>1. OneStory(dst')
        BY <1>5, TellOneStory DEF InPackage, WholeFile
    <2> QED
        BY <1>2, <2>1 DEF OneGeneration, OneStory, Files
<1>7. dst' \in [Files -> [at : {"absent", "torn", "whole"}, data : {dst'[g].data : g \in Files}]]
    BY <1>1, <1>2 DEF Generations, WholeFile
<1> QED
    BY <1>2, <1>4, <1>6, <1>7 DEF Generations

\* Nothing in conflict is there: all there is, is of the package.
LEMMA CheckKeeps == ASSUME Generations, CheckPackage PROVE Generations'
<1>1. stage' \in {"refused", "write"} /\ UNCHANGED <<dst, pack>>
    BY DEF CheckPackage
<1>2. CASE stage' = "write"
    <2>1. \A f \in Files : Absent(f) \/ InPackage(f)
        BY <1>2 DEF CheckPackage, Conflicts, Absent, InPackage, Files
    <2> QED
        BY <1>1, <1>2, <2>1 DEF Generations, OneGeneration, Absent, InPackage, WholeFile
<1>3. CASE stage' = "refused"
    BY <1>1, <1>3, GenerationsStay
<1> QED
    BY <1>1, <1>2, <1>3

LEMMA FinishExportKeeps == ASSUME Generations, FinishExport PROVE Generations'
<1>1. /\ stage = "write" /\ stage' = "done" /\ UNCHANGED <<dst, pack>> /\ \A f \in Files : ~ Absent(f)
    BY DEF FinishExport, Files
<1>2. \A f \in Files : InPackage(f)
    BY <1>1 DEF Generations
<1>3. OneGeneration'
    BY <1>1, <1>2 DEF Generations, OneGeneration, InPackage, WholeFile, Files
<1> QED
    BY <1>1, <1>2, <1>3 DEF Generations, Absent, InPackage, WholeFile

LEMMA StepGenerations == Generations /\ [ExportNext]_exportVars => Generations'
<1> SUFFICES ASSUME Generations, [ExportNext]_exportVars PROVE Generations'
    OBVIOUS
<1>1. CASE Grow
    BY <1>1, GenerationsStay DEF Grow
<1>2. CASE StartExport
    BY <1>2, GenerationsStay DEF StartExport
<1>3. CASE HashJournal
    BY <1>3, GenerationsStay DEF HashJournal
<1>4. CASE ReadJournal
    <2>1. dst' = dst /\ stage' \in {"load", "refused"}
        BY <1>4 DEF ReadJournal
    <2> QED
        BY <2>1, GenerationsStay
<1>5. CASE Make
    <2>1. dst' = dst /\ stage' \in {"check", "refused"}
        BY <1>5 DEF Make
    <2> QED
        BY <2>1, GenerationsStay
<1>6. CASE Again
    BY <1>6, GenerationsStay DEF Again
<1>7. CASE UNCHANGED exportVars
    BY <1>7, GenerationsStay DEF exportVars
<1> QED
    BY <1>1, <1>2, <1>3, <1>4, <1>5, <1>6, <1>7, CheckKeeps, OpenKeeps, FillKeeps, FinishExportKeeps DEF ExportNext

\* Whole files of a destination tell one story, however many exports died over
\* it and whatever the journals gained between them (export.py:266-277).
THEOREM DestinationIsOneGeneration == ExportSpec => []OneGeneration
<1>1. ExportInit => Generations
    BY InitGenerations
<1>2. Generations /\ [ExportNext]_exportVars => Generations'
    BY StepGenerations
<1>3. Generations => OneGeneration
    BY DEF Generations
<1> QED
    BY <1>1, <1>2, <1>3, PTL DEF ExportSpec

-----------------------------------------------------------------------------
\* A record of a saved run, as its harness writes it.
RecordOk(run, x) ==
    /\ x.rep \in 0..run.head.reps
    /\ run.kind = "native" => x.status \in {"ok", "disturbed", "failed"} /\ (x.status = "ok" <=> Accepted(x))
JournalOk(run, records) == IsList(records) /\ \A n \in 1..Len(records) : RecordOk(run, records[n])

\* A run that was loaded.
LoadedOk(v) ==
    /\ v.run.kind \in {"native", "legacy"} /\ v.run.head.reps \in Nat \ {0}
    /\ JournalOk(v.run, v.records)
    /\ \A n \in 1..Len(v.records) : v.records[n].engine \in ToSet(v.run.expected)

JournalsTrue == DOMAIN journals = DOMAIN Saved /\ \A l \in DOMAIN Saved : JournalOk(Saved[l], journals[l])
LoadedTrue ==
    /\ IsList(loaded) /\ \A i \in 1..Len(loaded) : LoadedOk(loaded[i])
    /\ stage = "read" => Len(loaded) < Len(request.runs)

\* A package is made of the runs that are loaded.
Made ==
    /\ stage \in {"off", "load", "read"} => pack = NoPack
    /\ pack = NoPack \/ (pack.cells = Cells(request) /\ pack.audit = Audit(request) /\ ~ Refuses(request))
ExportTrue == request \in Requests /\ JournalsTrue /\ LoadedTrue /\ Made

LEMMA TurnIs == ASSUME NEW reps \in Nat, NEW n \in 1..2 * reps PROVE Turn(n)[2] \in 1..reps
    BY DEF Turn

LEMMA RecIs ==
    ASSUME NEW run, NEW case, NEW of, NEW rep \in 0..run.head.reps, NEW n, NEW hash, NEW valid \in BOOLEAN,
           NEW status \in {"ok", "disturbed", "failed"}, run.kind = "native" => valid
    PROVE  RecordOk(run, Rec(case, of, rep, n, status, hash, valid))
    BY DEF RecordOk, Rec, Accepted

LEMMA LaneTurnIs ==
    ASSUME NEW run, run.head.reps \in Nat \ {0}, NEW records, NEW t \in LaneTurns(run, records)
    PROVE  t.rep \in 0..run.head.reps
<1> DEFINE low == IF run.lane = "cold" THEN 1 ELSE 0  top == run.head.reps
           cases(n) == IF n = 0 THEN ToSet(run.planned) ELSE Disturbed(run.head.psi, ToSet(records), n - 1)
           team == ToSet(run.expected)
<1>1. PICK n \in 0..run.head.maxRound : t \in [case : cases(n), engine : team, rep : low..top, round : {n}]
    BY DEF LaneTurns
<1>2. t.rep \in low..top
    <2> HIDE DEF low, top, cases, team
    <2> QED
        BY <1>1
<1> QED
    BY <1>2

LEMMA NativeRecordOk ==
    ASSUME NEW l \in DOMAIN Saved, NEW q, JournalOk(Saved[l], q), Saved[l].kind = "native", NEW x \in NativeNext(l, q)
    PROVE  RecordOk(Saved[l], x)
<1> DEFINE run == Saved[l]  last == q[Len(q)]  top == run.head.reps
           Fine == {"ok", "disturbed", "failed"}
<1>1. top \in Nat \ {0} /\ Len(q) \in Nat
    BY ExportAssumption DEF JournalOk, IsList
<1>2. CASE q # <<>> /\ InSession(run, last)
    <2>1. Len(q) \in 1..Len(q)
        BY <1>1, <1>2 DEF JournalOk, IsList
    <2>2. last.rep \in 0..top /\ last.status \in Fine
        BY <2>1 DEF JournalOk, RecordOk
    <2>3. last.rep + 1 \in 0..top /\ 0 \in 0..top
        <3>1. last.rep < top
            BY <1>2 DEF InSession
        <3> HIDE DEF last, top
        <3> QED
            BY <1>1, <2>2, <3>1
    <2>4. \/ x = Rec(last.case, last.engine, last.rep + 1, last.round, last.status, "none", TRUE)
          \/ \E status \in Fine : x = Rec(last.case, last.engine, 0, last.round, status, "none", TRUE)
        BY <1>2 DEF NativeNext
    <2> HIDE DEF last
    <2> QED
        BY <2>2, <2>3, <2>4, RecIs
<1>3. CASE ~ (q # <<>> /\ InSession(run, last))
    <2>1. PICK t \in LaneTurns(run, q) : \E status \in Fine : x = Rec(t.case, t.engine, t.rep, t.round, status, "none", TRUE)
        BY <1>3 DEF NativeNext
    <2>2. t.rep \in 0..top
        BY <1>1, <2>1, LaneTurnIs
    <2> QED
        BY <2>1, <2>2, RecIs
<1> QED
    BY <1>2, <1>3

LEMMA LegacyRecordOk ==
    ASSUME NEW l \in DOMAIN Saved, NEW q, Saved[l].kind # "native", NEW x \in LegacyNext(l, q)
    PROVE  RecordOk(Saved[l], x)
<1> DEFINE run == Saved[l]  reps == run.head.reps
           open == {n \in 1..2 * reps : ~ \E i \in DOMAIN q :
                    /\ <<q[i].engine, q[i].rep>> = Turn(n)
                    /\ q[i].valid}
           n == Min(open)
<1>1. reps \in Nat \ {0}
    BY ExportAssumption
<1>2. open # {} /\ open \subseteq 1..2 * reps
    BY DEF LegacyNext
<1>3. n \in 1..2 * reps
    <2>1. open \subseteq Nat
        BY <1>1, <1>2
    <2> HIDE DEF open
    <2>2. \E m \in open : \A k \in open : m <= k
        BY <1>2, <2>1, LeastNat
    <2> QED
        BY <1>2, <2>2 DEF Min
<1>4. Turn(n)[2] \in 0..reps
    <2>1. Turn(n)[2] \in 1..reps
        BY <1>1, <1>3, TurnIs
    <2> HIDE DEF n
    <2> QED
        BY <1>1, <2>1
<1>5. \E hash : \E status \in {"ok", "failed"} : \E valid \in BOOLEAN :
        x = Rec("q", Turn(n)[1], Turn(n)[2], Turn(n)[2], status, hash, valid)
    BY DEF LegacyNext
<1> HIDE DEF n
<1> QED
    BY <1>4, <1>5, RecIs

LEMMA NextRecordOk ==
    ASSUME NEW l \in DOMAIN Saved, JournalsTrue, NEW x \in MayAdd(l)
    PROVE  RecordOk(Saved[l], x)
<1>1. JournalOk(Saved[l], journals[l])
    BY DEF JournalsTrue
<1>2. CASE Saved[l].kind = "native"
    BY <1>1, <1>2, NativeRecordOk DEF MayAdd
<1>3. CASE Saved[l].kind # "native"
    BY <1>3, LegacyRecordOk DEF MayAdd
<1> QED
    BY <1>2, <1>3

LEMMA InitTrue == ExportInit => ExportTrue
<1> SUFFICES ASSUME ExportInit PROVE ExportTrue
    OBVIOUS
<1>1. JournalsTrue
    BY DEF ExportInit, JournalsTrue, JournalOk, IsList
<1>2. LoadedTrue
    BY DEF ExportInit, LoadedTrue, IsList
<1> QED
    BY <1>1, <1>2 DEF ExportInit, ExportTrue, Made

LEMMA SameRuns ==
    ASSUME UNCHANGED <<request, loaded>>
    PROVE  Cells(request)' = Cells(request) /\ Audit(request)' = Audit(request) /\ Refuses(request)' = Refuses(request)
<1>1. Cells(request)' = Cells(request)
    BY DEF Cells, Measured, WithStored, Available, Expected, CaseLanes, Chosen
<1>2. Audit(request)' = Audit(request)
    BY DEF Audit, Available, Chosen
<1>3. Refuses(request)' = Refuses(request)
    BY DEF Refuses, Available, Expected, CaseLanes, Chosen
<1> QED
    BY <1>1, <1>2, <1>3

\* What the package is made of stays, or there is none.
LEMMA MadeStays ==
    ASSUME Made, \/ UNCHANGED <<request, loaded, pack>> /\ stage' \notin {"off", "load", "read"}
                 \/ pack' = NoPack
    PROVE  Made'
<1>1. CASE pack' = NoPack
    BY <1>1 DEF Made
<1>2. CASE UNCHANGED <<request, loaded, pack>> /\ stage' \notin {"off", "load", "read"}
    BY <1>2, SameRuns DEF Made, NoPack
<1> QED
    BY <1>1, <1>2

LEMMA GrowTrue == ASSUME ExportTrue, Grow PROVE JournalsTrue'
<1>1. PICK l \in Locations : \E x \in MayAdd(l) : journals' = [journals EXCEPT ![l] = Append(@, x)]
    BY DEF Grow
<1>2. PICK x \in MayAdd(l) : journals' = [journals EXCEPT ![l] = Append(@, x)]
    BY <1>1
<1>3. l \in DOMAIN Saved
    BY ExportAssumption DEF ExportTrue, Locations
<1>4. JournalOk(Saved[l], journals[l]) /\ DOMAIN journals = DOMAIN Saved
    BY <1>3 DEF ExportTrue, JournalsTrue
<1>5. RecordOk(Saved[l], x)
    BY <1>3, NextRecordOk DEF ExportTrue
<1>6. JournalOk(Saved[l], Append(journals[l], x))
    BY <1>4, <1>5, AppendList DEF JournalOk
<1>7. DOMAIN journals' = DOMAIN Saved /\ journals'[l] = Append(journals[l], x)
      /\ \A k \in DOMAIN Saved : k # l => journals'[k] = journals[k]
    BY <1>2, <1>3, <1>4
<1> QED
    BY <1>6, <1>7 DEF JournalsTrue, ExportTrue

LEMMA ReadTrue == ASSUME ExportTrue, ReadJournal PROVE LoadedTrue'
<1> DEFINE spec == NextSpec  run == Saved[spec.at]  records == journals[spec.at]
           v == [run |-> run, hashed |-> digested, records |-> records]
<1>1. stage' \in {"load", "refused"} /\ UNCHANGED <<request, journals>>
    BY DEF ReadJournal
<1>2. CASE loaded' = loaded
    BY <1>1, <1>2 DEF LoadedTrue, ExportTrue
<1>3. CASE LoadsRun(request, spec, run, records) /\ loaded' = Append(loaded, v)
    <2>1. spec.at \in DOMAIN Saved
        BY ExportAssumption DEF ExportTrue, LoadedTrue, IsList, NextSpec, ReadJournal
    <2>2. JournalOk(run, records) /\ run.head.reps \in Nat \ {0}
        BY <2>1, ExportAssumption DEF ExportTrue, JournalsTrue
    <2>3. run.kind \in {"native", "legacy"} /\ \A n \in 1..Len(records) : records[n].engine \in ToSet(run.expected)
        BY <1>3, <2>2 DEF LoadsRun, Declared, JournalOk, IsList
    <2>4. LoadedOk(v)
        <3> HIDE DEF spec, run, records
        <3> QED
            BY <2>2, <2>3 DEF LoadedOk
    <2> HIDE DEF v
    <2> QED
        BY <1>1, <1>3, <2>4, AppendList DEF LoadedTrue, ExportTrue
<1> QED
    BY <1>2, <1>3 DEF ReadJournal

LEMMA MakeTrue == ASSUME ExportTrue, Make PROVE Made'
<1>1. stage' \in {"check", "refused"} /\ UNCHANGED <<request, loaded>>
    BY DEF Make
<1>2. CASE pack' = pack
    BY <1>1, <1>2, MadeStays DEF ExportTrue
<1>3. CASE ~ Refuses(request) /\ pack' = [evidence |-> Evidence, cells |-> Cells(request), audit |-> Audit(request)]
    <2>1. pack'.cells = Cells(request) /\ pack'.audit = Audit(request)
        BY <1>3
    <2> QED
        BY <1>1, <1>3, <2>1, SameRuns DEF Made
<1> QED
    BY <1>2, <1>3 DEF Make

LEMMA StepTrue == ExportTrue /\ [ExportNext]_exportVars => ExportTrue'
<1> SUFFICES ASSUME ExportTrue, [ExportNext]_exportVars PROVE ExportTrue'
    OBVIOUS
<1> USE DEF ExportTrue
<1>1. CASE Grow
    <2>1. UNCHANGED <<request, stage, loaded, pack>> /\ pack = NoPack
        BY <1>1 DEF Grow, Made
    <2>2. JournalsTrue'
        BY <1>1, GrowTrue
    <2> QED
        BY <2>1, <2>2, MadeStays DEF LoadedTrue
<1>2. CASE StartExport
    <2>1. UNCHANGED <<request, journals>> /\ loaded' = <<>> /\ pack' = NoPack /\ stage' \in {"load", "refused"}
        BY <1>2 DEF StartExport
    <2> QED
        BY <2>1, MadeStays DEF LoadedTrue, JournalsTrue, IsList
<1>3. CASE HashJournal
    <2>1. UNCHANGED <<request, journals, loaded, pack>> /\ pack = NoPack /\ Len(loaded) < Len(request.runs)
        BY <1>3 DEF HashJournal, Made
    <2> QED
        BY <2>1, MadeStays DEF LoadedTrue, JournalsTrue
<1>4. CASE ReadJournal
    <2>1. UNCHANGED <<request, journals, pack>> /\ pack = NoPack
        BY <1>4 DEF ReadJournal, Made
    <2>2. LoadedTrue'
        BY <1>4, ReadTrue
    <2> QED
        BY <2>1, <2>2, MadeStays DEF JournalsTrue
<1>5. CASE Make
    <2>1. UNCHANGED <<request, journals, loaded>> /\ stage' \in {"check", "refused"}
        BY <1>5 DEF Make
    <2>2. Made'
        BY <1>5, MakeTrue
    <2> QED
        BY <2>1, <2>2 DEF LoadedTrue, JournalsTrue
<1>6. CASE CheckPackage \/ OpenFile \/ FillFile \/ FinishExport
    <2>1. UNCHANGED <<request, journals, loaded, pack>> /\ stage' \notin {"off", "load", "read"}
        BY <1>6 DEF CheckPackage, OpenFile, FillFile, FinishExport
    <2> QED
        BY <2>1, MadeStays DEF LoadedTrue, JournalsTrue
<1>7. CASE Again
    <2>1. UNCHANGED <<request, journals>> /\ loaded' = <<>> /\ pack' = NoPack /\ stage' = "off"
        BY <1>7 DEF Again
    <2> QED
        BY <2>1, MadeStays DEF LoadedTrue, JournalsTrue, IsList
<1>8. CASE UNCHANGED exportVars
    BY <1>8, SameRuns DEF exportVars, LoadedTrue, JournalsTrue, Made, NoPack
<1> QED
    BY <1>1, <1>2, <1>3, <1>4, <1>5, <1>6, <1>7, <1>8 DEF ExportNext

-----------------------------------------------------------------------------
LEMMA NotTwo ==
    ASSUME NEW S, IsFiniteSet(S), Cardinality(S) <= 1, NEW x \in S, NEW y \in S
    PROVE  x = y
<1> SUFFICES ASSUME x # y PROVE FALSE
    OBVIOUS
<1>1. IsFiniteSet({x}) /\ Cardinality({x}) = 1
    BY FS_Singleton
<1>2. Cardinality({x} \cup {y}) = 2
    <2>1. Cardinality({x} \cup {y}) = IF y \in {x} THEN Cardinality({x}) ELSE Cardinality({x}) + 1
        BY <1>1, FS_AddElement
    <2> QED
        BY <1>1, <2>1
<1>3. Cardinality({x} \cup {y}) <= Cardinality(S) /\ Cardinality(S) \in Nat
    BY FS_Subset, FS_CardinalityType
<1> QED
    BY <1>2, <1>3

\* The case of a lane, as a package has it.
CellTold(lane, case) ==
    LET engines == Measured(request, lane, case)
    IN  [lane |-> lane, case |-> case, engines |-> WithStored(request, lane, case, engines),
         runs |-> Available(request, lane, case),
         identical |-> IF {"zpq", "base"} \subseteq DOMAIN engines
                       THEN Identical({engines["zpq"], engines["base"]}) ELSE "unknown"]

\* The run that measured a case of a lane, for an export that is not refused.
Measures(i, lane, case) ==
    /\ i \in Available(request, lane, case) /\ i \in 1..Len(loaded) /\ LoadedOk(loaded[i])
    /\ \A j \in Available(request, lane, case) : j = i
    /\ \A e \in ToSet(loaded[i].run.expected) : ~ AcceptedTwice(loaded[i], case, e)

LEMMA CellIsTold ==
    ASSUME ExportTrue, NEW cell \in pack.cells
    PROVE  \E p \in CaseLanes(request) : cell = CellTold(p[1], p[2])
<1>1. pack # NoPack
    BY DEF NoPack
<1>2. cell \in Cells(request)
    BY <1>1 DEF ExportTrue, Made
<1> QED
    BY <1>2 DEF Cells, CellTold

LEMMA RunMeasures ==
    ASSUME ExportTrue, pack # NoPack, NEW p \in CaseLanes(request), NEW i \in Available(request, p[1], p[2])
    PROVE  Measures(i, p[1], p[2])
<1> DEFINE A == Available(request, p[1], p[2])
<1>1. /\ DOMAIN loaded = 1..Len(loaded) /\ Len(loaded) \in Nat
      /\ \A j \in 1..Len(loaded) : LoadedOk(loaded[j])
    BY DEF ExportTrue, LoadedTrue, IsList
<1>2. A \subseteq 1..Len(loaded)
    BY <1>1 DEF Available
<1>3. IsFiniteSet(A)
    <2>1. IsFiniteSet(1..Len(loaded))
        BY <1>1, FS_Interval
    <2> QED
        BY <1>2, <2>1, FS_Subset
<1>4. /\ ~ Cardinality(A) > 1
      /\ \A j \in A : \A e \in ToSet(loaded[j].run.expected) : ~ AcceptedTwice(loaded[j], p[2], e)
    BY DEF ExportTrue, Made, Refuses
<1>5. Cardinality(A) <= 1
    BY <1>3, <1>4, FS_CardinalityType
<1>6. \A j \in A : j = i
    BY <1>3, <1>5, NotTwo
<1> QED
    BY <1>1, <1>2, <1>4, <1>6 DEF Measures

LEMMA MeasuredIs ==
    ASSUME NEW lane, NEW case, NEW i, Measures(i, lane, case), NEW e
    PROVE  LET engines == Measured(request, lane, case)
           IN  /\ e \in ToSet(loaded[i].run.expected) => e \in DOMAIN engines /\ engines[e] = Summary(loaded[i], case, e)
               /\ e \in DOMAIN engines /\ engines[e].state # "pending" => e \in ToSet(loaded[i].run.expected)
<1> DEFINE A == Available(request, lane, case)
<1>1. i \in A /\ (CHOOSE j \in A : TRUE) = i
    BY DEF Measures
<1>2. (\E j \in A : e \in ToSet(loaded[j].run.expected)) <=> e \in ToSet(loaded[i].run.expected)
    BY <1>1 DEF Measures
<1>3. e \in ToSet(loaded[i].run.expected) => e \in Expected(request, lane, case)
    BY <1>1 DEF Expected
<1>4. Unplanned.state = "pending"
    BY DEF Unplanned
<1>5. /\ DOMAIN Measured(request, lane, case) = Expected(request, lane, case)
      /\ e \in Expected(request, lane, case) =>
            Measured(request, lane, case)[e] =
                IF \E j \in A : e \in ToSet(loaded[j].run.expected)
                THEN Summary(loaded[CHOOSE j \in A : TRUE], case, e) ELSE Unplanned
    BY DEF Measured
<1> HIDE DEF A
<1> QED
    BY <1>1, <1>2, <1>3, <1>4, <1>5

\* Nothing was measured where no run plans the case.
LEMMA NothingMeasured ==
    ASSUME NEW lane, NEW case, Available(request, lane, case) = {}, NEW e \in DOMAIN Measured(request, lane, case)
    PROVE  Measured(request, lane, case)[e].state = "pending"
    BY DEF Measured, Unplanned

LEMMA StoredIs ==
    ASSUME NEW lane, NEW case, NEW engines, NEW e \in DOMAIN WithStored(request, lane, case, engines)
    PROVE  WithStored(request, lane, case, engines)[e].state = "complete" <=>
             (e \in DOMAIN engines /\ engines[e].state = "complete")
<1> DEFINE given == {q.engine : q \in {q \in request.stored : q.lane = lane /\ q.case = case}}
           filled == {x \in given : x \notin DOMAIN engines \/ engines[x].state = "pending"}
<1>1. [Unplanned EXCEPT !.state = "stored"].state = "stored"
    BY DEF Unplanned
<1>2. WithStored(request, lane, case, engines) =
        [x \in DOMAIN engines \cup filled |-> IF x \in filled THEN [Unplanned EXCEPT !.state = "stored"] ELSE engines[x]]
    BY DEF WithStored
<1>3. e \in filled => (e \notin DOMAIN engines \/ engines[e].state = "pending")
    OBVIOUS
<1> HIDE DEF filled
<1> QED
    BY <1>1, <1>2, <1>3

\* What a cell says is complete, its run has as complete.
LEMMA CompleteIs ==
    ASSUME NEW lane, NEW case, NEW i, Measures(i, lane, case), NEW e \in DOMAIN CellTold(lane, case).engines
    PROVE  CellTold(lane, case).engines[e].state = "complete" <=>
             (e \in ToSet(loaded[i].run.expected) /\ StateOf(loaded[i], case, e) = "complete")
<1> DEFINE engines == Measured(request, lane, case)
<1>1. CellTold(lane, case).engines = WithStored(request, lane, case, engines)
    BY DEF CellTold
<1>2. CellTold(lane, case).engines[e].state = "complete" <=> (e \in DOMAIN engines /\ engines[e].state = "complete")
    BY <1>1, StoredIs
<1>3. /\ e \in ToSet(loaded[i].run.expected) => e \in DOMAIN engines /\ engines[e] = Summary(loaded[i], case, e)
      /\ e \in DOMAIN engines /\ engines[e].state # "pending" => e \in ToSet(loaded[i].run.expected)
    BY MeasuredIs
<1>4. Summary(loaded[i], case, e).state = StateOf(loaded[i], case, e)
    BY DEF Summary
<1> HIDE DEF engines
<1> QED
    BY <1>2, <1>3, <1>4

\* Of a native run, it is what the scorer has.
LEMMA ScoredIs ==
    ASSUME NEW v, LoadedOk(v), v.run.kind = "native", NEW case, NEW e
    PROVE  StateOf(v, case, e) = "complete" <=>
             (Cell(v.run.head, v.records, case, e) = "median" /\ case \notin DisturbedLast(v.run.head, v.records))
<1> DEFINE lines == CellReps(v.records, case, e)  reps == v.run.head.reps
<1>1. \A n \in DOMAIN v.records :
        v.records[n].status \in {"ok", "disturbed", "failed"} /\ (v.records[n].status = "ok" <=> Accepted(v.records[n]))
    BY DEF LoadedOk, JournalOk, RecordOk, IsList
<1>2. CohortOf(v, case, e) = lines
    BY DEF CohortOf, InCohort, CellReps
<1>3. GoodOf(v, case, e) = Oks(v.records, lines)
    BY <1>1, <1>2 DEF GoodOf, Oks, CellReps
<1>4. (\E n \in lines : v.records[n].status \in {"failed", "wrong", "incorrect", "timeout"}) <=>
        (\E n \in lines : v.records[n].status \in {"failed", "wrong", "timeout"})
    BY <1>1 DEF CellReps
<1>5. Held(v, case) = "no" <=> case \notin DisturbedLast(v.run.head, v.records)
    BY DEF Held, Pending, Quarantined
<1>6. StateOf(v, case, e) = "complete" <=>
        /\ Held(v, case) = "no"
        /\ ~ \E n \in lines : v.records[n].status \in {"failed", "wrong", "incorrect", "timeout"}
        /\ Cardinality(Oks(v.records, lines)) = reps
    BY <1>2, <1>3 DEF StateOf, Held
<1>7. lines = {} => Cardinality(Oks(v.records, lines)) # reps
    <2> SUFFICES ASSUME lines = {} PROVE Cardinality(Oks(v.records, lines)) # reps
        OBVIOUS
    <2>1. Oks(v.records, lines) = {}
        BY DEF Oks
    <2> QED
        BY <2>1, FS_EmptySet DEF LoadedOk
<1>8. Cell(v.run.head, v.records, case, e) = "median" <=>
        /\ lines # {}
        /\ ~ \E n \in lines : v.records[n].status \in {"failed", "wrong", "timeout"}
        /\ Cardinality(Oks(v.records, lines)) = reps
    BY DEF Cell
<1> HIDE DEF lines, reps
<1> QED
    BY <1>4, <1>5, <1>6, <1>7, <1>8

LEMMA CellsAreScored == ExportTrue => CompleteAsScored
<1> SUFFICES ASSUME ExportTrue, NEW cell \in pack.cells, NEW i \in cell.runs, loaded[i].run.kind = "native",
                    NEW e \in ToSet(loaded[i].run.expected)
             PROVE  LET v == loaded[i]
                        scored == /\ Cell(v.run.head, v.records, cell.case, e) = "median"
                                  /\ cell.case \notin DisturbedLast(v.run.head, v.records)
                    IN  (cell.engines[e].state = "complete") <=> scored
    BY DEF CompleteAsScored
<1>1. PICK p \in CaseLanes(request) : cell = CellTold(p[1], p[2])
    BY CellIsTold
<1>2. cell.runs = Available(request, p[1], p[2]) /\ cell.case = p[2]
    BY <1>1 DEF CellTold
<1>3. Measures(i, p[1], p[2])
    <2>1. pack # NoPack
        BY DEF NoPack
    <2> QED
        BY <1>2, <2>1, RunMeasures
<1>4. e \in DOMAIN cell.engines
    <2>1. e \in DOMAIN Measured(request, p[1], p[2])
        BY <1>3, MeasuredIs
    <2> QED
        BY <1>1, <2>1 DEF CellTold, WithStored
<1>5. cell.engines[e].state = "complete" <=> StateOf(loaded[i], cell.case, e) = "complete"
    BY <1>1, <1>2, <1>3, <1>4, CompleteIs
<1>6. LoadedOk(loaded[i])
    BY <1>3 DEF Measures
<1> QED
    BY <1>5, <1>6, ScoredIs

-----------------------------------------------------------------------------
\* The row of the audit of an accepted attempt.
AuditRow(i, q) == [run |-> i, sequence |-> q, disposition |-> "accepted"]
AuditRows(i, G) == {AuditRow(i, q) : q \in G}

\* The attempts accepted for an engine of a cell are the good ones of the run
\* that measured it, when they are complete.
LEMMA AcceptedIsGood ==
    ASSUME ExportTrue, pack # NoPack, NEW p \in CaseLanes(request), NEW e,
           NEW a \in AcceptedOf(CellTold(p[1], p[2]), e)
    PROVE  /\ Measures(a.run, p[1], p[2]) /\ e \in ToSet(loaded[a.run].run.expected)
           /\ StateOf(loaded[a.run], p[2], e) = "complete"
           /\ a.sequence \in GoodOf(loaded[a.run], p[2], e) /\ a = AuditRow(a.run, a.sequence)
<1>1. /\ a \in pack.audit /\ a.disposition = "accepted" /\ request.runs[a.run].lane = p[1]
      /\ loaded[a.run].records[a.sequence].case = p[2] /\ loaded[a.run].records[a.sequence].engine = e
    BY DEF AcceptedOf, CellTold
<1>2. a \in Audit(request)
    BY <1>1 DEF ExportTrue, Made
<1>3. PICK i \in DOMAIN loaded : \E q \in DOMAIN loaded[i].records :
        a = [run |-> i, sequence |-> q,
             disposition |-> IF i \notin Available(request, request.runs[i].lane, loaded[i].records[q].case) THEN "replaced-cohort"
                             ELSE IF loaded[i].records[q].rep < 1 THEN "warmup"
                             ELSE IF Counted(loaded[i], loaded[i].records[q]) THEN "accepted" ELSE "excluded-or-incomplete"]
    BY <1>2 DEF Audit
<1>4. PICK q \in DOMAIN loaded[i].records :
        a = [run |-> i, sequence |-> q,
             disposition |-> IF i \notin Available(request, request.runs[i].lane, loaded[i].records[q].case) THEN "replaced-cohort"
                             ELSE IF loaded[i].records[q].rep < 1 THEN "warmup"
                             ELSE IF Counted(loaded[i], loaded[i].records[q]) THEN "accepted" ELSE "excluded-or-incomplete"]
    BY <1>3
<1>5. a.run = i /\ a.sequence = q
    BY <1>4
<1>6. a = AuditRow(i, q)
    BY <1>1, <1>4 DEF AuditRow
<1>7. i \in Available(request, p[1], p[2]) /\ Counted(loaded[i], loaded[i].records[q])
    BY <1>1, <1>4, <1>5
<1>8. Measures(i, p[1], p[2])
    BY <1>7, RunMeasures
<1>9. StateOf(loaded[i], p[2], e) = "complete" /\ q \in GoodOf(loaded[i], p[2], e)
    BY <1>1, <1>4, <1>5, <1>7 DEF Counted, GoodOf, CohortOf
<1>10. e \in ToSet(loaded[i].run.expected)
    BY <1>1, <1>4, <1>5, <1>8 DEF Measures, LoadedOk, JournalOk, IsList
<1> QED
    BY <1>5, <1>6, <1>8, <1>9, <1>10

LEMMA GoodIsAccepted ==
    ASSUME ExportTrue, pack # NoPack, NEW p \in CaseLanes(request), NEW e, NEW i, Measures(i, p[1], p[2]),
           StateOf(loaded[i], p[2], e) = "complete", NEW q \in GoodOf(loaded[i], p[2], e)
    PROVE  AuditRow(i, q) \in AcceptedOf(CellTold(p[1], p[2]), e)
<1> DEFINE x == loaded[i].records[q]
<1>1. /\ i \in DOMAIN loaded /\ request.runs[i].lane = p[1] /\ i \in Available(request, p[1], p[2])
    BY DEF Measures, Available
<1>2. /\ q \in DOMAIN loaded[i].records /\ x.case = p[2] /\ x.engine = e
      /\ InCohort(loaded[i], p[2], x) /\ Accepted(x)
    BY DEF GoodOf, CohortOf
<1>3. DOMAIN loaded[i].records = 1..Len(loaded[i].records) /\ loaded[i].run.head.reps \in Nat \ {0}
    BY DEF Measures, LoadedOk, JournalOk, IsList
<1>4. x.rep \in 0..loaded[i].run.head.reps
    BY <1>2, <1>3 DEF Measures, LoadedOk, JournalOk, RecordOk
<1>5. ~ x.rep < 1
    <2>1. x.rep >= 1
        BY <1>2 DEF InCohort
    <2> HIDE DEF x
    <2> QED
        BY <1>3, <1>4, <2>1
<1>6. Counted(loaded[i], x)
    BY <1>2 DEF Counted
<1>7. AuditRow(i, q) \in Audit(request)
    <2>1. <<i, q>> \in UNION {{j} \X DOMAIN loaded[j].records : j \in DOMAIN loaded}
        BY <1>1, <1>2
    <2>2. AuditRow(i, q) = [run |-> i, sequence |-> q,
             disposition |-> IF i \notin Available(request, request.runs[i].lane, x.case) THEN "replaced-cohort"
                             ELSE IF x.rep < 1 THEN "warmup"
                             ELSE IF Counted(loaded[i], x) THEN "accepted" ELSE "excluded-or-incomplete"]
        BY <1>1, <1>2, <1>5, <1>6 DEF AuditRow
    <2>3. <<i, q>>[1] = i /\ <<i, q>>[2] = q
        OBVIOUS
    <2> QED
        BY <2>1, <2>2, <2>3 DEF Audit
<1>8. AuditRow(i, q) \in pack.audit
    BY <1>7 DEF ExportTrue, Made
<1>9. /\ AuditRow(i, q).run = i /\ AuditRow(i, q).sequence = q /\ AuditRow(i, q).disposition = "accepted"
      /\ CellTold(p[1], p[2]).lane = p[1] /\ CellTold(p[1], p[2]).case = p[2]
    BY DEF AuditRow, CellTold
<1> QED
    BY <1>1, <1>2, <1>8, <1>9 DEF AcceptedOf

LEMMA AcceptedIs ==
    ASSUME ExportTrue, pack # NoPack, NEW p \in CaseLanes(request), NEW e, NEW i, Measures(i, p[1], p[2]),
           StateOf(loaded[i], p[2], e) = "complete"
    PROVE  AcceptedOf(CellTold(p[1], p[2]), e) = AuditRows(i, GoodOf(loaded[i], p[2], e))
<1> DEFINE mine == AcceptedOf(CellTold(p[1], p[2]), e)  good == GoodOf(loaded[i], p[2], e)
<1>1. \A q \in good : AuditRow(i, q) \in mine
    BY GoodIsAccepted
<1>2. ASSUME NEW a \in mine PROVE a.sequence \in good /\ a = AuditRow(i, a.sequence)
    <2>1. /\ Measures(a.run, p[1], p[2])
          /\ a.sequence \in GoodOf(loaded[a.run], p[2], e) /\ a = AuditRow(a.run, a.sequence)
        BY AcceptedIsGood
    <2>2. a.run = i
        BY <2>1 DEF Measures
    <2> QED
        BY <2>1, <2>2
<1>3. mine = AuditRows(i, good)
    <2> HIDE DEF mine, good
    <2> QED
        BY <1>1, <1>2 DEF AuditRows
<1> QED
    BY <1>3

\* What rows say of the records they name, and what records of a run hold.
RepsSaid(T) == {loaded[a.run].records[a.sequence].rep : a \in T}
HashesSaid(T) == {loaded[a.run].records[a.sequence].hash : a \in T}
HashesOf(v, G) == {v.records[q].hash : q \in G}

LEMMA RowsSay ==
    ASSUME NEW i, NEW G
    PROVE  /\ RepsSaid(AuditRows(i, G)) = RepsOf(loaded[i], G)
           /\ HashesSaid(AuditRows(i, G)) = HashesOf(loaded[i], G)
           /\ \A a \in AuditRows(i, G) : a.run = i
<1> DEFINE T == AuditRows(i, G)
<1>1. \A q : AuditRow(i, q).run = i /\ AuditRow(i, q).sequence = q
    BY DEF AuditRow
<1>2. \A a \in T : a.run = i /\ a.sequence \in G
    BY <1>1 DEF AuditRows
<1>3. \A q \in G : \E a \in T : a.run = i /\ a.sequence = q
    BY <1>1 DEF AuditRows
<1> HIDE DEF T
<1>4. RepsSaid(T) = RepsOf(loaded[i], G)
    BY <1>2, <1>3 DEF RepsSaid, RepsOf
<1>5. HashesSaid(T) = HashesOf(loaded[i], G)
    BY <1>2, <1>3 DEF HashesSaid, HashesOf
<1> QED
    BY <1>2, <1>4, <1>5 DEF T

LEMMA RowsCount ==
    ASSUME NEW i, NEW G, IsFiniteSet(G)
    PROVE  Cardinality(AuditRows(i, G)) = Cardinality(G)
<1> DEFINE T == AuditRows(i, G)
           f == [q \in G |-> AuditRow(i, q)]
<1>1. f \in [G -> T] /\ \A x \in T : \E q \in G : f[q] = x
    BY DEF AuditRows
<1>2. \A q, t \in G : f[q] = f[t] => q = t
    BY DEF AuditRow
<1>3. f \in Bijection(G, T)
    BY <1>1, <1>2 DEF Bijection, Injection, Surjection, IsInjective
<1>4. ExistsBijection(G, T)
    BY <1>3 DEF ExistsBijection
<1> QED
    BY <1>4, FS_Bijection

\* Complete, an engine has each of its repetitions accepted, once.
LEMMA RepsAreAll ==
    ASSUME NEW v, LoadedOk(v), NEW case, NEW e, StateOf(v, case, e) = "complete", ~ AcceptedTwice(v, case, e)
    PROVE  LET good == GoodOf(v, case, e)
           IN  /\ IsFiniteSet(good) /\ Cardinality(good) = v.run.head.reps
               /\ RepsOf(v, good) = 1..v.run.head.reps
<1> DEFINE good == GoodOf(v, case, e)  reps == v.run.head.reps
<1>1. /\ DOMAIN v.records = 1..Len(v.records) /\ Len(v.records) \in Nat /\ reps \in Nat
      /\ \A n \in 1..Len(v.records) : v.records[n].rep \in 0..reps
    BY DEF LoadedOk, JournalOk, RecordOk, IsList
<1>2. good \subseteq 1..Len(v.records) /\ \A n \in good : v.records[n].rep >= 1
    BY <1>1 DEF GoodOf, CohortOf, InCohort
<1>3. IsFiniteSet(good)
    <2> DEFINE m == Len(v.records)
    <2>1. IsFiniteSet(1..m)
        <3>1. m \in Nat
            BY <1>1
        <3> HIDE DEF m
        <3> QED
            BY <3>1, FS_Interval
    <2> QED
        BY <1>2, <2>1, FS_Subset
<1>4. Cardinality(good) = reps
    BY DEF StateOf, Held
<1>5. Cardinality(RepsOf(v, good)) = reps
    BY <1>4 DEF AcceptedTwice
<1>6. RepsOf(v, good) \subseteq 1..reps
    BY <1>1, <1>2 DEF RepsOf
<1>7. IsFiniteSet(1..reps) /\ Cardinality(1..reps) = reps
    <2> HIDE DEF reps
    <2>1. /\ IsFiniteSet(1..reps)
          /\ Cardinality(1..reps) = IF 1 > reps THEN 0 ELSE reps - 1 + 1
        BY <1>1, FS_Interval
    <2> QED
        BY <1>1, <2>1
<1>8. RepsOf(v, good) = 1..reps
    BY <1>5, <1>6, <1>7, FS_Subset
<1> QED
    BY <1>3, <1>4, <1>8

LEMMA CohortsAreAccepted == ExportTrue => AcceptedAreCohorts
<1> SUFFICES ASSUME ExportTrue, NEW cell \in pack.cells, NEW e \in DOMAIN cell.engines, AcceptedOf(cell, e) # {}
             PROVE  LET mine == AcceptedOf(cell, e)
                    IN  /\ \E i \in cell.runs :
                             /\ \A a \in mine : a.run = i
                             /\ {loaded[i].records[a.sequence].rep : a \in mine} = 1..loaded[i].run.head.reps
                             /\ Cardinality(mine) = loaded[i].run.head.reps
                        /\ cell.engines[e].state = "complete"
    BY DEF AcceptedAreCohorts
<1>1. PICK p \in CaseLanes(request) : cell = CellTold(p[1], p[2])
    BY CellIsTold
<1>2. pack # NoPack
    BY DEF NoPack
<1>3. PICK b \in AcceptedOf(cell, e) : TRUE
    OBVIOUS
<1> DEFINE i == b.run  good == GoodOf(loaded[i], p[2], e)  mine == AcceptedOf(cell, e)  reps == loaded[i].run.head.reps
<1>4. /\ Measures(i, p[1], p[2]) /\ e \in ToSet(loaded[i].run.expected)
      /\ StateOf(loaded[i], p[2], e) = "complete"
    BY <1>1, <1>2, AcceptedIsGood
<1>5. mine = AuditRows(i, good)
    BY <1>1, <1>2, <1>4, AcceptedIs
<1>6. i \in cell.runs
    BY <1>1, <1>4 DEF Measures, CellTold
<1>7. IsFiniteSet(good) /\ Cardinality(good) = reps /\ RepsOf(loaded[i], good) = 1..reps
    BY <1>4, RepsAreAll DEF Measures
<1>8. Cardinality(mine) = reps
    BY <1>5, <1>7, RowsCount
<1>9. cell.engines[e].state = "complete"
    BY <1>1, <1>4, CompleteIs
<1>10. RepsSaid(mine) = RepsOf(loaded[i], good) /\ \A a \in mine : a.run = i
    BY <1>5, RowsSay
<1>11. {loaded[i].records[a.sequence].rep : a \in mine} = RepsOf(loaded[i], good)
    <2> HIDE DEF mine, i, good
    <2>1. {loaded[i].records[a.sequence].rep : a \in mine} = RepsSaid(mine)
        BY <1>10 DEF RepsSaid
    <2> QED
        BY <1>10, <2>1
<1> HIDE DEF mine, i, good, reps
<1> QED
    BY <1>6, <1>7, <1>8, <1>9, <1>10, <1>11 DEF i, mine, reps

-----------------------------------------------------------------------------
\* What Identical compares of a cell: engines that were measured, and complete.
LEMMA DigestsAre ==
    ASSUME ExportTrue, pack # NoPack, NEW p \in CaseLanes(request), NEW e \in DOMAIN Measured(request, p[1], p[2]),
           Measured(request, p[1], p[2])[e].state = "complete", Measured(request, p[1], p[2])[e].allHashed
    PROVE  LET hashes == Measured(request, p[1], p[2])[e].hashes
               digests == {loaded[a.run].records[a.sequence].hash : a \in AcceptedOf(CellTold(p[1], p[2]), e)}
           IN  digests = hashes /\ "none" \notin digests
<1> DEFINE engines == Measured(request, p[1], p[2])
<1>1. PICK i : i \in Available(request, p[1], p[2])
    BY NothingMeasured
<1>2. Measures(i, p[1], p[2])
    BY <1>1, RunMeasures
<1>3. engines[e] = Summary(loaded[i], p[2], e)
    BY <1>2, MeasuredIs
<1> DEFINE v == loaded[i]  good == GoodOf(v, p[2], e)
           digests == {loaded[a.run].records[a.sequence].hash : a \in AcceptedOf(CellTold(p[1], p[2]), e)}
<1>4. StateOf(v, p[2], e) = "complete" /\ AllHashed(v, good) /\ engines[e].hashes = Hashes(v, good)
    BY <1>3 DEF Summary
<1>5. AcceptedOf(CellTold(p[1], p[2]), e) = AuditRows(i, good)
    BY <1>2, <1>4, AcceptedIs
<1>6. digests = HashesSaid(AuditRows(i, good))
    BY <1>5 DEF HashesSaid
<1>7. digests = HashesOf(v, good)
    BY <1>6, RowsSay
<1>8. Hashes(v, good) = HashesOf(v, good) /\ "none" \notin HashesOf(v, good)
    BY <1>4 DEF Hashes, AllHashed, HashesOf
<1> HIDE DEF engines, v, good, digests
<1> QED
    BY <1>4, <1>7, <1>8 DEF engines, digests

LEMMA SameOrTwo == \A x, y : Cardinality({x, y}) = 1 <=> x = y
<1> TAKE x, y
<1>1. IsFiniteSet({x}) /\ Cardinality({x}) = 1
    BY FS_Singleton
<1>2. x = y => {x, y} = {x}
    OBVIOUS
<1>3. {x, y} = {x} \cup {y}
    OBVIOUS
<1>4. x # y => Cardinality({x} \cup {y}) = 2
    BY <1>1, FS_AddElement
<1> QED
    BY <1>1, <1>2, <1>3, <1>4

LEMMA IdentityHasProof == ExportTrue => IdentityIsProven
<1> SUFFICES ASSUME ExportTrue, NEW cell \in pack.cells, cell.identical # "unknown"
             PROVE  LET digests(e) == {loaded[a.run].records[a.sequence].hash : a \in AcceptedOf(cell, e)}
                    IN  /\ \A e \in {"zpq", "base"} : Cardinality(digests(e)) = 1 /\ "none" \notin digests(e)
                        /\ (cell.identical = "yes") <=> (digests("zpq") = digests("base"))
    BY DEF IdentityIsProven
<1>1. PICK p \in CaseLanes(request) : cell = CellTold(p[1], p[2])
    BY CellIsTold
<1>2. pack # NoPack
    BY DEF NoPack
<1> DEFINE engines == Measured(request, p[1], p[2])
           pair == {engines["zpq"], engines["base"]}
           digests(e) == {loaded[a.run].records[a.sequence].hash : a \in AcceptedOf(cell, e)}
<1>3. {"zpq", "base"} \subseteq DOMAIN engines /\ cell.identical = Identical(pair)
    BY <1>1 DEF CellTold
<1>4. /\ \A x \in pair : x.state = "complete" /\ x.allHashed /\ Cardinality(x.hashes) = 1
      /\ cell.identical = IF Cardinality({x.hashes : x \in pair}) = 1 THEN "yes" ELSE "no"
    BY <1>3 DEF Identical
<1>5. ASSUME NEW e \in {"zpq", "base"}
      PROVE  digests(e) = engines[e].hashes /\ "none" \notin digests(e) /\ Cardinality(engines[e].hashes) = 1
    <2>1. e \in DOMAIN engines /\ engines[e].state = "complete" /\ engines[e].allHashed /\ Cardinality(engines[e].hashes) = 1
        BY <1>3, <1>4
    <2>2. digests(e) = engines[e].hashes /\ "none" \notin digests(e)
        BY <1>1, <1>2, <2>1, DigestsAre
    <2> QED
        BY <2>1, <2>2
<1>7. cell.identical = "yes" <=> engines["zpq"].hashes = engines["base"].hashes
    <2>1. Cardinality({x.hashes : x \in pair}) = 1 <=> engines["zpq"].hashes = engines["base"].hashes
        <3> HIDE DEF engines
        <3>2. {x.hashes : x \in pair} = {engines["zpq"].hashes, engines["base"].hashes}
            OBVIOUS
        <3> DEFINE z == engines["zpq"].hashes  b == engines["base"].hashes
        <3>3. Cardinality({z, b}) = 1 <=> z = b
            <4> HIDE DEF z, b
            <4> QED
                BY SameOrTwo
        <3> QED
            BY <3>2, <3>3
    <2>2. cell.identical = "yes" <=> Cardinality({x.hashes : x \in pair}) = 1
        <3> HIDE DEF pair
        <3> QED
            BY <1>4
    <2> QED
        BY <2>1, <2>2
<1> HIDE DEF engines
<1> QED
    BY <1>5, <1>7

-----------------------------------------------------------------------------
\* What an export says of a cell is always borne out (requests.py's cells
\* against score.py and the attempts audited as accepted).
THEOREM CellsAreBorneOutAlways == ExportSpec => []CellsAreBorneOut
<1>1. ExportInit => ExportTrue
    BY InitTrue
<1>2. ExportTrue /\ [ExportNext]_exportVars => ExportTrue'
    BY StepTrue
<1>3. ExportTrue => CellsAreBorneOut
    BY CellsAreScored, CohortsAreAccepted, IdentityHasProof DEF CellsAreBorneOut
<1> QED
    BY <1>1, <1>2, <1>3, PTL DEF ExportSpec
=============================================================================
