---------------------------- MODULE LocalReader ----------------------------
(***************************************************************************)
(* io/local_reader.zig: reader threads fill a buffer row group by row      *)
(* group, within a byte window, ahead of the scan workers.  A worker waits *)
(* on a row group's gate before it touches the row group and the last one  *)
(* done with it hands its pages and its charge back.                       *)
(*                                                                         *)
(* The reads themselves are constants (see LocalReaderLayout, which makes  *)
(* them); the threads here read with pread (preadRun).  Each action is one *)
(* atomic access to shared memory, or several that no other thread can     *)
(* tell apart.  A bounded wait (waitRelease sleeps a millisecond at most)  *)
(* is a thread whose next action is not enabled.                           *)
(*                                                                         *)
(* An operator named D_X is a mutant of the D defined after it: a bug that *)
(* could be written there, and that a property below is known to catch.    *)
(***************************************************************************)
EXTENDS Integers, Sequences, FiniteSets, Functions

CONSTANTS
    Readers,        \* reader threads
    Workers,        \* scan workers
    NumRG,          \* row groups of all the files, in plan order
    NumFiles,
    FileOf,         \* FileOf[rg]: the file a row group is in
    Units,          \* the reads, in the order threads claim them
    Holds,          \* Holds[rg]: the pages a row group's ranges and probes cover
    Pruned,         \* row groups planned for no range of their own
    Work,           \* the row group of each work item, in the order they are claimed
    Items,          \* work items per row group
    Window,         \* cfg.window
    LedgerLimit,    \* the query ledger's limit
    Draws,          \* bound: what the rest of the query may hold of the ledger
    CanFail,        \* whether a read may fail
    CanQuit         \* whether a worker may end early, or planning refuse the scan

RowGroups == 1..NumRG
FileIds == 1..NumFiles
Pages == UNION {Holds[rg] : rg \in RowGroups}
ProbeGate(f) == NumRG + f
Gates == 1..(NumRG + NumFiles)

UnitsOf(rg) == {u \in DOMAIN Units : ~Units[u].probe /\ Units[u].rg = rg}
ProbesOf(f) == {u \in DOMAIN Units : Units[u].probe /\ Units[u].file = f}
First(u) == ~Units[u].probe /\ Units[u].charge > 0

UnitType == [probe : BOOLEAN, file : FileIds, rg : RowGroups,
             pages : SUBSET Pages, charge : Nat, ticket : Nat]

\* What is asked of the layout, and checked of it in MCLocalReader.
ASSUME LayoutAssumption ==
    /\ NumRG \in Nat
    /\ NumFiles \in Nat
    /\ FileOf \in [RowGroups -> FileIds]
    /\ \A rg \in RowGroups : IsFiniteSet(Holds[rg])

ASSUME UnitsAssumption == Units \in Seq(UnitType)

\* A ticket is charged for once.
ASSUME TicketAssumption ==
    \A u, v \in DOMAIN Units :
        First(u) /\ First(v) /\ Units[u].ticket = Units[v].ticket => u = v

ASSUME ParameterAssumption ==
    /\ Pruned \subseteq RowGroups
    /\ Items \in Nat \ {0}
    /\ Work \in Seq(RowGroups)
    /\ Window \in Nat
    /\ LedgerLimit \in Nat
    /\ Draws \subseteq Nat
    /\ CanFail \in BOOLEAN
    /\ CanQuit \in BOOLEAN

\* The row groups with reads of their own are scanned; each has one ticket, which
\* its first read is charged for, and the tickets go up in their order.
ASSUME RowGroupAssumption ==
    /\ \A rg \in RowGroups : UnitsOf(rg) # {} =>
          /\ rg \notin Pruned
          /\ \E k \in DOMAIN Work : Work[k] = rg
          /\ \E u \in UnitsOf(rg) : First(u)
    /\ \A u, v \in DOMAIN Units : ~Units[u].probe /\ ~Units[v].probe =>
          (Units[u].rg <= Units[v].rg <=> Units[u].ticket <= Units[v].ticket)

\* The pages a row group holds are those of its own reads, and of the probes of
\* its file; there are no more work items of it than it counts.
ASSUME HoldAssumption ==
    /\ \A rg \in RowGroups : \A p \in Holds[rg] :
          \E u \in UnitsOf(rg) \cup ProbesOf(FileOf[rg]) : p \in Units[u].pages
    /\ \A u \in DOMAIN Units : ~Units[u].probe => Units[u].pages \subseteq Holds[Units[u].rg]
    /\ \A rg \in RowGroups : Cardinality({k \in DOMAIN Work : Work[k] = rg}) <= Items

ASSUME ThreadAssumption == IsFiniteSet(Workers)

\* File.rg_bytes: the charge its first unit carries, 0 without one.
RgBytes(rg) ==
    IF \E u \in UnitsOf(rg) : First(u)
    THEN Units[CHOOSE u \in UnitsOf(rg) : First(u)].charge
    ELSE 0
Bytes == [rg \in RowGroups |-> RgBytes(rg)]

\* failAll's order: each file's row groups, then its probes.
FailOrder(g) ==
    IF g \in RowGroups THEN g + FileOf[g] - 1
    ELSE (g - NumRG) + Cardinality({rg \in RowGroups : FileOf[rg] <= g - NumRG})
GateAt(k) == CHOOSE g \in Gates : FailOrder(g) = k

VARIABLES
    phase,          \* where the query's own thread is
    cancel,
    next_unit,      \* the next read to claim
    admit_next,     \* the ticket of the next row group to admit
    submitted, released,
    ledger_held,    \* what the reader owes the ledger
    ledger_used,    \* SharedBudget.used
    others,         \* of it, what the rest of the query holds
    probes_out,
    left,           \* per gate: its units not yet read (rg_units_left, probe_left)
    ready,          \* per gate: 0 waiting, 1 in, 2 failed (rg_ready, probe_ready)
    items_done,
    rg_released,
    seg_refs,       \* per page: the row groups still holding it
    resident,       \* pages of the buffer that hold the file's bytes
    cursor,         \* the next work item to claim
    rpc, unit, out, failing,    \* reader threads
    wpc, wrg, werr              \* scan workers

reader_vars == <<rpc, unit, out, failing>>
worker_vars == <<wpc, wrg, werr>>
window_vars == <<admit_next, submitted, released>>
ledger_vars == <<ledger_held, ledger_used, others>>
gate_vars == <<left, ready>>
page_vars == <<seg_refs, resident>>
scan_vars == <<items_done, rg_released>>
vars == <<phase, cancel, next_unit, window_vars, ledger_vars, probes_out,
          gate_vars, scan_vars, page_vars, cursor, reader_vars, worker_vars>>

-----------------------------------------------------------------------------
UnitsLeft(g) == Cardinality(IF g \in RowGroups THEN UnitsOf(g) ELSE ProbesOf(g - NumRG))

Init ==
    /\ phase = "planning"
    /\ cancel = FALSE
    /\ next_unit = 1
    /\ admit_next = 0
    /\ submitted = 0
    /\ released = 0
    /\ ledger_held = 0
    /\ others \in Draws
    /\ ledger_used = others
    /\ probes_out = Cardinality({u \in DOMAIN Units : Units[u].probe})
    /\ left = [g \in Gates |-> UnitsLeft(g)]
    /\ ready = [g \in Gates |-> IF UnitsLeft(g) = 0 THEN 1 ELSE 0]
    /\ items_done = [rg \in RowGroups |-> 0]
    /\ rg_released = [rg \in RowGroups |-> FALSE]
    /\ seg_refs = [p \in Pages |-> Cardinality({rg \in RowGroups : p \in Holds[rg]})]
    /\ resident = {}
    /\ cursor = 0
    /\ rpc = [r \in Readers |-> "claim"]
    /\ unit = [r \in Readers |-> 0]
    /\ out = [r \in Readers |-> 0]
    /\ failing = [r \in Readers |-> 0]
    /\ wpc = [w \in Workers |-> "claim"]
    /\ wrg = [w \in Workers |-> 0]
    /\ werr = [w \in Workers |-> FALSE]

-----------------------------------------------------------------------------
(* Reader threads: preadRun, admit, readUnit, unitDone, failAll.           *)

Goto(r, pc) == rpc' = [rpc EXCEPT ![r] = pc]

OutOfUnits == next_unit > Len(Units)

Claim(r) ==
    /\ rpc[r] = "claim"
    /\ IF cancel
       THEN /\ Goto(r, "exit")
            /\ UNCHANGED <<next_unit, unit>>
       ELSE /\ next_unit' = next_unit + 1
            /\ unit' = [unit EXCEPT ![r] = next_unit]
            /\ Goto(r, IF OutOfUnits THEN "exit" ELSE "admit")
    /\ UNCHANGED <<phase, cancel, window_vars, ledger_vars, probes_out, gate_vars,
                   scan_vars, page_vars, cursor, out, failing, worker_vars>>

\* admit refuses, and its caller sees the cancel.
GiveUp(r) ==
    /\ rpc[r] = "admit"
    /\ cancel
    /\ Goto(r, "exit")
    /\ UNCHANGED <<phase, cancel, next_unit, window_vars, ledger_vars, probes_out,
                   gate_vars, scan_vars, page_vars, cursor, unit, out, failing, worker_vars>>

\* A probe goes at once; the rest of a row group's units once it is admitted.
AdmitFree(r) ==
    LET u == Units[unit[r]] IN
    /\ rpc[r] = "admit"
    /\ ~cancel
    /\ \/ u.probe
       \/ ~u.probe /\ probes_out = 0 /\ u.charge = 0 /\ admit_next > u.ticket
    /\ Goto(r, "read")
    /\ UNCHANGED <<phase, cancel, next_unit, window_vars, ledger_vars, probes_out,
                   gate_vars, scan_vars, page_vars, cursor, unit, out, failing, worker_vars>>

Monus(a, b) == IF a < b THEN 0 ELSE a - b

MyTurn_OrLater(u) == admit_next <= u.ticket
MyTurn(u) == admit_next = u.ticket

RoomFor_BeforeCharge(u, outstanding) == outstanding = 0 \/ outstanding <= Window
RoomFor(u, outstanding) == outstanding = 0 \/ outstanding + u.charge <= Window

\* A first unit in its turn finds room in the window, or nothing outstanding.
AdmitCheck(r) ==
    LET u == Units[unit[r]]
        outstanding == Monus(submitted, released)
    IN
    /\ rpc[r] = "admit"
    /\ ~cancel
    /\ ~u.probe
    /\ probes_out = 0
    /\ u.charge > 0
    /\ MyTurn(u)
    /\ RoomFor(u, outstanding)
    /\ out' = [out EXCEPT ![r] = outstanding]
    /\ Goto(r, "take")
    /\ UNCHANGED <<phase, cancel, next_unit, window_vars, ledger_vars, probes_out,
                   gate_vars, scan_vars, page_vars, cursor, unit, failing, worker_vars>>

Refused_BeforeCharge(u, outstanding) == ledger_used > LedgerLimit /\ outstanding # 0
Refused(u, outstanding) == ledger_used + u.charge > LedgerLimit /\ outstanding # 0

\* It draws its charge from the ledger: what is there, or by force when nothing
\* was outstanding, and moves the ticket on.
AdmitTake(r) ==
    LET u == Units[unit[r]] IN
    /\ rpc[r] = "take"
    /\ IF Refused(u, out[r])
       THEN /\ Goto(r, "admit")
            /\ UNCHANGED <<window_vars, ledger_held, ledger_used>>
       ELSE /\ ledger_used' = ledger_used + u.charge
            /\ ledger_held' = ledger_held + u.charge
            /\ submitted' = submitted + u.charge
            /\ admit_next' = u.ticket + 1
            /\ UNCHANGED released
            /\ Goto(r, "read")
    /\ UNCHANGED <<phase, cancel, next_unit, others, probes_out, gate_vars,
                   scan_vars, page_vars, cursor, unit, out, failing, worker_vars>>

ReadUnit(r) ==
    /\ rpc[r] = "read"
    /\ resident' = resident \cup Units[unit[r]].pages
    /\ Goto(r, "done")
    /\ UNCHANGED <<phase, cancel, next_unit, window_vars, ledger_vars, probes_out,
                   gate_vars, scan_vars, seg_refs, cursor, unit, out, failing, worker_vars>>

\* readUnit fails: threadMain runs failAll.
ReadFails(r) ==
    /\ CanFail
    /\ rpc[r] = "read"
    /\ cancel' = TRUE
    /\ failing' = [failing EXCEPT ![r] = 1]
    /\ Goto(r, "fail")
    /\ UNCHANGED <<phase, next_unit, window_vars, ledger_vars, probes_out, gate_vars,
                   scan_vars, page_vars, cursor, unit, out, worker_vars>>

GateOf(u) == IF Units[u].probe THEN ProbeGate(Units[u].file) ELSE Units[u].rg

\* unitDone counts the unit off its gate; the last one opens it.
UnitDone(r) ==
    LET g == GateOf(unit[r]) IN
    /\ rpc[r] = "done"
    /\ left' = [left EXCEPT ![g] = @ - 1]
    /\ Goto(r, IF left[g] = 1 THEN "open"
               ELSE IF Units[unit[r]].probe THEN "probed" ELSE "claim")
    /\ UNCHANGED <<phase, cancel, next_unit, window_vars, ledger_vars, probes_out, ready,
                   scan_vars, page_vars, cursor, unit, out, failing, worker_vars>>

OpenGate(r) ==
    /\ rpc[r] = "open"
    /\ ready' = [ready EXCEPT ![GateOf(unit[r])] = 1]
    /\ Goto(r, IF Units[unit[r]].probe THEN "probed" ELSE "claim")
    /\ UNCHANGED <<phase, cancel, next_unit, window_vars, ledger_vars, probes_out, left,
                   scan_vars, page_vars, cursor, unit, out, failing, worker_vars>>

ProbeDone(r) ==
    /\ rpc[r] = "probed"
    /\ probes_out' = probes_out - 1
    /\ Goto(r, "claim")
    /\ UNCHANGED <<phase, cancel, next_unit, window_vars, ledger_vars, gate_vars,
                   scan_vars, page_vars, cursor, unit, out, failing, worker_vars>>

PastLastGate_Early(k) == k > NumRG
PastLastGate(k) == k > NumRG + NumFiles

\* failReady reads a gate and, in a second step, fails it.
FailLook(r) ==
    /\ rpc[r] = "fail"
    /\ IF PastLastGate(failing[r])
       THEN Goto(r, "exit") /\ UNCHANGED failing
       ELSE IF ready[GateAt(failing[r])] = 0
       THEN Goto(r, "failstore") /\ UNCHANGED failing
       ELSE failing' = [failing EXCEPT ![r] = @ + 1] /\ UNCHANGED rpc
    /\ UNCHANGED <<phase, cancel, next_unit, window_vars, ledger_vars, probes_out,
                   gate_vars, scan_vars, page_vars, cursor, unit, out, worker_vars>>

FailStore(r) ==
    /\ rpc[r] = "failstore"
    /\ ready' = [ready EXCEPT ![GateAt(failing[r])] = 2]
    /\ failing' = [failing EXCEPT ![r] = @ + 1]
    /\ Goto(r, "fail")
    /\ UNCHANGED <<phase, cancel, next_unit, window_vars, ledger_vars, probes_out, left,
                   scan_vars, page_vars, cursor, unit, out, worker_vars>>

Reader(r) ==
    \/ Claim(r) \/ GiveUp(r) \/ AdmitFree(r) \/ AdmitCheck(r) \/ AdmitTake(r)
    \/ ReadUnit(r) \/ ReadFails(r) \/ UnitDone(r) \/ OpenGate(r) \/ ProbeDone(r)
    \/ FailLook(r) \/ FailStore(r)

-----------------------------------------------------------------------------
(* Scan workers: workerRunErr around File.gateWait, gateDone and release.  *)

WGoto(w, pc) == wpc' = [wpc EXCEPT ![w] = pc]

\* Work items are claimed in plan order.  A row group statistics skip is done
\* with unread: the planner pruned it from the reads by the same statistics.  The
\* other skip, of items past a LIMIT's keys (worker.zig:288), belongs to a cut
\* that no gated input takes (firstCutEligible, plan.zig:654).
WorkerClaim(w) ==
    /\ phase = "scanning"
    /\ wpc[w] = "claim"
    /\ cursor' = cursor + 1
    /\ IF cursor >= Len(Work)
       THEN WGoto(w, "exit") /\ UNCHANGED wrg
       ELSE /\ wrg' = [wrg EXCEPT ![w] = Work[cursor + 1]]
            /\ WGoto(w, IF Work[cursor + 1] \in Pruned THEN "done" ELSE "wait")
    /\ UNCHANGED <<phase, cancel, next_unit, window_vars, ledger_vars, probes_out, gate_vars,
                   scan_vars, page_vars, reader_vars, werr>>

\* The scan's other ends: a limit met, an error raised elsewhere.
WorkerQuit(w) ==
    /\ CanQuit
    /\ phase = "scanning"
    /\ wpc[w] = "claim"
    /\ WGoto(w, "exit")
    /\ UNCHANGED <<phase, cancel, next_unit, window_vars, ledger_vars, probes_out, gate_vars,
                   scan_vars, page_vars, cursor, reader_vars, wrg, werr>>

\* gateWait: the row group's own units, then every probe of the file.
AwaitGate(w, at, g, then) ==
    /\ wpc[w] = at
    /\ ready[g] # 0
    /\ WGoto(w, IF ready[g] = 1 THEN then ELSE "done")
    /\ werr' = [werr EXCEPT ![w] = (ready[g] # 1)]
    /\ UNCHANGED <<phase, cancel, next_unit, window_vars, ledger_vars, probes_out, gate_vars,
                   scan_vars, page_vars, cursor, reader_vars, wrg>>

WorkerWait(w) == AwaitGate(w, "wait", wrg[w], "waitprobe")
WorkerWaitProbe(w) == AwaitGate(w, "waitprobe", ProbeGate(FileOf[wrg[w]]), "scan")

WorkerScan(w) ==
    /\ wpc[w] = "scan"
    /\ WGoto(w, "done")
    /\ \E failed \in {FALSE, CanQuit} : werr' = [werr EXCEPT ![w] = failed]
    /\ UNCHANGED <<phase, cancel, next_unit, window_vars, ledger_vars, probes_out, gate_vars,
                   scan_vars, page_vars, cursor, reader_vars, wrg>>

Onward(w) == IF werr[w] THEN "exit" ELSE "claim"

\* gateDone: the last item of a row group that is in releases it, once.
GateDone(w) ==
    LET rg == wrg[w]
        last == items_done[rg] + 1 = Items
        release == last /\ ready[rg] = 1 /\ ~rg_released[rg]
    IN
    /\ wpc[w] = "done"
    /\ items_done' = [items_done EXCEPT ![rg] = @ + 1]
    /\ rg_released' = [rg_released EXCEPT ![rg] = @ \/ release]
    /\ WGoto(w, IF release THEN "drop" ELSE Onward(w))
    /\ UNCHANGED <<phase, cancel, next_unit, window_vars, ledger_vars, probes_out, gate_vars,
                   page_vars, cursor, reader_vars, wrg, werr>>

\* Dropping whatever the row group held, or comparing the count after with 1.
DropSegments_Shared(rgs) ==
    /\ seg_refs' = [p \in Pages |-> seg_refs[p] - Cardinality({rg \in rgs : p \in Holds[rg]})]
    /\ resident' = resident \ UNION {Holds[rg] : rg \in rgs}
\* The segments' counts go down; a segment nobody holds any more is dropped.
DropSegments(rgs) ==
    LET refs == [p \in Pages |-> seg_refs[p] - Cardinality({rg \in rgs : p \in Holds[rg]})]
        touched == UNION {Holds[rg] : rg \in rgs}
    IN  /\ seg_refs' = refs
        /\ resident' = resident \ {p \in touched : refs[p] = 0}

ReleasePages(w) ==
    /\ wpc[w] = "drop"
    /\ DropSegments({wrg[w]})
    /\ WGoto(w, "give")
    /\ UNCHANGED <<phase, cancel, next_unit, window_vars, ledger_vars, probes_out, gate_vars,
                   scan_vars, cursor, reader_vars, wrg, werr>>

ReleaseWindow(w) ==
    /\ wpc[w] = "give"
    /\ released' = released + RgBytes(wrg[w])
    /\ WGoto(w, "repay")
    /\ UNCHANGED <<phase, cancel, next_unit, admit_next, submitted, ledger_vars, probes_out,
                   gate_vars, scan_vars, page_vars, cursor, reader_vars, wrg, werr>>

Repay(n) ==
    /\ ledger_used' = ledger_used - n
    /\ ledger_held' = ledger_held - n
    /\ UNCHANGED others

ReleaseLedger(w) ==
    /\ wpc[w] = "repay"
    /\ Repay(RgBytes(wrg[w]))
    /\ WGoto(w, Onward(w))
    /\ UNCHANGED <<phase, cancel, next_unit, window_vars, probes_out, gate_vars,
                   scan_vars, page_vars, cursor, reader_vars, wrg, werr>>

Worker(w) ==
    \/ WorkerClaim(w) \/ WorkerQuit(w) \/ WorkerWait(w) \/ WorkerWaitProbe(w)
    \/ WorkerScan(w) \/ GateDone(w) \/ ReleasePages(w) \/ ReleaseWindow(w)
    \/ ReleaseLedger(w)

-----------------------------------------------------------------------------
(* The query's thread: planning over the probes, the scan, the teardown.   *)

Phase(from, to) == phase = from /\ phase' = to

ProbesIn == \A f \in FileIds : ready[ProbeGate(f)] = 1

\* Planning that needs dictionaries waits for the probes (File.probeWait) and
\* reads them; one that needs none, or whose probes failed, goes straight on.
ReadDictionaries ==
    /\ Phase("planning", "dictionaries")
    /\ ProbesIn
    /\ UNCHANGED <<cancel, next_unit, window_vars, ledger_vars, probes_out, gate_vars,
                   scan_vars, page_vars, cursor, reader_vars, worker_vars>>

\* releasePruned: what only planning held goes back.  Its charge is nothing.
ReleasePruned ==
    LET now == {rg \in Pruned : /\ ready[rg] = 1
                                /\ ready[ProbeGate(FileOf[rg])] = 1
                                /\ ~rg_released[rg]}
    IN
    /\ \/ Phase("dictionaries", "scanning")
       \/ Phase("planning", "scanning")
    /\ rg_released' = [rg \in RowGroups |-> rg_released[rg] \/ rg \in now]
    /\ DropSegments(now)
    /\ UNCHANGED <<cancel, next_unit, window_vars, ledger_vars, probes_out, gate_vars,
                   items_done, cursor, reader_vars, worker_vars>>

WorkersJoined == \A w \in Workers : wpc[w] = "exit"
ReadersJoined == \A r \in Readers : rpc[r] = "exit"

\* The scan is over, or planning ended it before it began: abandon when it is
\* to run again over the mappings (or a decode failure is probed), else destroy.
EndScan ==
    /\ \/ phase = "scanning" /\ WorkersJoined
       \/ CanQuit /\ phase \in {"planning", "dictionaries"}
    /\ phase' \in {"destroying"} \cup (IF CanQuit THEN {"abandoning"} ELSE {})
    /\ cancel' = TRUE
    /\ UNCHANGED <<next_unit, window_vars, ledger_vars, probes_out, gate_vars,
                   scan_vars, page_vars, cursor, reader_vars, worker_vars>>

\* giveBackLedger
GiveBack == Repay(ledger_held)

Abandon ==
    /\ Phase("abandoning", "abandoned")
    /\ ReadersJoined
    /\ resident' = {}
    /\ GiveBack
    /\ UNCHANGED <<cancel, next_unit, window_vars, probes_out, gate_vars,
                   scan_vars, seg_refs, cursor, reader_vars, worker_vars>>

\* The rerun is over: the reader is destroyed after all.
EndRerun ==
    /\ Phase("abandoned", "destroying")
    /\ UNCHANGED <<cancel, next_unit, window_vars, ledger_vars, probes_out, gate_vars,
                   scan_vars, page_vars, cursor, reader_vars, worker_vars>>

Destroy ==
    /\ Phase("destroying", "destroyed")
    /\ ReadersJoined
    /\ resident' = {}
    /\ GiveBack
    /\ UNCHANGED <<cancel, next_unit, window_vars, probes_out, gate_vars,
                   scan_vars, seg_refs, cursor, reader_vars, worker_vars>>

Query == ReadDictionaries \/ ReleasePruned \/ EndScan \/ Abandon \/ EndRerun \/ Destroy

\* The rest of the query draws on the ledger and gives back, in its own time.
OthersDraw ==
    /\ \E n \in Draws :
          /\ n # others
          /\ n < others \/ ledger_used + (n - others) <= LedgerLimit
          /\ others' = n
          /\ ledger_used' = ledger_used + (n - others)
    /\ UNCHANGED <<phase, cancel, next_unit, window_vars, ledger_held, probes_out, gate_vars,
                   scan_vars, page_vars, cursor, reader_vars, worker_vars>>

Done == phase = "destroyed" /\ UNCHANGED vars

Next ==
    \/ \E r \in Readers : Reader(r)
    \/ \E w \in Workers : Worker(w)
    \/ Query
    \/ OthersDraw
    \/ Done

Spec == Init /\ [][Next]_vars

\* Threads the system schedules, and a query's thread that goes on.  No claim
\* is made that the rest of the query ever gives the ledger anything back.
Fairness ==
    /\ \A r \in Readers : WF_vars(Reader(r))
    /\ \A w \in Workers : WF_vars(Worker(w))
    /\ WF_vars(Query)

FairSpec == Spec /\ Fairness
-----------------------------------------------------------------------------
(* What the window holds.                                                  *)

\* Row groups with reads of their own; each is charged by its first unit.
Charging == {rg \in RowGroups : UnitsOf(rg) # {}}
TicketOf(rg) == Units[CHOOSE u \in UnitsOf(rg) : TRUE].ticket
Charged == {rg \in Charging : admit_next > TicketOf(rg)}
InRelease(rg, pcs) == \E w \in Workers : wrg[w] = rg /\ wpc[w] \in pcs
Returned == {rg \in Charged : rg_released[rg] /\ ~InRelease(rg, {"drop", "give"})}
Repaid == {rg \in Charged : rg_released[rg] /\ ~InRelease(rg, {"drop", "give", "repay"})}
Outstanding == Charged \ Returned
Arrived == {rg \in Charged : left[rg] = 0}

\* The abstract window: admission is the ticket, return the window's charge.
RGW == INSTANCE RowGroupWindow WITH
    Groups   <- Charging,
    Bytes    <- Bytes,
    admitted <- Charged,
    arrived  <- Arrived,
    skipped  <- {},
    returned <- Returned

\* The reader threads, racing the workers' releases, keep to the abstract
\* window: what Reader.admit's comment calls one reservation really is one.
ImplementsWindow == RGW!Spec

-----------------------------------------------------------------------------
ReaderPc == {"claim", "admit", "take", "read", "done", "open", "probed",
             "fail", "failstore", "exit"}
OnUnit == {"admit", "take", "read", "done", "open", "probed"}
WorkerPc == {"claim", "wait", "waitprobe", "scan", "done", "drop", "give", "repay", "exit"}
Phases == {"planning", "dictionaries", "scanning", "abandoning", "abandoned",
           "destroying", "destroyed"}

ControlTypeOK ==
    /\ phase \in Phases
    /\ cancel \in BOOLEAN
    /\ next_unit \in Nat
    /\ next_unit > 0
    /\ cursor \in Nat

CountersTypeOK ==
    /\ admit_next \in Nat
    /\ submitted \in Int
    /\ released \in Int
    /\ ledger_held \in Int
    /\ ledger_used \in Int
    /\ others \in Draws
    /\ probes_out \in Int

GatesTypeOK ==
    /\ left \in [Gates -> Int]
    /\ ready \in [Gates -> 0..2]
    /\ items_done \in [RowGroups -> Nat]
    /\ rg_released \in [RowGroups -> BOOLEAN]

PagesTypeOK ==
    /\ seg_refs \in [Pages -> Int]
    /\ resident \subseteq Pages

\* From its claim to its end a reader thread works on a unit there is.
ReadersTypeOK ==
    /\ rpc \in [Readers -> ReaderPc]
    /\ unit \in [Readers -> Nat]
    /\ out \in [Readers -> Nat]
    /\ failing \in [Readers -> Nat]
    /\ \A r \in Readers : rpc[r] \in OnUnit => unit[r] \in DOMAIN Units

WorkersTypeOK ==
    /\ wpc \in [Workers -> WorkerPc]
    /\ wrg \in [Workers -> RowGroups \cup {0}]
    /\ werr \in [Workers -> BOOLEAN]
    /\ \A w \in Workers : wpc[w] \notin {"claim", "exit"} => wrg[w] \in RowGroups

\* Type correctness: the states File, Reader and the threads can be in.
TypeOK ==
    /\ ControlTypeOK
    /\ CountersTypeOK
    /\ GatesTypeOK
    /\ PagesTypeOK
    /\ ReadersTypeOK
    /\ WorkersTypeOK

\* A worker past its gate, and planning past its probes, find every page they
\* read in the buffer: read, and not dropped by another row group's release,
\* whichever pages the two share (File.segs, and the probes' part in gateWait).
\* And a page nobody holds any more is not in memory, unless a probe reads it: no
\* read of a row group lands after its release, where its pages would stay to the
\* teardown uncharged.  A probe's may: its row group, pruned, can be done with
\* before the probe lands (local_reader.zig:447 and :473), and dictionary pages
\* that planning read stay in memory until the reader goes.
InMemoryWhileHeld ==
    /\ \A w \in Workers : wpc[w] = "scan" => Holds[wrg[w]] \subseteq resident
    /\ phase = "dictionaries" =>
          \A u \in DOMAIN Units : Units[u].probe => Units[u].pages \subseteq resident
    /\ \A p \in resident : seg_refs[p] = 0 =>
          \E u \in DOMAIN Units : Units[u].probe /\ p \in Units[u].pages

SumBytes(rgs) == SumFunctionOnSet(Bytes, rgs)

\* The counters say what the row groups do: submitted less released is what is
\* outstanding, ledger_held what is charged and not repaid, and the ledger holds
\* that and what the rest of the query drew.
CountersAgree ==
    /\ submitted - released = SumBytes(Outstanding)
    /\ phase \in {"planning", "dictionaries", "scanning", "abandoning"}
          => ledger_held = SumBytes(Charged \ Repaid)
    /\ ledger_used = ledger_held + others

\* Only a row group that found nothing outstanding overdraws the ledger.
OverdrawnByOne == ledger_used > LedgerLimit => Cardinality(Outstanding) <= 1

\* An abandoned or destroyed reader has given back all it drew, also what failed
\* or half-read row groups still held (execute.zig:233 asserts it of a rerun).
AllGivenBack == phase \in {"abandoned", "destroyed"} => ledger_used = others /\ resident = {}

\* Every work item was scanned, and none of them failed, nor any read.
NoReadFailed == \A r \in Readers : failing[r] = 0
Scanned ==
    /\ NoReadFailed
    /\ \A rg \in {Work[k] : k \in DOMAIN Work} : items_done[rg] = Items
    /\ \A w \in Workers : ~werr[w]

\* Of a scan that read everything, the gates alone have given it all back before.
GatesGaveBack == phase = "destroying" /\ Scanned => ledger_held = 0 /\ submitted = released

\* The window's and the ledger's accounts balance while the reader runs, and it
\* leaves the ledger as it found it (Reader.admit, File.release, giveBackLedger).
AccountsBalance == CountersAgree /\ OverdrawnByOne /\ AllGivenBack /\ GatesGaveBack

\* The bytes held, by the counters admit itself goes by: past the window they
\* are no more than the charge of the row group admitted last.
WindowBound ==
    submitted - released > Window =>
        \E u \in DOMAIN Units : /\ First(u)
                               /\ Units[u].ticket = admit_next - 1
                               /\ submitted - released <= Units[u].charge

-----------------------------------------------------------------------------
\* Only one thread at a time is between admit's check and its charge, so what
\* the check found outstanding can only have shrunk by the charge.
OneAdmitter ==
    /\ \A r, s \in Readers : rpc[r] = "take" /\ rpc[s] = "take" => r = s
    /\ \A r \in Readers : rpc[r] = "take" => out[r] >= submitted - released

\* The scan ends and the reader is torn down, however small the window, however
\* full the ledger and whatever fails: no gate is left shut on a worker, and no
\* reader waits for a release that will not come.
ScanEnds == <>(phase = "destroyed")
=============================================================================
