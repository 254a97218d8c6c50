------------------------- MODULE LocalReader_proofs -------------------------
(***************************************************************************)
(* For any number of reader threads, workers, row groups and reads: the    *)
(* local reader is type correct, admits one row group at a time on a check *)
(* that still holds when it charges, and so keeps the window.  Its         *)
(* counters are the sums of what its row groups hold, only one row group   *)
(* at a time overdraws the ledger, and all of it comes back: a row group   *)
(* is charged by its first read and given back by one worker, and the two  *)
(* meet in its gate, which opens only after the charge.                    *)
(*                                                                         *)
(* The gates tell the truth: an open gate has all its pages in memory and  *)
(* they stay while anyone holds them, and the reader implements the        *)
(* abstract window.                                                        *)
(***************************************************************************)
EXTENDS LocalReader, DataLemmas, FiniteSetTheorems, TLAPS

\* Why that is so.  A unit is claimed by one thread ...
UnitsClaimedOnce ==
    \A r, s \in Readers :
        rpc[r] \in OnUnit =>
            /\ unit[r] < next_unit
            /\ rpc[s] \in OnUnit /\ unit[s] = unit[r] => r = s

\* ... and a thread past admit's check holds the one unit whose turn it is.
InTurn ==
    \A r \in Readers :
        rpc[r] = "take" =>
            /\ First(unit[r])
            /\ Units[unit[r]].ticket = admit_next
            /\ out[r] >= submitted - released
            /\ out[r] = 0 \/ out[r] + Units[unit[r]].charge <= Window

AdmissionInv == TypeOK /\ UnitsClaimedOnce /\ InTurn /\ WindowBound

-----------------------------------------------------------------------------
(* Why the accounts balance.                                               *)

\* A unit is read, and a gate opened or a row group released, once admitted.
AdmittedFirst ==
    /\ \A r \in Readers : rpc[r] \in {"read", "done", "open"} /\ ~Units[unit[r]].probe =>
          Units[unit[r]].rg \in Charged
    /\ \A rg \in Charging : ready[rg] = 1 \/ rg_released[rg] => rg \in Charged

\* A row group is given back by one worker; outside the scan there is none.
Releasing == {"drop", "give", "repay"}
ReleasedOnce ==
    /\ \A w \in Workers : wpc[w] \in Releasing =>
          /\ rg_released[wrg[w]]
          /\ \A v \in Workers : wpc[v] \in Releasing /\ wrg[v] = wrg[w] => v = w
    /\ phase # "scanning" => \A w \in Workers : wpc[w] \in {"claim", "exit"}

\* The ledger holds what is charged and not repaid, until it is all given back,
\* when no reader thread is left to draw on it or to read.
LedgerKept ==
    \/ /\ phase \notin {"abandoned", "destroyed"}
       /\ ledger_held = SumBytes(Charged \ Repaid)
    \/ /\ phase \in {"abandoned", "destroying", "destroyed"}
       /\ ReadersJoined /\ ledger_held = 0 /\ resident = {}

Books ==
    /\ submitted - released = SumBytes(Outstanding)
    /\ ledger_used = ledger_held + others
    /\ OverdrawnByOne /\ LedgerKept

\* Without a failed read no gate fails: what is scanned was in, and is released.
PastGate == {"waitprobe", "scan"}
NothingFailed ==
    NoReadFailed =>
        /\ \A r \in Readers : rpc[r] \notin {"fail", "failstore"}
        /\ \A g \in Gates : ready[g] # 2
        /\ \A w \in Workers :
              wpc[w] \in PastGate \/ (wpc[w] = "done" /\ wrg[w] \notin Pruned /\ ~werr[w])
                 => ready[wrg[w]] = 1
        /\ (\A w \in Workers : ~werr[w]) =>
              \A rg \in Charging : items_done[rg] >= Items => rg_released[rg]

ErrorsEnd == \A w \in Workers : werr[w] => wpc[w] \notin {"claim", "wait"} \cup PastGate

AccountsInv ==
    /\ AdmissionInv /\ AdmittedFirst /\ ReleasedOnce /\ Books
    /\ NothingFailed /\ ErrorsEnd

-----------------------------------------------------------------------------
(* Why a gate that is open means the pages are there, and stay.            *)

\* A unit is pending until its thread has counted it off, and missing while a page
\* of it is not in memory that somebody still holds, or planning may read.
InHand == {"admit", "take", "read", "done"}
Pending(u) == u >= next_unit \/ \E r \in Readers : unit[r] = u /\ rpc[r] \in InHand
Before == {"planning", "dictionaries", "scanning"}
Missing(u) ==
    /\ phase \in Before
    /\ \E p \in Units[u].pages \ resident : seg_refs[p] > 0 \/ phase # "scanning"
Unread(g) == {u \in DOMAIN Units : GateOf(u) = g /\ (Pending(u) \/ Missing(u))}

\* A gate counts at least its units that are not in, so that one counted down to
\* nothing has them all; who is past it, or has given its row group back, saw that.
CountsUnread == \A g \in Gates : left[g] >= Cardinality(Unread(g))
CountedDown ==
    /\ \A g \in Gates : ready[g] = 1 => left[g] = 0
    /\ \A r \in Readers : rpc[r] = "open" => left[GateOf(unit[r])] = 0
    /\ \A r \in Readers, u \in DOMAIN Units : rpc[r] = "done" /\ unit[r] = u => ~Missing(u)
    /\ \A rg \in RowGroups : rg_released[rg] => left[rg] = 0
    /\ \A w \in Workers : wpc[w] \in PastGate => left[wrg[w]] = 0
    /\ \A w \in Workers : wpc[w] = "scan" => left[ProbeGate(FileOf[wrg[w]])] = 0
    /\ phase = "dictionaries" => \A f \in FileIds : left[ProbeGate(f)] = 0

\* A row group's items are claimed and done once each; only the last of them, or
\* planning if it is pruned, releases it.
AtItem(rg) == {w \in Workers : wrg[w] = rg /\ wpc[w] \in {"wait", "done"} \cup PastGate}
Claimed(rg) == {k \in DOMAIN Work : k <= cursor /\ Work[k] = rg}
ItemsOnce ==
    \A rg \in RowGroups :
        /\ items_done[rg] + Cardinality(AtItem(rg)) <= Cardinality(Claimed(rg))
        /\ rg_released[rg] /\ rg \notin Pruned => items_done[rg] >= Items
NotPruned == \A w \in Workers : wpc[w] \in {"wait"} \cup PastGate => wrg[w] \notin Pruned

\* A page's count is of the row groups that hold it and have not dropped it.
Dropped(rg) == rg_released[rg] /\ ~InRelease(rg, {"drop"})
Holders(p) == {rg \in RowGroups : p \in Holds[rg] /\ ~Dropped(rg)}
HoldersCounted == \A p \in Pages : seg_refs[p] = Cardinality(Holders(p))
NoneStays ==
    \A p \in resident : seg_refs[p] = 0 =>
        \E u \in DOMAIN Units : Units[u].probe /\ p \in Units[u].pages

GateInv == CountsUnread /\ CountedDown
MemoryInv == AccountsInv /\ GateInv /\ ItemsOnce /\ NotPruned /\ HoldersCounted /\ NoneStays

\* What a unit, as layOut makes it, is made of.
LEMMA UnitFields ==
    ASSUME NEW u \in DOMAIN Units
    PROVE  /\ Units[u] \in UnitType
           /\ Units[u].probe \in BOOLEAN
           /\ Units[u].file \in FileIds
           /\ Units[u].rg \in RowGroups
           /\ Units[u].pages \subseteq Pages
           /\ Units[u].charge \in Nat
           /\ Units[u].ticket \in Nat
           /\ u \in Nat
  <1>1. Units[u] \in UnitType /\ u \in Nat
    BY UnitsAssumption
  <1>2. QED
    BY <1>1 DEF UnitType

\* Every gate a unit opens is one of the gates.
LEMMA GateOfType ==
    ASSUME NEW u \in DOMAIN Units
    PROVE  GateOf(u) \in Gates
  <1>1. /\ Units[u].file \in 1..NumFiles
        /\ Units[u].rg \in 1..NumRG
    BY UnitFields DEF FileIds, RowGroups
  <1>2. NumRG \in Nat /\ NumFiles \in Nat
    BY LayoutAssumption
  <1>3. QED
    BY <1>1, <1>2 DEF GateOf, ProbeGate, Gates

\* A row group's charge, its first unit's, is a number.
LEMMA RgBytesType == \A rg \in RowGroups : RgBytes(rg) \in Nat
  <1> SUFFICES ASSUME NEW rg \in RowGroups PROVE RgBytes(rg) \in Nat
    OBVIOUS
  <1>1. CASE \E u \in UnitsOf(rg) : First(u)
    <2>1. (CHOOSE u \in UnitsOf(rg) : First(u)) \in DOMAIN Units
      BY <1>1 DEF UnitsOf
    <2>2. QED
      BY <1>1, <2>1, UnitFields DEF RgBytes
  <1>2. CASE ~\E u \in UnitsOf(rg) : First(u)
    BY <1>2 DEF RgBytes
  <1>3. QED
    BY <1>1, <1>2
-----------------------------------------------------------------------------
\* What the layout gives can be counted.
LEMMA FiniteLayout ==
    /\ IsFiniteSet(DOMAIN Units)
    /\ IsFiniteSet(RowGroups)
    /\ \A S \in SUBSET DOMAIN Units : Cardinality(S) \in Nat
    /\ \A S \in SUBSET RowGroups : Cardinality(S) \in Nat
  <1>1. Len(Units) \in Nat /\ DOMAIN Units = 1..Len(Units)
    BY UnitsAssumption
  <1>2. IsFiniteSet(DOMAIN Units)
    BY <1>1, FS_Interval
  <1>3. IsFiniteSet(RowGroups)
    BY LayoutAssumption, FS_Interval DEF RowGroups
  <1>4. QED
    BY <1>2, <1>3, FS_Subset, FS_CardinalityType

\* A reader just started has the types.
LEMMA InitType == Init => TypeOK
  <1> SUFFICES ASSUME Init PROVE TypeOK
    OBVIOUS
  <1>1. ControlTypeOK
    <2>1. phase = "planning" /\ cancel = FALSE /\ next_unit = 1 /\ cursor = 0
      BY DEF Init
    <2>2. phase \in Phases /\ cancel \in BOOLEAN
      BY <2>1 DEF Phases
    <2>3. next_unit \in Nat /\ next_unit > 0 /\ cursor \in Nat
      BY <2>1
    <2>4. QED
      BY <2>2, <2>3 DEF ControlTypeOK
  <1>2. CountersTypeOK
    <2>1. {u \in DOMAIN Units : Units[u].probe} \in SUBSET DOMAIN Units
      OBVIOUS
    <2>2. probes_out \in Nat
      BY <2>1, FiniteLayout DEF Init
    <2>3. QED
      BY <2>2, ParameterAssumption DEF Init, CountersTypeOK
  <1>3. GatesTypeOK
    <2>1. \A g \in Gates : UnitsLeft(g) \in Nat
      <3>1. \A g \in Gates : (IF g \in RowGroups THEN UnitsOf(g) ELSE ProbesOf(g - NumRG))
                                \in SUBSET DOMAIN Units
        BY DEF UnitsOf, ProbesOf
      <3>2. QED
        BY <3>1, FiniteLayout DEF UnitsLeft
    <2>2. QED
      BY <2>1 DEF Init, GatesTypeOK
  <1>4. PagesTypeOK
    <2>1. \A p \in Pages : Cardinality({rg \in RowGroups : p \in Holds[rg]}) \in Nat
      BY FiniteLayout
    <2>2. QED
      BY <2>1 DEF Init, PagesTypeOK
  <1>5. ReadersTypeOK
    BY DEF Init, ReadersTypeOK, ReaderPc, OnUnit
  <1>6. WorkersTypeOK
    BY DEF Init, WorkersTypeOK, WorkerPc
  <1>7. QED
    BY <1>1, <1>2, <1>3, <1>4, <1>5, <1>6 DEF TypeOK

\* Counting row groups off a page's holders leaves a number, and dropping pages
\* leaves pages.
LEMMA DropSegmentsType ==
    ASSUME PagesTypeOK, NEW rgs \in SUBSET RowGroups, DropSegments(rgs)
    PROVE  PagesTypeOK'
  <1>1. \A p \in Pages : Cardinality({rg \in rgs : p \in Holds[rg]}) \in Nat
    <2>1. \A p \in Pages : {rg \in rgs : p \in Holds[rg]} \in SUBSET RowGroups
      OBVIOUS
    <2>2. QED
      BY <2>1, FiniteLayout
  <1>2. seg_refs' \in [Pages -> Int]
    BY <1>1 DEF DropSegments, PagesTypeOK
  <1>3. resident' \subseteq Pages
    BY DEF DropSegments, PagesTypeOK
  <1>4. QED
    BY <1>2, <1>3 DEF PagesTypeOK





\* A reader step keeps the types.
LEMMA ReaderType ==
    ASSUME TypeOK, NEW r \in Readers, Reader(r)
    PROVE  TypeOK'
  <1> USE DEF TypeOK, ControlTypeOK, ReaderPc, OnUnit
  <1> USE DEF reader_vars, worker_vars, window_vars, ledger_vars, gate_vars, page_vars, scan_vars
  <1>1. WorkersTypeOK'
    BY DEF Reader, Claim, GiveUp, AdmitFree, AdmitCheck, AdmitTake, ReadUnit, ReadFails, UnitDone,
           OpenGate, ProbeDone, FailLook, FailStore, WorkersTypeOK
  <1>2. CASE Claim(r)
    <2>1. ReadersTypeOK'
      <3>1. CASE cancel \/ next_unit > Len(Units)
        BY <1>2, <3>1 DEF Claim, Goto, ReadersTypeOK, OutOfUnits
      <3>2. CASE ~cancel /\ next_unit <= Len(Units)
        <4>1. next_unit \in DOMAIN Units
          BY <3>2, UnitsAssumption
        <4>2. rpc' = [rpc EXCEPT ![r] = "admit"] /\ unit' = [unit EXCEPT ![r] = next_unit]
          BY <1>2, <3>2, UnitsAssumption DEF Claim, Goto, OutOfUnits
        <4>3. QED
          BY <1>2, <4>1, <4>2 DEF Claim, ReadersTypeOK
      <3>3. QED
        BY <3>1, <3>2, UnitsAssumption
    <2>2. ControlTypeOK' /\ CountersTypeOK'
      BY <1>2, UnitFields DEF Claim, Goto, ReadersTypeOK, CountersTypeOK
    <2>3. GatesTypeOK' /\ PagesTypeOK'
      BY <1>2, UnitFields, GateOfType DEF Claim, Goto, ReadersTypeOK, GatesTypeOK, PagesTypeOK
    <2>4. QED
      BY <1>1, <2>1, <2>2, <2>3
  <1>3. CASE GiveUp(r)
    <2>1. ReadersTypeOK'
      BY <1>3, UnitsAssumption DEF GiveUp, Goto, ReadersTypeOK, CountersTypeOK, Monus
    <2>2. ControlTypeOK' /\ CountersTypeOK'
      BY <1>3, UnitFields DEF GiveUp, Goto, ReadersTypeOK, CountersTypeOK
    <2>3. GatesTypeOK' /\ PagesTypeOK'
      BY <1>3, UnitFields, GateOfType DEF GiveUp, Goto, ReadersTypeOK, GatesTypeOK, PagesTypeOK
    <2>4. QED
      BY <1>1, <2>1, <2>2, <2>3
  <1>4. CASE AdmitFree(r)
    <2>1. ReadersTypeOK'
      BY <1>4, UnitsAssumption DEF AdmitFree, Goto, ReadersTypeOK, CountersTypeOK, Monus
    <2>2. ControlTypeOK' /\ CountersTypeOK'
      BY <1>4, UnitFields DEF AdmitFree, Goto, ReadersTypeOK, CountersTypeOK
    <2>3. GatesTypeOK' /\ PagesTypeOK'
      BY <1>4, UnitFields, GateOfType DEF AdmitFree, Goto, ReadersTypeOK, GatesTypeOK, PagesTypeOK
    <2>4. QED
      BY <1>1, <2>1, <2>2, <2>3
  <1>5. CASE AdmitCheck(r)
    <2>1. ReadersTypeOK'
      BY <1>5, UnitsAssumption DEF AdmitCheck, Goto, ReadersTypeOK, CountersTypeOK, Monus
    <2>2. ControlTypeOK' /\ CountersTypeOK'
      BY <1>5, UnitFields DEF AdmitCheck, Goto, ReadersTypeOK, CountersTypeOK
    <2>3. GatesTypeOK' /\ PagesTypeOK'
      BY <1>5, UnitFields, GateOfType DEF AdmitCheck, Goto, ReadersTypeOK, GatesTypeOK, PagesTypeOK
    <2>4. QED
      BY <1>1, <2>1, <2>2, <2>3
  <1>6. CASE AdmitTake(r)
    <2>1. ReadersTypeOK'
      BY <1>6, UnitsAssumption DEF AdmitTake, Goto, ReadersTypeOK, CountersTypeOK, Monus
    <2>2. ControlTypeOK' /\ CountersTypeOK'
      BY <1>6, UnitFields DEF AdmitTake, Goto, ReadersTypeOK, CountersTypeOK
    <2>3. GatesTypeOK' /\ PagesTypeOK'
      BY <1>6, UnitFields, GateOfType DEF AdmitTake, Goto, ReadersTypeOK, GatesTypeOK, PagesTypeOK
    <2>4. QED
      BY <1>1, <2>1, <2>2, <2>3
  <1>7. CASE ReadUnit(r)
    <2>1. ReadersTypeOK'
      BY <1>7, UnitsAssumption DEF ReadUnit, Goto, ReadersTypeOK, CountersTypeOK, Monus
    <2>2. ControlTypeOK' /\ CountersTypeOK'
      BY <1>7, UnitFields DEF ReadUnit, Goto, ReadersTypeOK, CountersTypeOK
    <2>3. GatesTypeOK' /\ PagesTypeOK'
      BY <1>7, UnitFields, GateOfType DEF ReadUnit, Goto, ReadersTypeOK, GatesTypeOK, PagesTypeOK
    <2>4. QED
      BY <1>1, <2>1, <2>2, <2>3
  <1>8. CASE ReadFails(r)
    <2>1. ReadersTypeOK'
      BY <1>8, UnitsAssumption DEF ReadFails, Goto, ReadersTypeOK, CountersTypeOK, Monus
    <2>2. ControlTypeOK' /\ CountersTypeOK'
      BY <1>8, UnitFields DEF ReadFails, Goto, ReadersTypeOK, CountersTypeOK
    <2>3. GatesTypeOK' /\ PagesTypeOK'
      BY <1>8, UnitFields, GateOfType DEF ReadFails, Goto, ReadersTypeOK, GatesTypeOK, PagesTypeOK
    <2>4. QED
      BY <1>1, <2>1, <2>2, <2>3
  <1>9. CASE UnitDone(r)
    <2>1. ReadersTypeOK'
      BY <1>9, UnitsAssumption DEF UnitDone, Goto, ReadersTypeOK, CountersTypeOK, Monus
    <2>2. ControlTypeOK' /\ CountersTypeOK'
      BY <1>9, UnitFields DEF UnitDone, Goto, ReadersTypeOK, CountersTypeOK
    <2>3. GatesTypeOK' /\ PagesTypeOK'
      BY <1>9, UnitFields, GateOfType DEF UnitDone, Goto, ReadersTypeOK, GatesTypeOK, PagesTypeOK
    <2>4. QED
      BY <1>1, <2>1, <2>2, <2>3
  <1>10. CASE OpenGate(r)
    <2>1. ReadersTypeOK'
      BY <1>10, UnitsAssumption DEF OpenGate, Goto, ReadersTypeOK, CountersTypeOK, Monus
    <2>2. ControlTypeOK' /\ CountersTypeOK'
      BY <1>10, UnitFields DEF OpenGate, Goto, ReadersTypeOK, CountersTypeOK
    <2>3. GatesTypeOK' /\ PagesTypeOK'
      BY <1>10, UnitFields, GateOfType DEF OpenGate, Goto, ReadersTypeOK, GatesTypeOK, PagesTypeOK
    <2>4. QED
      BY <1>1, <2>1, <2>2, <2>3
  <1>11. CASE ProbeDone(r)
    <2>1. ReadersTypeOK'
      BY <1>11, UnitsAssumption DEF ProbeDone, Goto, ReadersTypeOK, CountersTypeOK, Monus
    <2>2. ControlTypeOK' /\ CountersTypeOK'
      BY <1>11, UnitFields DEF ProbeDone, Goto, ReadersTypeOK, CountersTypeOK
    <2>3. GatesTypeOK' /\ PagesTypeOK'
      BY <1>11, UnitFields, GateOfType DEF ProbeDone, Goto, ReadersTypeOK, GatesTypeOK, PagesTypeOK
    <2>4. QED
      BY <1>1, <2>1, <2>2, <2>3
  <1>12. CASE FailLook(r)
    <2>1. ReadersTypeOK'
      <3>1. rpc' \in [Readers -> ReaderPc] /\ failing' \in [Readers -> Nat]
        BY <1>12 DEF FailLook, Goto, ReadersTypeOK
      <3>2. \A q \in Readers : rpc'[q] \in OnUnit => rpc[q] \in OnUnit
        BY <1>12 DEF FailLook, Goto, ReadersTypeOK
      <3>3. QED
        BY <1>12, <3>1, <3>2 DEF FailLook, ReadersTypeOK
    <2>2. ControlTypeOK' /\ CountersTypeOK'
      BY <1>12, UnitFields DEF FailLook, Goto, ReadersTypeOK, CountersTypeOK
    <2>3. GatesTypeOK' /\ PagesTypeOK'
      BY <1>12, UnitFields, GateOfType DEF FailLook, Goto, ReadersTypeOK, GatesTypeOK, PagesTypeOK
    <2>4. QED
      BY <1>1, <2>1, <2>2, <2>3
  <1>13. CASE FailStore(r)
    <2>1. ReadersTypeOK'
      BY <1>13, UnitsAssumption DEF FailStore, Goto, ReadersTypeOK, CountersTypeOK, Monus
    <2>2. ControlTypeOK' /\ CountersTypeOK'
      BY <1>13, UnitFields DEF FailStore, Goto, ReadersTypeOK, CountersTypeOK
    <2>3. GatesTypeOK' /\ PagesTypeOK'
      <3>1. ready' = [ready EXCEPT ![GateAt(failing[r])] = 2]
        BY <1>13 DEF FailStore
      <3>2. ASSUME NEW g, ready' = [ready EXCEPT ![g] = 2] PROVE ready' \in [Gates -> 0..2]
        <4>1. ready \in [Gates -> 0..2]
          BY DEF GatesTypeOK
        <4>2. [ready EXCEPT ![g] = 2] = [x \in Gates |-> IF x = g THEN 2 ELSE ready[x]]
          BY <4>1
        <4>3. \A x \in Gates : (IF x = g THEN 2 ELSE ready[x]) \in 0..2
          BY <4>1
        <4>4. QED
          BY <3>2, <4>2, <4>3
      <3>3. QED
        BY <1>13, <3>1, <3>2 DEF FailStore, GatesTypeOK, PagesTypeOK
    <2>4. QED
      BY <1>1, <2>1, <2>2, <2>3
  <1>14. QED
    BY <1>2, <1>3, <1>4, <1>5, <1>6, <1>7, <1>8, <1>9, <1>10, <1>11, <1>12, <1>13 DEF Reader

\* A worker step keeps the types.
LEMMA WorkerType ==
    ASSUME TypeOK, NEW w \in Workers, Worker(w)
    PROVE  TypeOK'
  <1> USE DEF TypeOK
  <1> USE DEF reader_vars, worker_vars, window_vars, ledger_vars, gate_vars, page_vars, scan_vars
  <1>1. ReadersTypeOK'
    BY DEF Worker, WorkerClaim, WorkerQuit, WorkerWait, WorkerWaitProbe, AwaitGate, WorkerScan,
           GateDone, ReleasePages, ReleaseWindow, ReleaseLedger, ReadersTypeOK
  <1>2. CASE WorkerClaim(w)
    <2>1. WorkersTypeOK'
      BY <1>2, ParameterAssumption DEF WorkerClaim, WGoto, WorkersTypeOK, WorkerPc, ControlTypeOK
    <2>2. ControlTypeOK' /\ CountersTypeOK'
      BY <1>2, RgBytesType DEF WorkerClaim, WGoto, WorkersTypeOK, ControlTypeOK, CountersTypeOK
    <2>3. GatesTypeOK' /\ PagesTypeOK'
      BY <1>2 DEF WorkerClaim, WGoto, WorkersTypeOK, GatesTypeOK, PagesTypeOK
    <2>4. QED
      BY <1>1, <2>1, <2>2, <2>3
  <1>3. CASE WorkerQuit(w)
    <2>1. WorkersTypeOK'
      BY <1>3, ParameterAssumption DEF WorkerQuit, WGoto, WorkersTypeOK, WorkerPc, ControlTypeOK
    <2>2. ControlTypeOK' /\ CountersTypeOK'
      BY <1>3, RgBytesType DEF WorkerQuit, WGoto, WorkersTypeOK, ControlTypeOK, CountersTypeOK
    <2>3. GatesTypeOK' /\ PagesTypeOK'
      BY <1>3 DEF WorkerQuit, WGoto, WorkersTypeOK, GatesTypeOK, PagesTypeOK
    <2>4. QED
      BY <1>1, <2>1, <2>2, <2>3
  <1>4. CASE WorkerWait(w)
    <2>1. WorkersTypeOK'
      BY <1>4, ParameterAssumption
        DEF WorkerWait, WGoto, WorkersTypeOK, WorkerPc, ControlTypeOK, AwaitGate
    <2>2. ControlTypeOK' /\ CountersTypeOK'
      BY <1>4, RgBytesType
        DEF WorkerWait, WGoto, WorkersTypeOK, ControlTypeOK, CountersTypeOK, AwaitGate
    <2>3. GatesTypeOK' /\ PagesTypeOK'
      BY <1>4 DEF WorkerWait, WGoto, WorkersTypeOK, GatesTypeOK, PagesTypeOK, AwaitGate
    <2>4. QED
      BY <1>1, <2>1, <2>2, <2>3
  <1>5. CASE WorkerWaitProbe(w)
    <2>1. WorkersTypeOK'
      BY <1>5, ParameterAssumption
        DEF WorkerWaitProbe, WGoto, WorkersTypeOK, WorkerPc, ControlTypeOK, AwaitGate
    <2>2. ControlTypeOK' /\ CountersTypeOK'
      BY <1>5, RgBytesType
        DEF WorkerWaitProbe, WGoto, WorkersTypeOK, ControlTypeOK, CountersTypeOK, AwaitGate
    <2>3. GatesTypeOK' /\ PagesTypeOK'
      BY <1>5 DEF WorkerWaitProbe, WGoto, WorkersTypeOK, GatesTypeOK, PagesTypeOK, AwaitGate
    <2>4. QED
      BY <1>1, <2>1, <2>2, <2>3
  <1>6. CASE WorkerScan(w)
    <2>1. WorkersTypeOK'
      BY <1>6, ParameterAssumption DEF WorkerScan, WGoto, WorkersTypeOK, WorkerPc, ControlTypeOK
    <2>2. ControlTypeOK' /\ CountersTypeOK'
      BY <1>6, RgBytesType DEF WorkerScan, WGoto, WorkersTypeOK, ControlTypeOK, CountersTypeOK
    <2>3. GatesTypeOK' /\ PagesTypeOK'
      BY <1>6 DEF WorkerScan, WGoto, WorkersTypeOK, GatesTypeOK, PagesTypeOK
    <2>4. QED
      BY <1>1, <2>1, <2>2, <2>3
  <1>7. CASE GateDone(w)
    <2>1. WorkersTypeOK'
      BY <1>7, ParameterAssumption
        DEF GateDone, WGoto, WorkersTypeOK, WorkerPc, ControlTypeOK, Onward
    <2>2. ControlTypeOK' /\ CountersTypeOK'
      BY <1>7, RgBytesType DEF GateDone, WGoto, WorkersTypeOK, ControlTypeOK, CountersTypeOK, Onward
    <2>3. GatesTypeOK' /\ PagesTypeOK'
      BY <1>7 DEF GateDone, WGoto, WorkersTypeOK, GatesTypeOK, PagesTypeOK, Onward
    <2>4. QED
      BY <1>1, <2>1, <2>2, <2>3
  <1>8. CASE ReleasePages(w)
    <2>1. WorkersTypeOK'
      BY <1>8, ParameterAssumption DEF ReleasePages, WGoto, WorkersTypeOK, WorkerPc, ControlTypeOK
    <2>2. ControlTypeOK' /\ CountersTypeOK'
      BY <1>8, RgBytesType DEF ReleasePages, WGoto, WorkersTypeOK, ControlTypeOK, CountersTypeOK
    <2>3. GatesTypeOK' /\ PagesTypeOK'
      <3>1. {wrg[w]} \in SUBSET RowGroups
        BY <1>8 DEF ReleasePages, WorkersTypeOK
      <3>2. PagesTypeOK'
        BY <1>8, <3>1, DropSegmentsType DEF ReleasePages
      <3>3. QED
        BY <1>8, <3>2 DEF ReleasePages, GatesTypeOK
    <2>4. QED
      BY <1>1, <2>1, <2>2, <2>3
  <1>9. CASE ReleaseWindow(w)
    <2>1. WorkersTypeOK'
      BY <1>9, ParameterAssumption DEF ReleaseWindow, WGoto, WorkersTypeOK, WorkerPc, ControlTypeOK
    <2>2. ControlTypeOK' /\ CountersTypeOK'
      BY <1>9, RgBytesType DEF ReleaseWindow, WGoto, WorkersTypeOK, ControlTypeOK, CountersTypeOK
    <2>3. GatesTypeOK' /\ PagesTypeOK'
      BY <1>9 DEF ReleaseWindow, WGoto, WorkersTypeOK, GatesTypeOK, PagesTypeOK
    <2>4. QED
      BY <1>1, <2>1, <2>2, <2>3
  <1>10. CASE ReleaseLedger(w)
    <2>1. WorkersTypeOK'
      BY <1>10, ParameterAssumption
        DEF ReleaseLedger, WGoto, WorkersTypeOK, WorkerPc, ControlTypeOK, Onward
    <2>2. ControlTypeOK' /\ CountersTypeOK'
      BY <1>10, RgBytesType
        DEF ReleaseLedger, WGoto, WorkersTypeOK, ControlTypeOK, CountersTypeOK, Onward, Repay
    <2>3. GatesTypeOK' /\ PagesTypeOK'
      BY <1>10 DEF ReleaseLedger, WGoto, WorkersTypeOK, GatesTypeOK, PagesTypeOK, Onward
    <2>4. QED
      BY <1>1, <2>1, <2>2, <2>3
  <1>11. QED
    BY <1>2, <1>3, <1>4, <1>5, <1>6, <1>7, <1>8, <1>9, <1>10 DEF Worker

\* A step of the query's thread, or of the rest of the query, keeps the types.
LEMMA QueryType ==
    ASSUME TypeOK, Query \/ OthersDraw
    PROVE  TypeOK'
  <1> USE DEF TypeOK
  <1> USE DEF reader_vars, worker_vars, window_vars, ledger_vars, gate_vars, page_vars, scan_vars
  <1>1. ReadersTypeOK' /\ WorkersTypeOK'
    BY DEF Query, ReadDictionaries, ReleasePruned, EndScan, Abandon, EndRerun, Destroy, OthersDraw,
           ReadersTypeOK, WorkersTypeOK
  <1>2. ControlTypeOK'
    BY DEF Query, ReadDictionaries, ReleasePruned, EndScan, Abandon, EndRerun, Destroy, OthersDraw,
           Phase, ControlTypeOK, Phases
  <1>3. CountersTypeOK'
    <2>1. CASE Abandon \/ Destroy
      BY <2>1 DEF Abandon, Destroy, GiveBack, Repay, CountersTypeOK
    <2>2. CASE OthersDraw
      BY <2>2, ParameterAssumption DEF OthersDraw, CountersTypeOK
    <2>3. CASE ReadDictionaries \/ ReleasePruned \/ EndScan \/ EndRerun
      BY <2>3 DEF ReadDictionaries, ReleasePruned, EndScan, EndRerun, CountersTypeOK
    <2>4. QED
      BY <2>1, <2>2, <2>3 DEF Query
  <1>4. GatesTypeOK'
    BY DEF Query, ReadDictionaries, ReleasePruned, EndScan, Abandon, EndRerun, Destroy, OthersDraw,
           GatesTypeOK
  <1>5. PagesTypeOK'
    <2>1. CASE ReleasePruned
      <3>1. PICK rgs \in SUBSET RowGroups : DropSegments(rgs)
        BY <2>1, ParameterAssumption DEF ReleasePruned
      <3>2. QED
        BY <3>1, DropSegmentsType
    <2>2. CASE ~ReleasePruned
      BY <2>2 DEF Query, ReadDictionaries, EndScan, Abandon, EndRerun, Destroy, OthersDraw,
           PagesTypeOK
    <2>3. QED
      BY <2>1, <2>2
  <1>6. QED
    BY <1>1, <1>2, <1>3, <1>4, <1>5

\* Every step keeps the types.
LEMMA NextType == TypeOK /\ [Next]_vars => TypeOK'
  <1> SUFFICES ASSUME TypeOK, [Next]_vars PROVE TypeOK'
    OBVIOUS
  <1>1. CASE \E r \in Readers : Reader(r)
    BY <1>1, ReaderType
  <1>2. CASE \E w \in Workers : Worker(w)
    BY <1>2, WorkerType
  <1>3. CASE Query \/ OthersDraw
    BY <1>3, QueryType
  <1>4. CASE UNCHANGED vars
    BY <1>4 DEF vars, reader_vars, worker_vars, window_vars, ledger_vars, gate_vars, page_vars,
                scan_vars, TypeOK, ControlTypeOK, CountersTypeOK, GatesTypeOK, PagesTypeOK,
                ReadersTypeOK, WorkersTypeOK
  <1>5. QED
    BY <1>1, <1>2, <1>3, <1>4 DEF Next, Done

\* The threads keep the types of File and Reader, whatever order they run in.
THEOREM TypeCorrect == Spec => []TypeOK
  BY InitType, NextType, PTL DEF Spec

-----------------------------------------------------------------------------
(* Admission.                                                              *)

\* Before any thread claimed a unit the admission invariant holds.
LEMMA InitAdmission == Init => AdmissionInv
  <1> SUFFICES ASSUME Init PROVE AdmissionInv
    OBVIOUS
  <1>1. TypeOK
    BY InitType
  <1>2. \A r \in Readers : rpc[r] = "claim"
    BY DEF Init
  <1>3. UnitsClaimedOnce /\ InTurn
    BY <1>2 DEF UnitsClaimedOnce, InTurn, OnUnit
  <1>4. WindowBound
    BY ParameterAssumption DEF Init, WindowBound
  <1>5. QED
    BY <1>1, <1>3, <1>4 DEF AdmissionInv

\* Two threads past the check would hold the same ticket's first unit.
LEMMA OneTaker ==
    ASSUME AdmissionInv, NEW r \in Readers, NEW s \in Readers,
           rpc[r] = "take", rpc[s] = "take"
    PROVE  r = s
  <1>1. /\ unit[r] \in DOMAIN Units /\ unit[s] \in DOMAIN Units
        /\ First(unit[r]) /\ First(unit[s])
        /\ Units[unit[r]].ticket = Units[unit[s]].ticket
    BY DEF AdmissionInv, InTurn, TypeOK, ReadersTypeOK, OnUnit
  <1>2. unit[r] = unit[s]
    BY <1>1, TicketAssumption
  <1>3. QED
    BY <1>2 DEF AdmissionInv, UnitsClaimedOnce, OnUnit

\* Steps that touch neither the reader threads nor the window.
LEMMA AdmissionUnchanged ==
    ASSUME AdmissionInv, TypeOK', UNCHANGED <<next_unit, reader_vars, window_vars>>
    PROVE  AdmissionInv'
  <1>1. UnitsClaimedOnce'
    BY DEF AdmissionInv, UnitsClaimedOnce, reader_vars
  <1>2. InTurn'
    BY DEF AdmissionInv, InTurn, reader_vars, window_vars
  <1>3. WindowBound'
    BY DEF AdmissionInv, WindowBound, window_vars
  <1>4. QED
    BY <1>1, <1>2, <1>3 DEF AdmissionInv

\* A release shrinks what is outstanding, under every check made before it.
LEMMA AdmissionRelease ==
    ASSUME AdmissionInv, TypeOK', NEW n \in Nat, released' = released + n,
           UNCHANGED <<next_unit, reader_vars, admit_next, submitted>>
    PROVE  AdmissionInv'
  <1> USE DEF AdmissionInv, reader_vars
  <1>0. submitted \in Int /\ released \in Int
    BY DEF TypeOK, CountersTypeOK
  <1>1. UnitsClaimedOnce'
    BY DEF UnitsClaimedOnce
  <1>2. InTurn'
    BY <1>0 DEF InTurn, TypeOK, ReadersTypeOK
  <1>3. WindowBound'
    <2>1. CASE submitted - released > Window
      <3>1. PICK u \in DOMAIN Units : /\ First(u)
                                      /\ Units[u].ticket = admit_next - 1
                                      /\ submitted - released <= Units[u].charge
        BY <2>1 DEF WindowBound
      <3>2. submitted - released' <= Units[u].charge
        BY <3>1, <1>0, UnitFields
      <3>3. QED
        BY <3>1, <3>2 DEF WindowBound
    <2>2. CASE submitted - released <= Window
      <3>1. ~(submitted' - released' > Window)
        BY <2>2, <1>0, ParameterAssumption
      <3>2. QED
        BY <3>1 DEF WindowBound
    <2>3. QED
      BY <2>1, <2>2, <1>0, ParameterAssumption
  <1>4. QED
    BY <1>1, <1>2, <1>3

\* A thread that moves on without a charge keeps the others where they are.
LEMMA AdmissionMove ==
    ASSUME AdmissionInv, TypeOK', NEW r \in Readers, NEW pc \in ReaderPc,
           rpc' = [rpc EXCEPT ![r] = pc],
           pc \in OnUnit => rpc[r] \in OnUnit,
           pc # "take",
           UNCHANGED <<next_unit, unit, out, window_vars>>
    PROVE  AdmissionInv'
  <1> USE DEF AdmissionInv
  <1>0. rpc \in [Readers -> ReaderPc]
    BY DEF TypeOK, ReadersTypeOK
  <1>1. \A s \in Readers : /\ rpc'[s] \in OnUnit => rpc[s] \in OnUnit
                           /\ rpc'[s] = "take" => rpc[s] = "take"
    BY <1>0
  <1>2. UnitsClaimedOnce'
    BY <1>1 DEF UnitsClaimedOnce
  <1>3. InTurn'
    BY <1>1 DEF InTurn, window_vars
  <1>4. WindowBound'
    BY DEF WindowBound, window_vars
  <1>5. QED
    BY <1>2, <1>3, <1>4

\* A claimed unit is past every unit claimed before it.
LEMMA AdmissionClaim ==
    ASSUME AdmissionInv, TypeOK', NEW r \in Readers, Claim(r)
    PROVE  AdmissionInv'
  <1> USE DEF AdmissionInv
  <1>0. /\ rpc \in [Readers -> ReaderPc]
        /\ unit \in [Readers -> Nat]
        /\ next_unit \in Nat
        /\ Len(Units) \in Nat
    BY UnitsAssumption DEF TypeOK, ReadersTypeOK, ControlTypeOK
  <1>1. \A s \in Readers : rpc'[s] = "take" => rpc[s] = "take" /\ s # r
    BY <1>0 DEF Claim, Goto
  <1>2. InTurn'
    BY <1>0, <1>1 DEF InTurn, Claim, window_vars
  <1>3. WindowBound'
    BY DEF WindowBound, Claim, window_vars
  <1>4. UnitsClaimedOnce'
    <2>1. CASE cancel
      <3>1. \A s \in Readers : rpc'[s] \in OnUnit => rpc[s] \in OnUnit
        BY <2>1, <1>0 DEF Claim, Goto, OnUnit
      <3>2. QED
        BY <2>1, <3>1 DEF Claim, UnitsClaimedOnce
    <2>2. CASE ~cancel
      <3>1. /\ next_unit' = next_unit + 1
            /\ unit' = [unit EXCEPT ![r] = next_unit]
            /\ \A s \in Readers \ {r} : rpc'[s] = rpc[s]
        BY <2>2, <1>0 DEF Claim, Goto
      <3>2. \A s \in Readers \ {r} : rpc'[s] \in OnUnit => unit'[s] < next_unit
        BY <1>0, <3>1 DEF UnitsClaimedOnce
      <3>3. unit'[r] = next_unit
        BY <1>0, <3>1
      <3>4. QED
        BY <1>0, <3>1, <3>2, <3>3 DEF UnitsClaimedOnce
    <2>3. QED
      BY <2>1, <2>2
  <1>5. QED
    BY <1>2, <1>3, <1>4

\* The check holds of the state it was made in.
LEMMA AdmissionCheck ==
    ASSUME AdmissionInv, TypeOK', NEW r \in Readers, AdmitCheck(r)
    PROVE  AdmissionInv'
  <1> USE DEF AdmissionInv
  <1>0. /\ rpc \in [Readers -> ReaderPc]
        /\ out \in [Readers -> Nat]
        /\ submitted \in Int /\ released \in Int
    BY DEF TypeOK, ReadersTypeOK, CountersTypeOK
  <1>1. /\ rpc[r] = "admit"
        /\ rpc' = [rpc EXCEPT ![r] = "take"]
        /\ out' = [out EXCEPT ![r] = Monus(submitted, released)]
        /\ UNCHANGED <<next_unit, unit, window_vars>>
    BY DEF AdmitCheck, Goto
  <1>2. unit[r] \in DOMAIN Units
    BY <1>1 DEF TypeOK, ReadersTypeOK, OnUnit
  <1>3. UnitsClaimedOnce'
    <2>1. \A s \in Readers : rpc'[s] \in OnUnit => rpc[s] \in OnUnit
      BY <1>0, <1>1 DEF OnUnit
    <2>2. QED
      BY <1>1, <2>1 DEF UnitsClaimedOnce
  <1>4. WindowBound'
    BY <1>1 DEF WindowBound, window_vars
  <1>5. InTurn'
    <2>1. First(unit[r]) /\ Units[unit[r]].ticket = admit_next
      BY <1>2, UnitFields DEF AdmitCheck, First, MyTurn, RoomFor
    <2>2. /\ out'[r] = Monus(submitted, released)
          /\ out'[r] >= submitted - released
      BY <1>0, <1>1 DEF Monus
    <2>3. out'[r] = 0 \/ out'[r] + Units[unit[r]].charge <= Window
      BY <2>2 DEF AdmitCheck, MyTurn, RoomFor
    <2>4. \A s \in Readers \ {r} : rpc'[s] = rpc[s] /\ out'[s] = out[s]
      BY <1>0, <1>1
    <2>5. ASSUME NEW s \in Readers, rpc'[s] = "take"
          PROVE  /\ First(unit[s])
                 /\ Units[unit[s]].ticket = admit_next
                 /\ out'[s] >= submitted - released
                 /\ out'[s] = 0 \/ out'[s] + Units[unit[s]].charge <= Window
      <3>1. CASE s = r
        BY <3>1, <2>1, <2>2, <2>3
      <3>2. CASE s # r
        BY <3>2, <2>4, <2>5 DEF InTurn
      <3>3. QED
        BY <3>1, <3>2
    <2>6. QED
      BY <2>5, <1>1 DEF InTurn, window_vars
  <1>6. QED
    BY <1>3, <1>4, <1>5

\* The charge is made on a check no other charge came after.
LEMMA AdmissionTake ==
    ASSUME AdmissionInv, TypeOK', NEW r \in Readers, AdmitTake(r)
    PROVE  AdmissionInv'
  <1> DEFINE charge == Units[unit[r]].charge
  <1>0. /\ rpc \in [Readers -> ReaderPc]
        /\ out \in [Readers -> Nat]
        /\ submitted \in Int /\ released \in Int /\ admit_next \in Nat
        /\ unit[r] \in DOMAIN Units
    BY DEF AdmissionInv, TypeOK, ReadersTypeOK, CountersTypeOK, OnUnit, AdmitTake
  <1>1. rpc[r] = "take" /\ UNCHANGED <<next_unit, unit, out>>
    BY DEF AdmitTake
  <1>2. CASE rpc' = [rpc EXCEPT ![r] = "admit"] /\ UNCHANGED window_vars
    BY <1>1, <1>2, AdmissionMove DEF ReaderPc, OnUnit
  <1>3. CASE /\ rpc' = [rpc EXCEPT ![r] = "read"]
             /\ submitted' = submitted + charge
             /\ admit_next' = Units[unit[r]].ticket + 1
             /\ UNCHANGED released
    <2>1. \A s \in Readers : rpc'[s] # "take"
      BY <1>0, <1>1, <1>3, OneTaker
    <2>2. InTurn'
      BY <2>1 DEF InTurn
    <2>3. UnitsClaimedOnce'
      <3>1. \A s \in Readers : rpc'[s] \in OnUnit => rpc[s] \in OnUnit
        BY <1>0, <1>1, <1>3 DEF OnUnit
      <3>2. QED
        BY <1>1, <3>1 DEF AdmissionInv, UnitsClaimedOnce
    <2>4. WindowBound'
      <3>1. /\ First(unit[r])
            /\ out[r] >= submitted - released
            /\ out[r] = 0 \/ out[r] + charge <= Window
        BY <1>1 DEF AdmissionInv, InTurn
      <3>2. charge \in Nat /\ Units[unit[r]].ticket \in Nat /\ out[r] \in Nat
        BY <1>0, UnitFields
      <3>3. \/ submitted' - released' <= Window
            \/ submitted' - released' <= charge
        BY <3>1, <3>2, <1>0, <1>3, ParameterAssumption
      <3>4. Units[unit[r]].ticket = admit_next' - 1
        BY <3>2, <1>3
      <3>5. submitted' - released' \in Int /\ Window \in Int
        BY <1>0, <1>3, <3>2, ParameterAssumption
      <3>6. QED
        BY <1>0, <3>1, <3>3, <3>4, <3>5 DEF WindowBound
    <2>5. QED
      BY <2>2, <2>3, <2>4 DEF AdmissionInv
  <1>4. QED
    BY <1>2, <1>3 DEF AdmitTake, Goto, window_vars

\* Every step keeps the admission invariant.
LEMMA NextAdmission == AdmissionInv /\ [Next]_vars => AdmissionInv'
  <1> SUFFICES ASSUME AdmissionInv, [Next]_vars PROVE AdmissionInv'
    OBVIOUS
  <1>0. TypeOK'
    BY NextType DEF AdmissionInv
  <1>1. ASSUME NEW r \in Readers, Reader(r) PROVE AdmissionInv'
    <2>1. CASE Claim(r)
      BY <2>1, <1>0, AdmissionClaim
    <2>2. CASE AdmitCheck(r)
      BY <2>2, <1>0, AdmissionCheck
    <2>3. CASE AdmitTake(r)
      BY <2>3, <1>0, AdmissionTake
    <2>4. CASE GiveUp(r) \/ AdmitFree(r) \/ ReadUnit(r) \/ ReadFails(r) \/ UnitDone(r)
               \/ OpenGate(r) \/ ProbeDone(r) \/ FailStore(r)
      <3>1. PICK pc \in ReaderPc : /\ rpc' = [rpc EXCEPT ![r] = pc]
                                   /\ pc # "take"
                                   /\ pc \in OnUnit => rpc[r] \in OnUnit
        BY <2>4 DEF GiveUp, AdmitFree, ReadUnit, ReadFails, UnitDone, OpenGate, ProbeDone,
                    FailStore, Goto, ReaderPc, OnUnit
      <3>2. UNCHANGED <<next_unit, unit, out, window_vars>>
        BY <2>4 DEF GiveUp, AdmitFree, ReadUnit, ReadFails, UnitDone, OpenGate, ProbeDone,
                    FailStore, window_vars
      <3>3. QED
        BY <3>1, <3>2, <1>0, AdmissionMove
    <2>5. CASE FailLook(r)
      <3>1. PICK pc \in ReaderPc : /\ rpc' = [rpc EXCEPT ![r] = pc]
                                   /\ pc # "take"
                                   /\ pc \in OnUnit => rpc[r] \in OnUnit
        BY <2>5 DEF FailLook, Goto, ReaderPc, OnUnit, AdmissionInv, TypeOK, ReadersTypeOK
      <3>2. UNCHANGED <<next_unit, unit, out, window_vars>>
        BY <2>5 DEF FailLook, window_vars
      <3>3. QED
        BY <3>1, <3>2, <1>0, AdmissionMove
    <2>6. QED
      BY <1>1, <2>1, <2>2, <2>3, <2>4, <2>5 DEF Reader
  <1>2. ASSUME NEW w \in Workers, Worker(w) PROVE AdmissionInv'
    <2>1. CASE ReleaseWindow(w)
      <3>1. RgBytes(wrg[w]) \in Nat
        BY <2>1, RgBytesType DEF ReleaseWindow, AdmissionInv, TypeOK, WorkersTypeOK
      <3>2. QED
        BY <2>1, <3>1, <1>0, AdmissionRelease DEF ReleaseWindow
    <2>2. CASE ~ReleaseWindow(w)
      <3>1. UNCHANGED <<next_unit, reader_vars, window_vars>>
        BY <1>2, <2>2 DEF Worker, WorkerClaim, WorkerQuit, WorkerWait, WorkerWaitProbe, AwaitGate,
             WorkerScan, GateDone, ReleasePages, ReleaseLedger
      <3>2. QED
        BY <3>1, <1>0, AdmissionUnchanged
    <2>3. QED
      BY <2>1, <2>2
  <1>3. CASE Query \/ OthersDraw
    <2>1. UNCHANGED <<next_unit, reader_vars, window_vars>>
      BY <1>3 DEF Query, ReadDictionaries, ReleasePruned, EndScan, Abandon, EndRerun, Destroy,
           OthersDraw
    <2>2. QED
      BY <2>1, <1>0, AdmissionUnchanged
  <1>4. CASE UNCHANGED vars
    BY <1>4, <1>0, AdmissionUnchanged DEF vars
  <1>5. QED
    BY <1>1, <1>2, <1>3, <1>4 DEF Next, Done

\* Of all reader threads only one is ever between the check and the charge, and
\* what the check found outstanding has not grown when the charge is made: the
\* "one reservation" of Reader.admit's comment.
THEOREM AdmitsOneAtATime == Spec => []OneAdmitter
  <1>1. AdmissionInv => OneAdmitter
    BY OneTaker DEF OneAdmitter, AdmissionInv, InTurn
  <1>2. QED
    BY <1>1, InitAdmission, NextAdmission, PTL DEF Spec

\* The bytes read ahead and not handed back never pass the window but by one
\* row group's charge, the last admitted: Config.window bounds the memory held.
THEOREM KeepsWindow == Spec => []WindowBound
  <1>1. AdmissionInv => WindowBound
    BY DEF AdmissionInv
  <1>2. QED
    BY <1>1, InitAdmission, NextAdmission, PTL DEF Spec

-----------------------------------------------------------------------------
(* Row groups, their reads and their charges.                              *)

\* A read that is no probe is its row group's, and has its ticket.
LEMMA TicketOfUnit ==
    ASSUME NEW u \in DOMAIN Units, ~Units[u].probe
    PROVE  Units[u].rg \in Charging /\ TicketOf(Units[u].rg) = Units[u].ticket
  <1> DEFINE rg == Units[u].rg  v == CHOOSE v \in UnitsOf(rg) : TRUE
  <1>1. rg \in RowGroups /\ u \in UnitsOf(rg)
    BY UnitFields DEF UnitsOf
  <1>2. v \in UnitsOf(rg)
    BY <1>1
  <1>3. v \in DOMAIN Units /\ ~Units[v].probe /\ Units[v].rg = rg
    BY <1>2 DEF UnitsOf
  <1>4. rg <= rg
    BY <1>1, LayoutAssumption DEF RowGroups
  <1>5. Units[u].ticket <= Units[v].ticket /\ Units[v].ticket <= Units[u].ticket
    BY <1>3, <1>4, RowGroupAssumption
  <1>6. Units[u].ticket \in Nat /\ Units[v].ticket \in Nat
    BY <1>3, UnitFields
  <1>7. Units[v].ticket = Units[u].ticket
    BY <1>5, <1>6
  <1> QED
    BY <1>1, <1>7 DEF Charging, TicketOf

\* Its tickets are in the row groups' order.
LEMMA TicketOrder ==
    /\ \A g \in Charging : TicketOf(g) \in Nat /\ g \in RowGroups /\ g \in Nat
    /\ \A g, h \in Charging : g <= h <=> TicketOf(g) <= TicketOf(h)
    /\ \A g, h \in Charging : TicketOf(g) = TicketOf(h) => g = h
  <1>1. ASSUME NEW g \in Charging
        PROVE  \E u \in DOMAIN Units : /\ ~Units[u].probe /\ Units[u].rg = g
                                       /\ TicketOf(g) = Units[u].ticket
    <2>1. PICK u \in UnitsOf(g) : TRUE
      BY DEF Charging
    <2>2. u \in DOMAIN Units /\ ~Units[u].probe /\ Units[u].rg = g
      BY DEF UnitsOf
    <2> QED
      BY <2>2, TicketOfUnit
  <1>2. \A g \in Charging : TicketOf(g) \in Nat /\ g \in RowGroups /\ g \in Nat
    <2>1. \A g \in Charging : g \in RowGroups /\ g \in Nat
      BY LayoutAssumption DEF Charging, RowGroups
    <2> QED
      BY <1>1, <2>1, UnitFields
  <1>3. \A g, h \in Charging : g <= h <=> TicketOf(g) <= TicketOf(h)
    <2> SUFFICES ASSUME NEW g \in Charging, NEW h \in Charging
                 PROVE  g <= h <=> TicketOf(g) <= TicketOf(h)
      OBVIOUS
    <2>1. PICK u \in DOMAIN Units : ~Units[u].probe /\ Units[u].rg = g /\ TicketOf(g) = Units[u].ticket
      BY <1>1
    <2>2. PICK v \in DOMAIN Units : ~Units[v].probe /\ Units[v].rg = h /\ TicketOf(h) = Units[v].ticket
      BY <1>1
    <2> QED
      BY <2>1, <2>2, RowGroupAssumption
  <1>4. ASSUME NEW g \in Charging, NEW h \in Charging, TicketOf(g) = TicketOf(h)
        PROVE  g = h
    <2>1. TicketOf(g) <= TicketOf(h) /\ TicketOf(h) <= TicketOf(g)
      BY <1>2, <1>4
    <2>2. g <= h /\ h <= g
      BY <1>3, <2>1
    <2> QED
      BY <1>2, <2>2
  <1> QED
    BY <1>2, <1>3, <1>4

\* Its first read carries its charge, which is something; without a read there
\* is none.
LEMMA BytesOfFirst ==
    ASSUME NEW u \in DOMAIN Units, First(u)
    PROVE  Bytes[Units[u].rg] = Units[u].charge
  <1> DEFINE rg == Units[u].rg  v == CHOOSE v \in UnitsOf(rg) : First(v)
  <1>1. rg \in RowGroups /\ u \in UnitsOf(rg)
    BY UnitFields DEF UnitsOf, First
  <1>2. v \in UnitsOf(rg) /\ First(v)
    BY <1>1
  <1>3. v \in DOMAIN Units /\ ~Units[v].probe /\ Units[v].rg = rg
    BY <1>2 DEF UnitsOf
  <1>4. Units[v].ticket = Units[u].ticket
    BY <1>3, TicketOfUnit DEF First
  <1>5. v = u
    BY <1>2, <1>3, <1>4, TicketAssumption
  <1>6. RgBytes(rg) = Units[v].charge
    BY <1>1 DEF RgBytes
  <1> QED
    BY <1>1, <1>5, <1>6 DEF Bytes

LEMMA BytesType ==
    /\ \A rg \in RowGroups : Bytes[rg] \in Nat /\ Bytes[rg] \in Int /\ Bytes[rg] = RgBytes(rg)
    /\ \A rg \in Charging : Bytes[rg] > 0
    /\ \A rg \in RowGroups \ Charging : Bytes[rg] = 0
  <1>1. \A rg \in RowGroups : Bytes[rg] \in Nat /\ Bytes[rg] = RgBytes(rg)
    BY RgBytesType DEF Bytes
  <1>2. ASSUME NEW rg \in Charging PROVE Bytes[rg] > 0
    <2>1. PICK u \in UnitsOf(rg) : First(u)
      BY RowGroupAssumption DEF Charging
    <2>2. u \in DOMAIN Units /\ Units[u].rg = rg /\ Units[u].charge > 0
      BY <2>1 DEF UnitsOf, First
    <2> QED
      BY <2>1, <2>2, BytesOfFirst
  <1>3. ASSUME NEW rg \in RowGroups \ Charging PROVE Bytes[rg] = 0
    BY <1>1 DEF Charging, RgBytes
  <1> QED
    BY <1>1, <1>2, <1>3

\* Sets of row groups can be counted and summed.
LEMMA GroupSums ==
    \A S \in SUBSET RowGroups :
        /\ IsFiniteSet(S) /\ Cardinality(S) \in Nat
        /\ SumOver(Bytes, S) \in Nat /\ SumBytes(S) = SumOver(Bytes, S)
        /\ \A rg \in S : SumOver(Bytes, S) = Bytes[rg] + SumOver(Bytes, S \ {rg})
        /\ \A rg \in RowGroups \ S : SumOver(Bytes, S \cup {rg}) = SumOver(Bytes, S) + Bytes[rg]
        /\ S \subseteq Charging /\ SumOver(Bytes, S) = 0 => S = {}
  <1> SUFFICES ASSUME NEW S \in SUBSET RowGroups
               PROVE  /\ IsFiniteSet(S) /\ Cardinality(S) \in Nat
                      /\ SumOver(Bytes, S) \in Nat /\ SumBytes(S) = SumOver(Bytes, S)
                      /\ \A rg \in S : SumOver(Bytes, S) = Bytes[rg] + SumOver(Bytes, S \ {rg})
                      /\ \A rg \in RowGroups \ S :
                            SumOver(Bytes, S \cup {rg}) = SumOver(Bytes, S) + Bytes[rg]
                      /\ S \subseteq Charging /\ SumOver(Bytes, S) = 0 => S = {}
    OBVIOUS
  <1>1. IsFiniteSet(S) /\ Cardinality(S) \in Nat
    BY FiniteLayout, FS_Subset
  <1>2. \A rg \in S : Bytes[rg] \in Nat /\ Bytes[rg] \in Int
    BY BytesType
  <1>3. SumOver(Bytes, S) \in Nat /\ SumBytes(S) = SumOver(Bytes, S)
    BY <1>1, <1>2, SumNat DEF SumBytes, SumOver
  <1>4. \A rg \in S : SumOver(Bytes, S) = Bytes[rg] + SumOver(Bytes, S \ {rg})
    BY <1>1, <1>2, SumWithout
  <1>5. ASSUME NEW rg \in RowGroups \ S
        PROVE  SumOver(Bytes, S \cup {rg}) = SumOver(Bytes, S) + Bytes[rg]
    <2>1. \A x \in S \cup {rg} : Bytes[x] \in Int
      BY BytesType
    <2> QED
      BY <1>1, <2>1, SumWith
  <1>6. ASSUME S \subseteq Charging, SumOver(Bytes, S) = 0, S # {} PROVE FALSE
    <2>1. PICK rg \in S : TRUE
      BY <1>6
    <2>2. \A x \in S \ {rg} : Bytes[x] \in Nat
      BY <1>2
    <2>3. SumOver(Bytes, S \ {rg}) \in Nat
      BY <1>1, <2>2, Without, SumNat
    <2>4. Bytes[rg] > 0 /\ Bytes[rg] \in Nat
      BY <1>6, BytesType
    <2> QED
      BY <1>4, <1>6, <2>3, <2>4
  <1> QED
    BY <1>1, <1>3, <1>4, <1>5, <1>6

LEMMA ChargedTypes ==
    /\ Charging \subseteq RowGroups /\ Charged \subseteq Charging
    /\ Returned \subseteq Charged /\ Repaid \subseteq Returned
    /\ Outstanding \subseteq Charged
    /\ Charged \in SUBSET RowGroups /\ Outstanding \in SUBSET RowGroups
    /\ Charged \ Repaid \in SUBSET RowGroups
  BY DEF Charging, Charged, Returned, Repaid, Outstanding, InRelease

\* The charge of the unit whose turn it is adds its row group, and no other.
LEMMA ChargeMoves ==
    ASSUME NEW u \in DOMAIN Units, First(u), admit_next \in Nat,
           Units[u].ticket = admit_next, admit_next' = Units[u].ticket + 1
    PROVE  /\ Charged' = Charged \cup {Units[u].rg}
           /\ Units[u].rg \in Charging \ Charged
  <1>1. Units[u].rg \in Charging /\ TicketOf(Units[u].rg) = admit_next
    BY TicketOfUnit DEF First
  <1>2. \A g \in Charging : admit_next + 1 > TicketOf(g) <=> admit_next > TicketOf(g) \/ TicketOf(g) = admit_next
    BY TicketOrder
  <1>3. \A g \in Charging : TicketOf(g) = admit_next <=> g = Units[u].rg
    BY <1>1, TicketOrder
  <1>4. Charged' = {g \in Charging : admit_next' > TicketOf(g)}
    BY DEF Charged
  <1>5. Charged' = Charged \cup {Units[u].rg}
    BY <1>1, <1>2, <1>3, <1>4 DEF Charged
  <1>6. Units[u].rg \notin Charged
    BY <1>1 DEF Charged
  <1> QED
    BY <1>1, <1>5, <1>6

-----------------------------------------------------------------------------
(* What a step of each thread leaves alone.                                *)

LEMMA ReaderFrames ==
    ASSUME TypeOK, NEW r \in Readers, Reader(r)
    PROVE  /\ UNCHANGED <<phase, released, others, scan_vars, seg_refs, cursor, worker_vars>>
           /\ AdmitTake(r) \/ UNCHANGED <<window_vars, ledger_vars>>
           /\ ReadUnit(r) \/ UNCHANGED resident
           /\ OpenGate(r) \/ FailStore(r) \/ UNCHANGED ready
           /\ UnitDone(r) \/ UNCHANGED left
           /\ \A s \in Readers \ {r} :
                 /\ rpc'[s] = rpc[s] /\ unit'[s] = unit[s]
                 /\ failing'[s] = failing[s] /\ out'[s] = out[s]
  <1> USE DEF window_vars, ledger_vars, scan_vars, page_vars, gate_vars, worker_vars, Goto,
              TypeOK, ReadersTypeOK
  <1>1. CASE Claim(r) \/ GiveUp(r) \/ AdmitFree(r)
    BY <1>1 DEF Claim, GiveUp, AdmitFree
  <1>2. CASE AdmitCheck(r)
    BY <1>2 DEF AdmitCheck
  <1>3. CASE AdmitTake(r)
    BY <1>3 DEF AdmitTake
  <1>4. CASE ReadUnit(r) \/ ReadFails(r) \/ UnitDone(r) \/ OpenGate(r) \/ ProbeDone(r)
    BY <1>4 DEF ReadUnit, ReadFails, UnitDone, OpenGate, ProbeDone
  <1>5. CASE FailLook(r) \/ FailStore(r)
    BY <1>5 DEF FailLook, FailStore
  <1> QED
    BY <1>1, <1>2, <1>3, <1>4, <1>5 DEF Reader

LEMMA WorkerFrames ==
    ASSUME TypeOK, NEW w \in Workers, Worker(w)
    PROVE  /\ UNCHANGED <<phase, cancel, next_unit, admit_next, submitted, others, probes_out,
                          gate_vars, reader_vars>>
           /\ GateDone(w) \/ UNCHANGED scan_vars
           /\ ReleasePages(w) \/ UNCHANGED page_vars
           /\ ReleaseWindow(w) \/ UNCHANGED released
           /\ ReleaseLedger(w) \/ UNCHANGED ledger_vars
           /\ \A v \in Workers \ {w} :
                 wpc'[v] = wpc[v] /\ wrg'[v] = wrg[v] /\ werr'[v] = werr[v]
  <1> USE DEF window_vars, ledger_vars, scan_vars, page_vars, gate_vars, reader_vars, WGoto,
              TypeOK, WorkersTypeOK
  <1>1. CASE WorkerClaim(w) \/ WorkerQuit(w)
    BY <1>1 DEF WorkerClaim, WorkerQuit
  <1>2. CASE WorkerWait(w) \/ WorkerWaitProbe(w) \/ WorkerScan(w)
    BY <1>2 DEF WorkerWait, WorkerWaitProbe, WorkerScan, AwaitGate
  <1>3. CASE GateDone(w) \/ ReleasePages(w) \/ ReleaseWindow(w) \/ ReleaseLedger(w)
    BY <1>3 DEF GateDone, ReleasePages, ReleaseWindow, ReleaseLedger, Repay
  <1> QED
    BY <1>1, <1>2, <1>3 DEF Worker

LEMMA QueryFrames ==
    ASSUME Query \/ OthersDraw
    PROVE  UNCHANGED <<next_unit, window_vars, probes_out, gate_vars, items_done, cursor,
                       reader_vars, worker_vars>>
  BY DEF Query, ReadDictionaries, ReleasePruned, EndScan, Abandon, EndRerun, Destroy, OthersDraw,
         scan_vars

\* The stages a reader thread goes through with a unit.
LEMMA ReaderSteps ==
    ASSUME TypeOK, NEW r \in Readers, Reader(r)
    PROVE  /\ unit'[r] = unit[r] \/ rpc'[r] \in {"admit", "exit"}
           /\ rpc'[r] = "read" => AdmitFree(r) \/ AdmitTake(r)
           /\ rpc'[r] = "done" => ReadUnit(r) /\ rpc[r] = "read"
           /\ rpc'[r] = "open" => UnitDone(r) /\ rpc[r] = "done"
           /\ rpc'[r] \in {"fail", "failstore"} =>
                 ReadFails(r) \/ rpc[r] \in {"fail", "failstore"}
  <1> USE DEF Goto, TypeOK, ReadersTypeOK
  <1>1. CASE Claim(r) \/ GiveUp(r) \/ AdmitFree(r)
    BY <1>1 DEF Claim, GiveUp, AdmitFree
  <1>2. CASE AdmitCheck(r)
    BY <1>2 DEF AdmitCheck
  <1>3. CASE AdmitTake(r)
    BY <1>3 DEF AdmitTake
  <1>4. CASE ReadUnit(r) \/ ReadFails(r) \/ UnitDone(r) \/ OpenGate(r) \/ ProbeDone(r)
    BY <1>4 DEF ReadUnit, ReadFails, UnitDone, OpenGate, ProbeDone
  <1>5. CASE FailLook(r) \/ FailStore(r)
    BY <1>5 DEF FailLook, FailStore
  <1> QED
    BY <1>1, <1>2, <1>3, <1>4, <1>5 DEF Reader

-----------------------------------------------------------------------------
\* Nothing admitted is taken back.
LEMMA AdmitGrows ==
    ASSUME AdmissionInv, [Next]_vars
    PROVE  Charged \subseteq Charged'
  <1>1. admit_next' >= admit_next
    <2>1. admit_next \in Nat
      BY DEF AdmissionInv, TypeOK, CountersTypeOK
    <2>2. ASSUME NEW r \in Readers, AdmitTake(r) PROVE admit_next' >= admit_next
      <3>1. rpc[r] = "take" /\ unit[r] \in DOMAIN Units
        BY <2>2 DEF AdmitTake, AdmissionInv, TypeOK, ReadersTypeOK, OnUnit
      <3>2. Units[unit[r]].ticket = admit_next
        BY <3>1 DEF AdmissionInv, InTurn
      <3>3. admit_next' = admit_next \/ admit_next' = Units[unit[r]].ticket + 1
        BY <2>2 DEF AdmitTake, window_vars
      <3> QED
        BY <2>1, <3>2, <3>3
    <2>3. (\E r \in Readers : AdmitTake(r)) \/ admit_next' = admit_next
      BY ReaderFrames, WorkerFrames, QueryFrames
         DEF Next, Done, vars, window_vars, AdmissionInv
    <2> QED
      BY <2>1, <2>2, <2>3
  <1>2. admit_next \in Nat /\ admit_next' >= admit_next => \A g \in Charging : admit_next > TicketOf(g) => admit_next' > TicketOf(g)
    BY <1>1, TicketOrder, NextType DEF AdmissionInv, TypeOK, CountersTypeOK
  <1>3. Charged' = {g \in Charging : admit_next' > TicketOf(g)}
    BY DEF Charged
  <1>4. admit_next \in Nat
    BY DEF AdmissionInv, TypeOK, CountersTypeOK
  <1> QED
    BY <1>1, <1>2, <1>3, <1>4 DEF Charged

LEMMA InitAdmitted == Init => AdmittedFirst
  <1> SUFFICES ASSUME Init PROVE AdmittedFirst
    OBVIOUS
  <1>1. \A r \in Readers : rpc[r] = "claim"
    BY DEF Init
  <1>2. ASSUME NEW rg \in Charging PROVE ready[rg] # 1 /\ ~rg_released[rg]
    <2>1. rg \in RowGroups /\ rg \in Gates /\ UnitsOf(rg) # {}
      BY LayoutAssumption DEF Charging, RowGroups, Gates
    <2>2. UnitsOf(rg) \in SUBSET DOMAIN Units
      BY DEF UnitsOf
    <2>3. Cardinality(UnitsOf(rg)) # 0
      BY <2>1, <2>2, FiniteLayout, FS_Subset, FS_EmptySet
    <2> QED
      BY <2>1, <2>3 DEF Init, UnitsLeft
  <1> QED
    BY <1>1, <1>2 DEF AdmittedFirst

\* A first unit is read once it is charged, the others of its row group after it.
LEMMA AdmittedKept ==
    ASSUME AdmissionInv, AdmittedFirst, [Next]_vars
    PROVE  AdmittedFirst'
  <1>0. TypeOK /\ Charged \subseteq Charged'
    BY AdmitGrows DEF AdmissionInv
  <1>1. ASSUME NEW s \in Readers, rpc'[s] \in {"read", "done", "open"}, ~Units[unit'[s]].probe
        PROVE  Units[unit'[s]].rg \in Charged'
    <2>1. CASE Reader(s)
      <3>1. unit'[s] = unit[s]
        BY <1>0, <1>1, <2>1, ReaderSteps
      <3>2. CASE AdmitFree(s)
        <4>1. unit[s] \in DOMAIN Units /\ admit_next > Units[unit[s]].ticket
          BY <1>0, <1>1, <3>1, <3>2 DEF AdmitFree, TypeOK, ReadersTypeOK, OnUnit
        <4> QED
          BY <1>0, <1>1, <3>1, <4>1, TicketOfUnit DEF Charged
      <3>3. CASE AdmitTake(s)
        <4>1. rpc[s] = "take" /\ unit[s] \in DOMAIN Units
          BY <1>0, <3>3 DEF AdmitTake, TypeOK, ReadersTypeOK, OnUnit
        <4>2. First(unit[s]) /\ Units[unit[s]].ticket = admit_next
          BY <4>1 DEF AdmissionInv, InTurn
        <4>3. admit_next' = Units[unit[s]].ticket + 1 /\ admit_next \in Nat
          BY <1>0, <1>1, <3>3 DEF AdmitTake, Goto, TypeOK, ReadersTypeOK, CountersTypeOK
        <4> QED
          BY <3>1, <4>1, <4>2, <4>3, ChargeMoves
      <3>4. CASE rpc'[s] \in {"done", "open"}
        BY <1>0, <1>1, <2>1, <3>1, <3>4, ReaderSteps DEF AdmittedFirst
      <3> QED
        BY <1>0, <1>1, <2>1, <3>2, <3>3, <3>4, ReaderSteps
    <2>2. CASE rpc'[s] = rpc[s] /\ unit'[s] = unit[s]
      BY <1>0, <1>1, <2>2 DEF AdmittedFirst
    <2> QED
      BY <1>0, <2>1, <2>2, ReaderFrames, WorkerFrames, QueryFrames
         DEF Next, Done, vars, reader_vars
  <1>2. ASSUME NEW rg \in Charging, ready'[rg] = 1 PROVE rg \in Charged'
    <2>1. ASSUME NEW r \in Readers, OpenGate(r) PROVE rg \in Charged'
      <3>1. /\ rpc[r] = "open" /\ unit[r] \in DOMAIN Units
            /\ ready' = [ready EXCEPT ![GateOf(unit[r])] = 1]
        BY <1>0, <2>1 DEF OpenGate, TypeOK, ReadersTypeOK, OnUnit
      <3>2. CASE ready[rg] = 1
        BY <1>0, <3>2 DEF AdmittedFirst
      <3>3. CASE rg = GateOf(unit[r])
        <4>1. rg \in 1..NumRG /\ Units[unit[r]].file \in 1..NumFiles /\ NumRG \in Nat /\ NumFiles \in Nat
          BY <3>1, LayoutAssumption, UnitFields DEF Charging, RowGroups, FileIds
        <4>2. ~Units[unit[r]].probe /\ rg = Units[unit[r]].rg
          BY <3>3, <4>1 DEF GateOf, ProbeGate
        <4> QED
          BY <1>0, <3>1, <4>2 DEF AdmittedFirst
      <3> QED
        BY <1>2, <3>1, <3>2, <3>3, <1>0 DEF TypeOK, GatesTypeOK
    <2>2. ASSUME NEW r \in Readers, FailStore(r) PROVE rg \in Charged'
      <3>1. PICK g : ready' = [ready EXCEPT ![g] = 2]
        BY <2>2 DEF FailStore
      <3>2. rg \in Gates
        BY LayoutAssumption DEF Charging, RowGroups, Gates
      <3>3. ready[rg] = 1
        BY <1>0, <1>2, <3>1, <3>2 DEF TypeOK, GatesTypeOK
      <3> QED
        BY <1>0, <3>3 DEF AdmittedFirst
    <2>3. CASE ready' = ready
      BY <1>0, <1>2, <2>3 DEF AdmittedFirst
    <2> QED
      BY <1>0, <2>1, <2>2, <2>3, ReaderFrames, WorkerFrames, QueryFrames
         DEF Next, Done, vars, gate_vars
  <1>3. ASSUME NEW rg \in Charging, rg_released'[rg] PROVE rg \in Charged'
    <2>0. rg \in RowGroups
      BY DEF Charging
    <2>1. rg_released[rg] \/ ready[rg] = 1
      <3>1. ASSUME NEW w \in Workers, GateDone(w) PROVE rg_released[rg] \/ ready[rg] = 1
        BY <1>0, <1>3, <2>0, <3>1 DEF GateDone, TypeOK, GatesTypeOK
      <3>2. CASE ReleasePruned
        BY <1>3, <2>0, <3>2 DEF ReleasePruned
      <3>3. CASE rg_released' = rg_released
        BY <1>3, <3>3
      <3>4. Query /\ ~ReleasePruned => rg_released' = rg_released
        BY DEF Query, ReadDictionaries, EndScan, Abandon, EndRerun, Destroy, scan_vars
      <3>5. OthersDraw => rg_released' = rg_released
        BY DEF OthersDraw, scan_vars
      <3> QED
        BY <1>0, <3>1, <3>2, <3>3, <3>4, <3>5, ReaderFrames, WorkerFrames
           DEF Next, Done, vars, scan_vars
    <2> QED
      BY <1>0, <2>1 DEF AdmittedFirst
  <1> QED
    BY <1>1, <1>2, <1>3 DEF AdmittedFirst

-----------------------------------------------------------------------------
(* Release.                                                                *)

\* The stages a worker goes through with a row group it gives back.
LEMMA WorkerStages ==
    ASSUME TypeOK, ReleasedOnce, NEW w \in Workers, Worker(w)
    PROVE  /\ phase = "scanning"
           /\ wrg'[w] = wrg[w] \/ WorkerClaim(w)
           /\ wpc'[w] = "drop" => /\ GateDone(w) /\ wpc[w] = "done" /\ wrg[w] \in RowGroups
                                  /\ ~rg_released[wrg[w]] /\ rg_released'[wrg[w]]
                                  /\ ready[wrg[w]] = 1
           /\ wpc'[w] = "give" => ReleasePages(w) /\ wpc[w] = "drop"
           /\ wpc'[w] = "repay" => ReleaseWindow(w) /\ wpc[w] = "give"
           /\ wpc'[w] \in Releasing => wrg'[w] = wrg[w]
  <1> USE DEF WGoto, TypeOK, WorkersTypeOK, GatesTypeOK, Releasing
  <1>1. phase = "scanning"
    <2>1. wpc[w] \notin {"claim", "exit"} => phase = "scanning"
      BY DEF ReleasedOnce
    <2>2. wpc[w] # "exit"
      BY DEF Worker, WorkerClaim, WorkerQuit, WorkerWait, WorkerWaitProbe, AwaitGate, WorkerScan,
             GateDone, ReleasePages, ReleaseWindow, ReleaseLedger
    <2>3. wpc[w] = "claim" => phase = "scanning"
      BY DEF Worker, WorkerClaim, WorkerQuit, WorkerWait, WorkerWaitProbe, AwaitGate, WorkerScan,
             GateDone, ReleasePages, ReleaseWindow, ReleaseLedger
    <2> QED
      BY <2>1, <2>2, <2>3
  <1>2. CASE WorkerClaim(w) \/ WorkerQuit(w)
    BY <1>1, <1>2 DEF WorkerClaim, WorkerQuit
  <1>3. CASE WorkerWait(w) \/ WorkerWaitProbe(w) \/ WorkerScan(w)
    BY <1>1, <1>3 DEF WorkerWait, WorkerWaitProbe, WorkerScan, AwaitGate
  <1>4. CASE GateDone(w)
    BY <1>1, <1>4 DEF GateDone, Onward
  <1>5. CASE ReleasePages(w) \/ ReleaseWindow(w) \/ ReleaseLedger(w)
    BY <1>1, <1>5 DEF ReleasePages, ReleaseWindow, ReleaseLedger, Onward
  <1> QED
    BY <1>2, <1>3, <1>4, <1>5 DEF Worker

\* What is released stays so; only the last worker of a row group, and the end of
\* planning for those it pruned, release it.
LEMMA ReleasedGrows ==
    ASSUME TypeOK, [Next]_vars
    PROVE  /\ \A rg \in RowGroups : rg_released[rg] => rg_released'[rg]
           /\ rg_released' = rg_released \/ ReleasePruned \/ \E w \in Workers : GateDone(w)
  <1> USE DEF TypeOK, GatesTypeOK
  <1>1. ASSUME NEW w \in Workers, GateDone(w)
        PROVE  \A rg \in RowGroups : rg_released[rg] => rg_released'[rg]
    BY <1>1 DEF GateDone
  <1>2. ReleasePruned => \A rg \in RowGroups : rg_released[rg] => rg_released'[rg]
    BY DEF ReleasePruned
  <1>3. Query \/ OthersDraw => ReleasePruned \/ rg_released' = rg_released
    BY DEF Query, ReadDictionaries, EndScan, Abandon, EndRerun, Destroy, OthersDraw, scan_vars
  <1>4. rg_released' = rg_released \/ ReleasePruned \/ \E w \in Workers : GateDone(w)
    BY <1>3, ReaderFrames, WorkerFrames DEF Next, Done, vars, scan_vars
  <1> QED
    BY <1>1, <1>2, <1>4

LEMMA ReleasedKept ==
    ASSUME TypeOK, TypeOK', ReleasedOnce, [Next]_vars
    PROVE  ReleasedOnce'
  <1>1. CASE \E x \in Workers : Worker(x)
    <2>1. PICK x \in Workers : Worker(x)
      BY <1>1
    <2>2. phase' = "scanning"
      BY <2>1, WorkerStages, WorkerFrames
    <2>3. ASSUME NEW w \in Workers, wpc'[w] \in Releasing PROVE rg_released'[wrg'[w]]
      <3>1. wrg'[w] \in RowGroups
        BY <2>3 DEF TypeOK, WorkersTypeOK, Releasing
      <3>2. CASE w = x
        BY <2>1, <2>3, <3>1, <3>2, WorkerStages, ReleasedGrows DEF ReleasedOnce, Releasing
      <3>3. CASE w # x
        BY <2>1, <2>3, <3>1, <3>3, WorkerFrames, ReleasedGrows DEF ReleasedOnce
      <3> QED
        BY <3>2, <3>3
    <2>4. ASSUME NEW y \in Workers \ {x}, wpc'[x] \in Releasing, wpc'[y] \in Releasing,
                 wrg'[x] = wrg'[y]
          PROVE  FALSE
      <3>1. wpc[y] \in Releasing /\ wrg[y] = wrg[x] /\ rg_released[wrg[y]]
        BY <2>1, <2>4, WorkerFrames, WorkerStages DEF ReleasedOnce
      <3>2. wpc[x] \in Releasing
        BY <2>1, <2>4, <3>1, WorkerStages DEF Releasing
      <3> QED
        BY <3>1, <3>2 DEF ReleasedOnce
    <2>5. ASSUME NEW w \in Workers, NEW v \in Workers, wpc'[w] \in Releasing,
                 wpc'[v] \in Releasing, wrg'[v] = wrg'[w]
          PROVE  v = w
      <3>1. CASE w = x \/ v = x
        BY <2>4, <2>5, <3>1
      <3>2. CASE w # x /\ v # x
        BY <2>1, <2>5, <3>2, WorkerFrames DEF ReleasedOnce
      <3> QED
        BY <3>1, <3>2
    <2> QED
      BY <2>2, <2>3, <2>5 DEF ReleasedOnce
  <1>2. CASE UNCHANGED worker_vars
    <2>1. ASSUME NEW w \in Workers, wpc'[w] \in Releasing
          PROVE  /\ rg_released'[wrg'[w]]
                 /\ \A v \in Workers : wpc'[v] \in Releasing /\ wrg'[v] = wrg'[w] => v = w
      <3>1. wpc[w] \in Releasing /\ wrg'[w] = wrg[w] /\ wrg[w] \in RowGroups
        BY <1>2, <2>1 DEF worker_vars, TypeOK, WorkersTypeOK, Releasing
      <3> QED
        BY <1>2, <3>1, ReleasedGrows DEF worker_vars, ReleasedOnce
    <2>2. ASSUME phase' # "scanning", NEW w \in Workers
          PROVE  wpc'[w] \in {"claim", "exit"}
      <3>1. phase = "scanning" => WorkersJoined
        <4>1. CASE Query
          BY <2>2, <4>1 DEF Query, ReadDictionaries, ReleasePruned, EndScan, Abandon, EndRerun,
                            Destroy, Phase
        <4>2. CASE phase' = phase
          BY <2>2, <4>2
        <4>3. OthersDraw => phase' = phase
          BY DEF OthersDraw
        <4> QED
          BY <4>1, <4>2, <4>3, ReaderFrames, WorkerFrames DEF Next, Done, vars
      <3> QED
        BY <1>2, <3>1 DEF ReleasedOnce, WorkersJoined, worker_vars
    <2> QED
      BY <2>1, <2>2 DEF ReleasedOnce
  <1> QED
    BY <1>1, <1>2, ReaderFrames, QueryFrames DEF Next, Done, vars

-----------------------------------------------------------------------------
(* What is returned and repaid.                                            *)

\* A worker that gives nothing back, or starts to, changes neither.
LEMMA ReturnedSame ==
    ASSUME TypeOK, ReleasedOnce, NEW w \in Workers, Worker(w),
           ~ReleaseWindow(w), ~ReleaseLedger(w)
    PROVE  Returned' = Returned /\ Repaid' = Repaid
  <1>1. Charged' = Charged /\ Charged \subseteq RowGroups
    BY WorkerFrames, ChargedTypes DEF Charged
  <1>2. CASE ReleasePages(w)
    <2>1. wpc[w] = "drop" /\ wpc'[w] = "give" /\ wrg' = wrg /\ rg_released' = rg_released
      BY <1>2 DEF ReleasePages, WGoto, TypeOK, WorkersTypeOK, scan_vars
    <2>2. \A rg : /\ InRelease(rg, {"drop", "give"})' <=> InRelease(rg, {"drop", "give"})
                  /\ InRelease(rg, {"drop", "give", "repay"})' <=> InRelease(rg, {"drop", "give", "repay"})
      BY <2>1, WorkerFrames DEF InRelease
    <2> QED
      BY <1>1, <2>1, <2>2 DEF Returned, Repaid
  <1>3. CASE ~ReleasePages(w) /\ wpc'[w] \notin Releasing
    <2>1. wpc[w] \notin Releasing
      BY <1>3 DEF Worker, WorkerClaim, WorkerQuit, WorkerWait, WorkerWaitProbe, AwaitGate,
                  WorkerScan, GateDone, ReleasePages, ReleaseWindow, ReleaseLedger, Releasing
    <2>2. \A rg : /\ InRelease(rg, {"drop", "give"})' <=> InRelease(rg, {"drop", "give"})
                  /\ InRelease(rg, {"drop", "give", "repay"})' <=> InRelease(rg, {"drop", "give", "repay"})
      BY <1>3, <2>1, WorkerFrames DEF InRelease, Releasing
    <2>3. \A rg \in RowGroups : rg_released'[rg] <=> rg_released[rg]
      <3>1. CASE GateDone(w)
        <4>1. ~(items_done[wrg[w]] + 1 = Items /\ ready[wrg[w]] = 1 /\ ~rg_released[wrg[w]])
          BY <1>3, <3>1 DEF GateDone, WGoto, TypeOK, WorkersTypeOK, Releasing
        <4> QED
          BY <3>1, <4>1 DEF GateDone, TypeOK, GatesTypeOK
      <3>2. CASE rg_released' = rg_released
        BY <3>2
      <3> QED
        BY <3>1, <3>2, WorkerFrames DEF scan_vars
    <2> QED
      BY <1>1, <2>2, <2>3 DEF Returned, Repaid
  <1>4. CASE wpc'[w] = "drop"
    <2>1. /\ GateDone(w) /\ wpc[w] = "done" /\ wrg[w] \in RowGroups /\ wrg'[w] = wrg[w]
          /\ ~rg_released[wrg[w]] /\ rg_released'[wrg[w]]
      BY <1>4, WorkerStages DEF Releasing
    <2>2. \A rg \in RowGroups \ {wrg[w]} :
             /\ rg_released'[rg] <=> rg_released[rg]
             /\ InRelease(rg, {"drop", "give"})' <=> InRelease(rg, {"drop", "give"})
             /\ InRelease(rg, {"drop", "give", "repay"})' <=> InRelease(rg, {"drop", "give", "repay"})
      <3>1. \A rg \in RowGroups \ {wrg[w]} : rg_released'[rg] <=> rg_released[rg]
        BY <2>1 DEF GateDone, TypeOK, GatesTypeOK
      <3>2. wrg' = wrg /\ \A v \in Workers \ {w} : wpc'[v] = wpc[v]
        BY <2>1, WorkerFrames DEF GateDone
      <3>3. ASSUME NEW rg \in RowGroups \ {wrg[w]}, NEW pcs
            PROVE  InRelease(rg, pcs)' <=> InRelease(rg, pcs)
        BY <3>2 DEF InRelease
      <3> QED
        BY <3>1, <3>3
    <2>3. InRelease(wrg[w], {"drop", "give"})' /\ InRelease(wrg[w], {"drop", "give", "repay"})'
      BY <1>4, <2>1 DEF InRelease
    <2> QED
      BY <1>1, <2>1, <2>2, <2>3 DEF Returned, Repaid
  <1> QED
    BY <1>2, <1>3, <1>4, WorkerStages DEF Releasing

\* The window's charge goes back first ...
LEMMA WindowReturns ==
    ASSUME TypeOK, ReleasedOnce, NEW w \in Workers, ReleaseWindow(w)
    PROVE  /\ Repaid' = Repaid /\ wrg[w] \in RowGroups \ Returned
           /\ Returned' = Returned \cup (Charged \cap {wrg[w]})
  <1>1. /\ wpc[w] = "give" /\ wpc'[w] = "repay" /\ wrg' = wrg /\ rg_released' = rg_released
        /\ wrg[w] \in RowGroups
    BY DEF ReleaseWindow, WGoto, TypeOK, WorkersTypeOK, scan_vars
  <1>2. Worker(w) /\ Charged' = Charged /\ Charged \subseteq RowGroups
    BY ChargedTypes DEF Worker, ReleaseWindow, Charged
  <1>3. \A v \in Workers \ {w} : wpc'[v] = wpc[v]
    BY <1>2, WorkerFrames
  <1>4. rg_released[wrg[w]] /\ \A v \in Workers : wpc[v] \in Releasing /\ wrg[v] = wrg[w] => v = w
    BY <1>1 DEF ReleasedOnce, Releasing
  <1>5. \A rg : InRelease(rg, {"drop", "give", "repay"})' <=> InRelease(rg, {"drop", "give", "repay"})
    BY <1>1, <1>3 DEF InRelease
  <1>6. InRelease(wrg[w], {"drop", "give"}) /\ ~InRelease(wrg[w], {"drop", "give"})'
    BY <1>1, <1>3, <1>4 DEF InRelease, Releasing
  <1>7. \A rg : rg # wrg[w] => (InRelease(rg, {"drop", "give"})' <=> InRelease(rg, {"drop", "give"}))
    BY <1>1, <1>3 DEF InRelease
  <1> QED
    BY <1>1, <1>2, <1>4, <1>5, <1>6, <1>7 DEF Returned, Repaid

\* ... and the ledger's after it.
LEMMA LedgerReturns ==
    ASSUME TypeOK, ReleasedOnce, NEW w \in Workers, ReleaseLedger(w)
    PROVE  /\ Returned' = Returned /\ wrg[w] \in RowGroups \ Repaid
           /\ Repaid' = Repaid \cup (Charged \cap {wrg[w]})
  <1>1. /\ wpc[w] = "repay" /\ wpc'[w] \notin Releasing /\ wrg' = wrg /\ rg_released' = rg_released
        /\ wrg[w] \in RowGroups
    BY DEF ReleaseLedger, WGoto, Onward, TypeOK, WorkersTypeOK, scan_vars, Releasing
  <1>2. Worker(w) /\ Charged' = Charged /\ Charged \subseteq RowGroups
    BY ChargedTypes DEF Worker, ReleaseLedger, Charged, window_vars
  <1>3. \A v \in Workers \ {w} : wpc'[v] = wpc[v]
    BY <1>2, WorkerFrames
  <1>4. rg_released[wrg[w]] /\ \A v \in Workers : wpc[v] \in Releasing /\ wrg[v] = wrg[w] => v = w
    BY <1>1 DEF ReleasedOnce, Releasing
  <1>5. \A rg : InRelease(rg, {"drop", "give"})' <=> InRelease(rg, {"drop", "give"})
    BY <1>1, <1>3 DEF InRelease, Releasing
  <1>6. /\ InRelease(wrg[w], {"drop", "give", "repay"})
        /\ ~InRelease(wrg[w], {"drop", "give", "repay"})'
    BY <1>1, <1>3, <1>4 DEF InRelease, Releasing
  <1>7. \A rg : rg # wrg[w] => (InRelease(rg, {"drop", "give", "repay"})'
                                   <=> InRelease(rg, {"drop", "give", "repay"}))
    BY <1>1, <1>3 DEF InRelease
  <1> QED
    BY <1>1, <1>2, <1>4, <1>5, <1>6, <1>7 DEF Returned, Repaid

\* No other step returns anything: what is admitted is not released yet, and what
\* planning releases was never charged.
LEMMA ReturnedAlone ==
    ASSUME TypeOK, AdmittedFirst, [Next]_vars, UNCHANGED worker_vars,
           Charged' = Charged \/ \E rg \in Charging \ Charged : Charged' = Charged \cup {rg}
    PROVE  Returned' = Returned /\ Repaid' = Repaid
  <1>1. \A rg, pcs : InRelease(rg, pcs)' <=> InRelease(rg, pcs)
    BY DEF InRelease, worker_vars
  <1>2. \A rg \in Charging : rg_released'[rg] <=> rg_released[rg]
    <2>1. CASE ReleasePruned
      BY <2>1, RowGroupAssumption DEF ReleasePruned, Charging
    <2>2. ASSUME NEW w \in Workers, GateDone(w) PROVE FALSE
      <3>1. wpc[w] = "done" /\ wpc'[w] # "done"
        BY <2>2 DEF GateDone, WGoto, Onward, TypeOK, WorkersTypeOK
      <3> QED
        BY <3>1 DEF worker_vars
    <2> QED
      BY <2>1, <2>2, ReleasedGrows
  <1>3. \A rg \in Charged' \ Charged : ~rg_released[rg]
    BY DEF AdmittedFirst
  <1> QED
    BY <1>1, <1>2, <1>3, ChargedTypes DEF Returned, Repaid

-----------------------------------------------------------------------------
(* The books.                                                              *)

\* The counters' types, and the sums they are compared with.
LEMMA BookTypes ==
    ASSUME TypeOK
    PROVE  /\ submitted \in Int /\ released \in Int /\ admit_next \in Nat
           /\ ledger_held \in Int /\ ledger_used \in Int /\ others \in Nat
           /\ LedgerLimit \in Nat /\ Window \in Nat
           /\ SumOver(Bytes, Outstanding) \in Nat /\ SumBytes(Outstanding) = SumOver(Bytes, Outstanding)
           /\ SumOver(Bytes, Charged \ Repaid) \in Nat
           /\ SumBytes(Charged \ Repaid) = SumOver(Bytes, Charged \ Repaid)
           /\ IsFiniteSet(Outstanding) /\ Cardinality(Outstanding) \in Nat
  BY ChargedTypes, GroupSums, ParameterAssumption DEF TypeOK, CountersTypeOK

\* Less in use, and no more outstanding, overdraws nothing anew.
LEMMA LessDrawn ==
    ASSUME TypeOK, TypeOK', OverdrawnByOne, Outstanding' \subseteq Outstanding,
           ledger_used' <= ledger_used
    PROVE  OverdrawnByOne'
  <1>1. ledger_used' \in Int /\ ledger_used \in Int /\ LedgerLimit \in Nat
    BY ParameterAssumption DEF TypeOK, CountersTypeOK
  <1>2. Cardinality(Outstanding') <= Cardinality(Outstanding) /\ Cardinality(Outstanding) \in Nat
        /\ Cardinality(Outstanding') \in Nat
    BY BookTypes, FS_Subset, FS_CardinalityType
  <1>3. LedgerLimit' = LedgerLimit
    OBVIOUS
  <1> QED
    BY <1>1, <1>2 DEF OverdrawnByOne

LEMMA InitBooks == Init => Books
  <1> SUFFICES ASSUME Init PROVE Books
    OBVIOUS
  <1>1. admit_next = 0 /\ \A g \in Charging : TicketOf(g) \in Nat
    BY TicketOrder DEF Init
  <1>2. Charged = {} /\ Outstanding = {} /\ Charged \ Repaid = {}
    BY <1>1 DEF Charged, Outstanding
  <1>3. SumOver(Bytes, {}) = 0 /\ Cardinality({}) = 0
    BY SumEmpty, FS_EmptySet
  <1>4. SumBytes(Outstanding) = 0 /\ SumBytes(Charged \ Repaid) = 0
    BY <1>2, <1>3 DEF SumBytes, SumOver
  <1>5. OverdrawnByOne
    BY <1>2, <1>3 DEF OverdrawnByOne
  <1>6. others \in Nat
    BY ParameterAssumption DEF Init
  <1> QED
    BY <1>4, <1>5, <1>6 DEF Init, Books, LedgerKept

\* A charge is added to the window, the ticket and the ledger in one step, that
\* no other row group was outstanding for if it overdraws.
LEMMA TakeBooks ==
    ASSUME AdmissionInv, TypeOK', AdmittedFirst, Books, NEW r \in Readers, AdmitTake(r)
    PROVE  Books'
  <1> DEFINE u == Units[unit[r]]  rg == Units[unit[r]].rg
  <1>0. TypeOK /\ rpc[r] = "take" /\ unit[r] \in DOMAIN Units /\ UNCHANGED worker_vars
        /\ UNCHANGED <<phase, resident, others>> /\ Next
    BY DEF AdmissionInv, TypeOK, AdmitTake, ReadersTypeOK, OnUnit, page_vars, Reader, Next
  <1>1. /\ First(unit[r]) /\ u.ticket = admit_next /\ out[r] >= submitted - released
        /\ u.charge \in Nat /\ out[r] \in Nat
    BY <1>0, UnitFields DEF AdmissionInv, InTurn, TypeOK, ReadersTypeOK
  <1>2. phase \notin {"abandoned", "destroyed"} /\ ledger_held = SumBytes(Charged \ Repaid)
    BY <1>0 DEF Books, LedgerKept, ReadersJoined
  <1>3. CASE UNCHANGED <<window_vars, ledger_held, ledger_used>>
    <2>1. Charged' = Charged
      BY <1>3 DEF Charged, window_vars
    <2>2. Returned' = Returned /\ Repaid' = Repaid
      BY <1>0, <2>1, ReturnedAlone
    <2>3. Outstanding' = Outstanding /\ Charged' \ Repaid' = Charged \ Repaid
      BY <2>1, <2>2 DEF Outstanding
    <2> QED
      BY <1>0, <1>2, <1>3, <2>3 DEF Books, LedgerKept, OverdrawnByOne, SumBytes, window_vars
  <1>4. CASE /\ ~Refused(u, out[r])
             /\ ledger_used' = ledger_used + u.charge
             /\ ledger_held' = ledger_held + u.charge
             /\ submitted' = submitted + u.charge
             /\ admit_next' = u.ticket + 1
             /\ UNCHANGED released
    <2>1. Charged' = Charged \cup {rg} /\ rg \in Charging \ Charged
      BY <1>0, <1>1, <1>4, BookTypes, ChargeMoves
    <2>2. Returned' = Returned /\ Repaid' = Repaid
      BY <1>0, <2>1, ReturnedAlone
    <2>3. /\ Outstanding' = Outstanding \cup {rg} /\ rg \in RowGroups \ Outstanding
          /\ Charged' \ Repaid' = (Charged \ Repaid) \cup {rg}
          /\ rg \in RowGroups \ (Charged \ Repaid)
      BY <2>1, <2>2, ChargedTypes DEF Outstanding
    <2>4. Bytes[rg] = u.charge
      BY <1>0, <1>1, BytesOfFirst
    <2>5. SumOver(Bytes, Outstanding \cup {rg}) = SumOver(Bytes, Outstanding) + u.charge
      BY <2>3, <2>4, GroupSums, ChargedTypes
    <2>6. SumOver(Bytes, (Charged \ Repaid) \cup {rg}) = SumOver(Bytes, Charged \ Repaid) + u.charge
      BY <2>3, <2>4, GroupSums, ChargedTypes
    <2>7. SumBytes(Outstanding)' = SumOver(Bytes, Outstanding) + u.charge
      BY <2>3, <2>5 DEF SumBytes, SumOver
    <2>8. SumBytes(Charged \ Repaid)' = SumOver(Bytes, Charged \ Repaid) + u.charge
      BY <2>3, <2>6 DEF SumBytes, SumOver
    <2>9. OverdrawnByOne'
      <3>1. CASE ledger_used + u.charge <= LedgerLimit
        BY <1>0, <1>1, <1>4, <3>1, BookTypes DEF OverdrawnByOne
      <3>2. CASE out[r] = 0
        <4>1. SumOver(Bytes, Outstanding) = 0
          BY <1>0, <1>1, <3>2, BookTypes DEF Books
        <4>2. Outstanding = {}
          BY <4>1, GroupSums, ChargedTypes
        <4>3. Outstanding' = {rg}
          BY <2>3, <4>2
        <4>4. Cardinality(Outstanding)' = 1
          BY <4>3, FS_Singleton
        <4> QED
          BY <4>4 DEF OverdrawnByOne
      <3> QED
        BY <1>0, <1>1, <1>4, <3>1, <3>2, BookTypes DEF Refused
    <2> QED
      BY <1>0, <1>1, <1>2, <1>4, <2>7, <2>8, <2>9, BookTypes DEF Books, LedgerKept
  <1> QED
    BY <1>3, <1>4 DEF AdmitTake

\* A reader thread's other steps leave the books alone; once it is all given back
\* there is no thread to take them.
LEMMA ReaderBooks ==
    ASSUME AdmissionInv, TypeOK', AdmittedFirst, Books, NEW r \in Readers, Reader(r)
    PROVE  Books'
  <1>0. TypeOK /\ Next
    BY DEF AdmissionInv, Next
  <1>1. CASE AdmitTake(r)
    BY <1>1, TakeBooks
  <1>2. CASE ~AdmitTake(r)
    <2>1. UNCHANGED <<phase, others, worker_vars, window_vars, ledger_vars>>
      BY <1>0, <1>2, ReaderFrames
    <2>2. rpc[r] # "exit"
      BY DEF Reader, Claim, GiveUp, AdmitFree, AdmitCheck, AdmitTake, ReadUnit, ReadFails,
             UnitDone, OpenGate, ProbeDone, FailLook, FailStore
    <2>3. phase \notin {"abandoned", "destroyed"} /\ ledger_held = SumBytes(Charged \ Repaid)
      BY <2>2 DEF Books, LedgerKept, ReadersJoined
    <2>4. Charged' = Charged
      BY <2>1 DEF Charged, window_vars
    <2>5. Returned' = Returned /\ Repaid' = Repaid
      BY <1>0, <2>1, <2>4, ReturnedAlone
    <2>6. Outstanding' = Outstanding /\ Charged' \ Repaid' = Charged \ Repaid
      BY <2>4, <2>5 DEF Outstanding
    <2> QED
      BY <2>1, <2>3, <2>6 DEF Books, LedgerKept, OverdrawnByOne, SumBytes, window_vars, ledger_vars
  <1> QED
    BY <1>1, <1>2

\* A worker gives back what its row group was charged, if it was, in two steps.
LEMMA WorkerBooks ==
    ASSUME TypeOK, TypeOK', AdmittedFirst, ReleasedOnce, Books, NEW w \in Workers, Worker(w)
    PROVE  Books'
  <1> DEFINE rg == wrg[w]
  <1>0. /\ UNCHANGED <<phase, others, admit_next, submitted>> /\ phase = "scanning"
        /\ Charged' = Charged
    BY WorkerFrames, WorkerStages DEF Charged
  <1>1. ledger_held = SumBytes(Charged \ Repaid)
    BY <1>0 DEF Books, LedgerKept
  <1>2. wpc[w] \in Releasing => /\ rg \in RowGroups /\ (rg \in Charged \/ Bytes[rg] = 0)
                                /\ Bytes[rg] \in Nat
    <2> SUFFICES ASSUME wpc[w] \in Releasing
                 PROVE  rg \in RowGroups /\ (rg \in Charged \/ Bytes[rg] = 0) /\ Bytes[rg] \in Nat
      OBVIOUS
    <2>1. rg \in RowGroups /\ rg_released[rg]
      BY DEF TypeOK, WorkersTypeOK, ReleasedOnce, Releasing
    <2> QED
      BY <2>1, BytesType DEF AdmittedFirst
  <1>3. CASE ReleaseWindow(w)
    <2>1. /\ released' = released + Bytes[rg] /\ UNCHANGED <<ledger_held, ledger_used>>
          /\ wpc[w] \in Releasing
      BY <1>2, <1>3, BytesType DEF ReleaseWindow, ledger_vars, Releasing
    <2>2. Repaid' = Repaid /\ rg \in RowGroups \ Returned /\ Returned' = Returned \cup (Charged \cap {rg})
      BY <1>3, WindowReturns
    <2>3. SumOver(Bytes, Outstanding) = SumOver(Bytes, Outstanding') + Bytes[rg] /\ Outstanding' \subseteq Outstanding
      <3>1. CASE rg \in Charged
        <4>1. Outstanding' = Outstanding \ {rg} /\ rg \in Outstanding
          BY <1>0, <2>2, <3>1 DEF Outstanding
        <4>2. SumOver(Bytes, Outstanding) = Bytes[rg] + SumOver(Bytes, Outstanding \ {rg})
          BY <4>1, GroupSums, ChargedTypes
        <4>3. Outstanding \ {rg} \in SUBSET RowGroups
          BY ChargedTypes
        <4>4. SumOver(Bytes, Outstanding \ {rg}) \in Nat
          BY <4>3, GroupSums
        <4> QED
          BY <1>2, <2>1, <4>1, <4>2, <4>4
      <3>2. CASE rg \notin Charged
        <4>1. Outstanding' = Outstanding /\ Bytes[rg] = 0
          BY <1>0, <1>2, <2>1, <2>2, <3>2 DEF Outstanding
        <4> QED
          BY <4>1, BookTypes
      <3> QED
        BY <3>1, <3>2
    <2>4. submitted' - released' = SumOver(Bytes, Outstanding')
      <3>1. Outstanding' \in SUBSET RowGroups
        BY <2>3, ChargedTypes
      <3>3. SumOver(Bytes, Outstanding') \in Nat
        BY <3>1, GroupSums
      <3>2. submitted - released = SumOver(Bytes, Outstanding)
        BY BookTypes DEF Books
      <3> QED
        BY <1>0, <1>2, <2>1, <2>3, <3>2, <3>3, BookTypes
    <2>5. SumBytes(Outstanding)' = SumOver(Bytes, Outstanding') /\ SumBytes(Charged \ Repaid)' = SumBytes(Charged \ Repaid)
      BY <1>0, <2>2 DEF SumBytes, SumOver
    <2>6. OverdrawnByOne'
      BY <2>1, <2>3, BookTypes, LessDrawn DEF Books
    <2> QED
      BY <1>0, <1>1, <2>1, <2>4, <2>5, <2>6 DEF Books, LedgerKept
  <1>4. CASE ReleaseLedger(w)
    <2>1. /\ ledger_used' = ledger_used - Bytes[rg] /\ ledger_held' = ledger_held - Bytes[rg]
          /\ wpc[w] \in Releasing /\ released' = released
      BY <1>2, <1>4, BytesType DEF ReleaseLedger, Repay, window_vars, Releasing
    <2>2. Returned' = Returned /\ rg \in RowGroups \ Repaid /\ Repaid' = Repaid \cup (Charged \cap {rg})
      BY <1>4, LedgerReturns
    <2>3. SumOver(Bytes, Charged \ Repaid) = SumOver(Bytes, Charged' \ Repaid') + Bytes[rg]
      <3>1. CASE rg \in Charged
        <4>1. Charged' \ Repaid' = (Charged \ Repaid) \ {rg} /\ rg \in Charged \ Repaid
          BY <1>0, <2>2, <3>1
        <4>2. SumOver(Bytes, Charged \ Repaid) = Bytes[rg] + SumOver(Bytes, (Charged \ Repaid) \ {rg})
          BY <4>1, GroupSums, ChargedTypes
        <4>3. (Charged \ Repaid) \ {rg} \in SUBSET RowGroups
          BY ChargedTypes
        <4>4. SumOver(Bytes, (Charged \ Repaid) \ {rg}) \in Nat
          BY <4>3, GroupSums
        <4>5. SumOver(Bytes, Charged' \ Repaid') = SumOver(Bytes, (Charged \ Repaid) \ {rg})
          BY <4>1
        <4> QED
          BY <1>2, <2>1, <4>2, <4>4, <4>5
      <3>2. CASE rg \notin Charged
        <4>1. Charged' \ Repaid' = Charged \ Repaid /\ Bytes[rg] = 0
          BY <1>0, <1>2, <2>1, <2>2, <3>2
        <4> QED
          BY <4>1, BookTypes
      <3> QED
        BY <3>1, <3>2
    <2>4. ledger_held' = SumOver(Bytes, Charged' \ Repaid')
      <3>1. Charged' \ Repaid' \in SUBSET RowGroups
        BY <1>0, ChargedTypes
      <3>3. SumOver(Bytes, Charged' \ Repaid') \in Nat
        BY <3>1, GroupSums
      <3>2. ledger_held = SumOver(Bytes, Charged \ Repaid)
        BY <1>1, BookTypes
      <3> QED
        BY <1>2, <2>1, <2>3, <3>2, <3>3
    <2>5. /\ SumBytes(Outstanding)' = SumBytes(Outstanding) /\ Outstanding' = Outstanding
          /\ SumBytes(Charged \ Repaid)' = SumOver(Bytes, Charged' \ Repaid')
      BY <1>0, <2>2 DEF SumBytes, SumOver, Outstanding
    <2>6. ledger_used' <= ledger_used /\ ledger_used' = ledger_held' + others
      BY <1>2, <2>1, BookTypes DEF Books
    <2>7. OverdrawnByOne'
      BY <2>5, <2>6, LessDrawn DEF Books
    <2> QED
      BY <1>0, <2>1, <2>4, <2>5, <2>6, <2>7 DEF Books, LedgerKept
  <1>5. CASE ~ReleaseWindow(w) /\ ~ReleaseLedger(w)
    <2>1. Returned' = Returned /\ Repaid' = Repaid
      BY <1>5, ReturnedSame
    <2>2. Outstanding' = Outstanding /\ Charged' \ Repaid' = Charged \ Repaid
      BY <1>0, <2>1 DEF Outstanding
    <2>3. UNCHANGED <<released, ledger_vars>>
      BY <1>5, WorkerFrames
    <2> QED
      BY <1>0, <1>1, <2>2, <2>3 DEF Books, LedgerKept, OverdrawnByOne, SumBytes, ledger_vars
  <1> QED
    BY <1>3, <1>4, <1>5

\* The teardown gives back the rest of what the ledger holds.
LEMMA QueryBooks ==
    ASSUME TypeOK, TypeOK', AdmittedFirst, Books, Query \/ OthersDraw
    PROVE  Books'
  <1>1. Charged' = Charged /\ UNCHANGED <<worker_vars, reader_vars, window_vars>> /\ Next
    BY QueryFrames DEF Charged, window_vars, Next
  <1>2. Returned' = Returned /\ Repaid' = Repaid
    BY <1>1, ReturnedAlone
  <1>3. /\ Outstanding' = Outstanding /\ Charged' \ Repaid' = Charged \ Repaid
        /\ SumBytes(Outstanding)' = SumBytes(Outstanding)
        /\ SumBytes(Charged \ Repaid)' = SumBytes(Charged \ Repaid)
    BY <1>1, <1>2 DEF Outstanding, SumBytes
  <1>4. submitted' - released' = SumBytes(Outstanding)'
    BY <1>1, <1>3 DEF Books, window_vars
  <1>5. ledger_held >= 0
    BY BookTypes DEF Books, LedgerKept
  <1>6. CASE ReadDictionaries \/ ReleasePruned \/ EndScan \/ EndRerun
    <2>1. UNCHANGED ledger_vars
      BY <1>6 DEF ReadDictionaries, ReleasePruned, EndScan, EndRerun
    <2>2. LedgerKept'
      <3>1. CASE ReadDictionaries \/ ReleasePruned \/ EndScan
        BY <1>3, <2>1, <3>1 DEF ReadDictionaries, ReleasePruned, EndScan, Phase, Books, LedgerKept, ledger_vars
      <3>2. CASE EndRerun
        BY <1>1, <2>1, <3>2 DEF EndRerun, Phase, Books, LedgerKept, ledger_vars, page_vars, ReadersJoined, reader_vars
      <3> QED
        BY <1>6, <3>1, <3>2
    <2> QED
      BY <1>3, <1>4, <2>1, <2>2 DEF Books, OverdrawnByOne, ledger_vars
  <1>7. CASE Abandon \/ Destroy
    <2>1. /\ ledger_held' = ledger_held - ledger_held /\ ledger_used' = ledger_used - ledger_held
          /\ others' = others /\ resident' = {} /\ ReadersJoined
          /\ phase' \in {"abandoned", "destroyed"}
      BY <1>7 DEF Abandon, Destroy, GiveBack, Repay, Phase
    <2>2. ledger_held' = 0 /\ ledger_used' = ledger_held' + others' /\ ledger_used' <= ledger_used
      BY <1>5, <2>1, BookTypes DEF Books
    <2>3. LedgerKept'
      BY <1>1, <2>1, <2>2 DEF LedgerKept, ReadersJoined, reader_vars
    <2>4. OverdrawnByOne'
      BY <1>3, <2>2, LessDrawn DEF Books
    <2> QED
      BY <1>4, <2>2, <2>3, <2>4 DEF Books
  <1>8. CASE OthersDraw
    <2>1. /\ UNCHANGED <<phase, ledger_held, resident>>
          /\ ledger_used' = ledger_used + (others' - others)
          /\ others' < others \/ ledger_used' <= LedgerLimit
          /\ others' \in Nat
      BY <1>8, ParameterAssumption DEF OthersDraw, page_vars
    <2>2. ledger_used' = ledger_held' + others'
      BY <2>1, BookTypes DEF Books
    <2>3. OverdrawnByOne'
      <3>1. CASE others' < others
        <4>1. ledger_used' <= ledger_used
          BY <2>1, <3>1, BookTypes
        <4> QED
          BY <1>3, <4>1, LessDrawn DEF Books
      <3>2. CASE ledger_used' <= LedgerLimit
        <4>1. ledger_used' \in Int /\ LedgerLimit \in Nat
          BY ParameterAssumption DEF TypeOK, CountersTypeOK
        <4> QED
          BY <3>2, <4>1 DEF OverdrawnByOne
      <3> QED
        BY <2>1, <3>1, <3>2
    <2>4. LedgerKept'
      BY <1>1, <1>3, <2>1 DEF Books, LedgerKept, ReadersJoined, reader_vars
    <2> QED
      BY <1>4, <2>2, <2>3, <2>4 DEF Books
  <1> QED
    BY <1>6, <1>7, <1>8 DEF Query

-----------------------------------------------------------------------------
(* A scan that reads everything.                                           *)

\* A worker that failed ends, and stays failed.
LEMMA ErrorsKept ==
    ASSUME TypeOK, ErrorsEnd, [Next]_vars
    PROVE  ErrorsEnd' /\ \A w \in Workers : werr[w] => werr'[w]
  <1>1. ASSUME NEW w \in Workers, Worker(w)
        PROVE  /\ werr'[w] => wpc'[w] \notin {"claim", "wait"} \cup PastGate
               /\ werr[w] => werr'[w]
    <2> USE DEF WGoto, TypeOK, WorkersTypeOK, ErrorsEnd, PastGate
    <2>1. CASE WorkerClaim(w) \/ WorkerQuit(w)
      BY <2>1 DEF WorkerClaim, WorkerQuit
    <2>2. CASE WorkerWait(w) \/ WorkerWaitProbe(w) \/ WorkerScan(w)
      BY <2>2 DEF WorkerWait, WorkerWaitProbe, WorkerScan, AwaitGate
    <2>3. CASE GateDone(w)
      BY <2>3 DEF GateDone, Onward
    <2>4. CASE ReleasePages(w) \/ ReleaseWindow(w) \/ ReleaseLedger(w)
      BY <2>4 DEF ReleasePages, ReleaseWindow, ReleaseLedger, Onward
    <2> QED
      BY <1>1, <2>1, <2>2, <2>3, <2>4 DEF Worker
  <1>2. ASSUME NEW w \in Workers
        PROVE  /\ werr'[w] => wpc'[w] \notin {"claim", "wait"} \cup PastGate
               /\ werr[w] => werr'[w]
    <2>1. CASE Worker(w)
      BY <1>1, <2>1
    <2>2. CASE wpc'[w] = wpc[w] /\ werr'[w] = werr[w]
      BY <2>2 DEF ErrorsEnd
    <2> QED
      BY <2>1, <2>2, ReaderFrames, WorkerFrames, QueryFrames DEF Next, Done, vars, worker_vars
  <1> QED
    BY <1>2 DEF ErrorsEnd

\* A reader thread that failed has a gate it is at.
LEMMA FailureStays ==
    ASSUME TypeOK, [Next]_vars, NoReadFailed'
    PROVE  NoReadFailed /\ \A r \in Readers : ~ReadFails(r)
  <1>1. ASSUME NEW r \in Readers, Reader(r) PROVE failing[r] = 0 /\ ~ReadFails(r)
    <2>1. failing'[r] = 0 /\ failing[r] \in Nat
      BY DEF NoReadFailed, TypeOK, ReadersTypeOK
    <2>2. CASE ReadFails(r)
      BY <2>1, <2>2 DEF ReadFails, TypeOK, ReadersTypeOK
    <2>3. CASE FailLook(r) \/ FailStore(r)
      BY <2>1, <2>3 DEF FailLook, FailStore, ReadFails, TypeOK, ReadersTypeOK
    <2>4. CASE ~ReadFails(r) /\ failing' = failing
      BY <2>1, <2>4
    <2>5. failing' = failing \/ ReadFails(r) \/ FailLook(r) \/ FailStore(r)
      BY <1>1 DEF Reader, Claim, GiveUp, AdmitFree, AdmitCheck, AdmitTake, ReadUnit, UnitDone,
                  OpenGate, ProbeDone
    <2> QED
      BY <2>2, <2>3, <2>4, <2>5
  <1>2. ASSUME NEW r \in Readers PROVE failing[r] = 0
    <2>1. CASE Reader(r)
      BY <1>1, <2>1
    <2>2. CASE failing'[r] = failing[r]
      BY <2>2 DEF NoReadFailed
    <2> QED
      BY <2>1, <2>2, ReaderFrames, WorkerFrames, QueryFrames DEF Next, Done, vars, reader_vars
  <1>3. ASSUME NEW r \in Readers, ReadFails(r) PROVE FALSE
    BY <1>1, <1>3 DEF Reader
  <1> QED
    BY <1>2, <1>3 DEF NoReadFailed

\* Then no gate fails, and one that was passed stays open.
LEMMA GatesStayOpen ==
    ASSUME TypeOK, NothingFailed, [Next]_vars, NoReadFailed'
    PROVE  /\ \A r \in Readers : rpc'[r] \notin {"fail", "failstore"}
           /\ \A g \in Gates : ready'[g] # 2
           /\ \A g \in Gates : ready[g] = 1 => ready'[g] = 1
  <1>1. NoReadFailed /\ \A r \in Readers : ~ReadFails(r)
    BY FailureStays
  <1>2. \A r \in Readers : rpc[r] \notin {"fail", "failstore"}
    BY <1>1 DEF NothingFailed
  <1>3. \A r \in Readers : rpc'[r] \notin {"fail", "failstore"}
    BY <1>1, <1>2, ReaderSteps, ReaderFrames, WorkerFrames, QueryFrames
       DEF Next, Done, vars, reader_vars
  <1>4. ready' = ready \/ \E r \in Readers : OpenGate(r)
    <2>1. \A r \in Readers : ~FailStore(r)
      BY <1>2 DEF FailStore
    <2> QED
      BY <2>1, ReaderFrames, WorkerFrames, QueryFrames DEF Next, Done, vars, gate_vars
  <1>5. ASSUME NEW r \in Readers, OpenGate(r), NEW g \in Gates
        PROVE  ready'[g] # 2 /\ (ready[g] = 1 => ready'[g] = 1)
    BY <1>1, <1>5 DEF OpenGate, NothingFailed, TypeOK, GatesTypeOK
  <1> QED
    BY <1>1, <1>3, <1>4, <1>5 DEF NothingFailed

LEMMA NothingFailedKept ==
    ASSUME TypeOK, TypeOK', ReleasedOnce, NothingFailed, ErrorsEnd, [Next]_vars
    PROVE  NothingFailed'
  <1> SUFFICES ASSUME NoReadFailed' PROVE NothingFailed'
    BY DEF NothingFailed
  <1>1. NoReadFailed
    BY FailureStays
  <1>2. \A rg \in RowGroups : rg \in Gates
    BY LayoutAssumption DEF RowGroups, Gates
  <1>3. ASSUME NEW w \in Workers,
               wpc'[w] \in PastGate \/ (wpc'[w] = "done" /\ wrg'[w] \notin Pruned /\ ~werr'[w])
        PROVE  ready'[wrg'[w]] = 1
    <2>1. CASE Worker(w)
      <3> USE DEF WGoto, TypeOK, WorkersTypeOK, PastGate
      <3>1. ready' = ready
        BY <2>1, WorkerFrames DEF gate_vars
      <3>2. CASE WorkerClaim(w)
        BY <1>3, <3>2 DEF WorkerClaim
      <3>3. CASE WorkerWait(w)
        BY <1>3, <3>1, <3>3 DEF WorkerWait, AwaitGate
      <3>4. CASE WorkerWaitProbe(w)
        BY <1>1, <1>3, <3>1, <3>4 DEF WorkerWaitProbe, AwaitGate, NothingFailed
      <3>5. CASE WorkerScan(w)
        BY <1>1, <1>3, <3>1, <3>5 DEF WorkerScan, NothingFailed
      <3>6. CASE WorkerQuit(w) \/ GateDone(w) \/ ReleasePages(w) \/ ReleaseWindow(w) \/ ReleaseLedger(w)
        BY <1>3, <3>6 DEF WorkerQuit, GateDone, ReleasePages, ReleaseWindow, ReleaseLedger, Onward
      <3> QED
        BY <2>1, <3>2, <3>3, <3>4, <3>5, <3>6 DEF Worker
    <2>2. CASE wpc'[w] = wpc[w] /\ wrg'[w] = wrg[w] /\ werr'[w] = werr[w]
      <3>1. wrg[w] \in Gates
        BY <1>2, <1>3, <2>2 DEF TypeOK, WorkersTypeOK, PastGate
      <3> QED
        BY <1>1, <1>3, <2>2, <3>1, GatesStayOpen DEF NothingFailed
    <2> QED
      BY <2>1, <2>2, ReaderFrames, WorkerFrames, QueryFrames DEF Next, Done, vars, worker_vars
  <1>4. ASSUME \A w \in Workers : ~werr'[w], NEW rg \in Charging, items_done'[rg] >= Items
        PROVE  rg_released'[rg]
    <2>1. \A w \in Workers : ~werr[w]
      BY <1>4, ErrorsKept
    <2>2. rg \in RowGroups /\ rg \notin Pruned
      BY RowGroupAssumption DEF Charging
    <2>3. CASE items_done[rg] >= Items
      BY <1>1, <2>1, <2>2, <2>3, ReleasedGrows DEF NothingFailed
    <2>4. CASE ~(items_done[rg] >= Items)
      <3>1. PICK w \in Workers : GateDone(w)
        <4>1. items_done' # items_done
          BY <1>4, <2>4
        <4> QED
          BY <4>1, ReaderFrames, WorkerFrames, QueryFrames DEF Next, Done, vars, scan_vars
      <3>2. /\ wpc[w] = "done" /\ wrg[w] \in RowGroups
            /\ items_done' = [items_done EXCEPT ![wrg[w]] = @ + 1]
        BY <3>1 DEF GateDone, TypeOK, WorkersTypeOK
      <3>3. wrg[w] = rg /\ items_done[rg] + 1 = Items
        <4>1. items_done[rg] \in Nat /\ items_done' \in [RowGroups -> Nat] /\ Items \in Nat
          BY <2>2, ParameterAssumption DEF TypeOK, GatesTypeOK
        <4>2. wrg[w] = rg
          BY <1>4, <2>2, <2>4, <3>2 DEF TypeOK, GatesTypeOK
        <4>3. items_done'[rg] = items_done[rg] + 1
          BY <2>2, <3>2, <4>2 DEF TypeOK, GatesTypeOK
        <4> QED
          BY <1>4, <2>4, <4>1, <4>2, <4>3
      <3>4. ready[rg] = 1
        BY <1>1, <2>1, <2>2, <3>2, <3>3 DEF NothingFailed
      <3> QED
        BY <2>2, <3>1, <3>3, <3>4 DEF GateDone, TypeOK, GatesTypeOK
    <2> QED
      BY <2>3, <2>4
  <1> QED
    BY <1>3, <1>4, GatesStayOpen DEF NothingFailed

-----------------------------------------------------------------------------
LEMMA AccountsInvHolds == Spec => []AccountsInv
  <1>1. Init => AccountsInv
    <2> SUFFICES ASSUME Init PROVE AccountsInv
      OBVIOUS
    <2>1. ReleasedOnce /\ ErrorsEnd
      BY DEF Init, ReleasedOnce, ErrorsEnd, Releasing
    <2>2. NothingFailed
      <3>1. \A g \in Gates : ready[g] # 2
        BY DEF Init
      <3>2. \A w \in Workers : wpc[w] = "claim"
        BY DEF Init
      <3>3. \A rg \in Charging : ~(items_done[rg] >= Items)
        BY ParameterAssumption DEF Init, Charging
      <3>4. \A r \in Readers : rpc[r] = "claim"
        BY DEF Init
      <3> QED
        BY <3>1, <3>2, <3>3, <3>4 DEF NothingFailed, PastGate
    <2> QED
      BY <2>1, <2>2, InitAdmission, InitAdmitted, InitBooks DEF AccountsInv
  <1>2. AccountsInv /\ [Next]_vars => AccountsInv'
    <2> SUFFICES ASSUME AccountsInv, [Next]_vars PROVE AccountsInv'
      OBVIOUS
    <2>0. TypeOK
      BY DEF AccountsInv, AdmissionInv
    <2>1. AdmissionInv'
      BY NextAdmission DEF AccountsInv
    <2>2. TypeOK'
      BY <2>1 DEF AdmissionInv
    <2>3. AdmittedFirst'
      BY AdmittedKept DEF AccountsInv
    <2>4. ReleasedOnce'
      BY <2>0, <2>2, ReleasedKept DEF AccountsInv
    <2>5. NothingFailed' /\ ErrorsEnd'
      BY <2>0, <2>2, NothingFailedKept, ErrorsKept DEF AccountsInv
    <2>6. Books'
      <3>1. CASE UNCHANGED vars
        BY <3>1 DEF vars, window_vars, ledger_vars, worker_vars, scan_vars, page_vars, reader_vars,
                    AccountsInv, Books, LedgerKept, OverdrawnByOne, SumBytes, Outstanding, Charged,
                    Returned, Repaid, InRelease, ReadersJoined
      <3>2. CASE Next
        BY <2>0, <2>2, <3>1, <3>2, ReaderBooks, WorkerBooks, QueryBooks DEF Next, Done, AccountsInv
      <3> QED
        BY <3>1, <3>2
    <2> QED
      BY <2>1, <2>3, <2>4, <2>5, <2>6 DEF AccountsInv
  <1> QED
    BY <1>1, <1>2, PTL DEF Spec

\* The window's and the ledger's counters are, at every step of the threads that
\* draw on them and give back (Reader.admit, File.release), the sums of what the
\* row groups hold; one row group alone ever overdraws the ledger; and what the
\* reader drew is all given back, by the gates alone when everything was read,
\* and by giveBackLedger otherwise.
THEOREM BooksBalance == Spec => []AccountsBalance
  <1>1. AccountsInv => AccountsBalance
    <2> SUFFICES ASSUME AccountsInv PROVE AccountsBalance
      OBVIOUS
    <2>0. TypeOK
      BY DEF AccountsInv, AdmissionInv
    <2>1. CountersAgree /\ OverdrawnByOne
      BY DEF AccountsInv, Books, LedgerKept, CountersAgree
    <2>2. AllGivenBack
      BY <2>0, BookTypes DEF AccountsInv, Books, LedgerKept, AllGivenBack
    <2>3. ASSUME phase = "destroying", Scanned PROVE ledger_held = 0 /\ submitted = released
      <3>1. ASSUME NEW rg \in Charging PROVE rg \in Returned /\ rg \in Repaid
        <4>1. PICK k \in DOMAIN Work : Work[k] = rg
          BY RowGroupAssumption DEF Charging
        <4>2. items_done[rg] >= Items
          BY <2>3, <4>1, ParameterAssumption DEF Scanned
        <4>3. rg_released[rg] /\ rg \in Charged
          BY <2>3, <4>2 DEF Scanned, AccountsInv, NothingFailed, AdmittedFirst
        <4>4. \A w \in Workers : wpc[w] \in {"claim", "exit"}
          BY <2>3 DEF AccountsInv, ReleasedOnce
        <4> QED
          BY <4>3, <4>4 DEF Returned, Repaid, InRelease
      <3>2. Outstanding = {} /\ Charged \ Repaid = {}
        BY <3>1, ChargedTypes DEF Outstanding
      <3>3. SumBytes(Outstanding) = 0 /\ SumBytes(Charged \ Repaid) = 0
        BY <3>2, SumEmpty DEF SumBytes, SumOver
      <3> QED
        BY <2>0, <3>3, BookTypes DEF AccountsInv, Books, LedgerKept
    <2> QED
      BY <2>1, <2>2, <2>3 DEF AccountsBalance, GatesGaveBack
  <1> QED
    BY <1>1, AccountsInvHolds, PTL
-----------------------------------------------------------------------------
\* The abstract window counts its bytes as the reader does.
LEMMA WindowBytes ==
    /\ RGW!Outstanding = Outstanding
    /\ RGW!OutstandingBytes = SumOver(Bytes, Outstanding)
  <1>1. RGW!Outstanding = Outstanding
    BY DEF RGW!Outstanding, Outstanding
  <1>2. RGW!OutstandingBytes = PartialSums(Bytes, RGW!Outstanding)[RGW!Outstanding]
    BY DEF RGW!OutstandingBytes, RGW!SumFunctionOnSet, RGW!FoldFunctionOnSet,
           RGW!MapThenFoldSet, PartialSums, SumStep, Pick
  <1> QED
    BY <1>1, <1>2, SumIsPartial

-----------------------------------------------------------------------------
(* Gates and what can be counted of them.                                  *)

\* A gate is a row group's or a file's probes', and counts the reads behind it.
LEMMA GateFacts ==
    /\ RowGroups \subseteq Gates
    /\ \A f \in FileIds : ProbeGate(f) \in Gates \ RowGroups
    /\ \A rg \in RowGroups : UnitsOf(rg) = {u \in DOMAIN Units : GateOf(u) = rg}
    /\ \A f \in FileIds : ProbesOf(f) = {u \in DOMAIN Units : GateOf(u) = ProbeGate(f)}
    /\ \A g \in Gates \ RowGroups : \E f \in FileIds : g = ProbeGate(f)
  <1>0. NumRG \in Nat /\ NumFiles \in Nat
    BY LayoutAssumption
  <1>1. RowGroups \subseteq Gates /\ \A f \in FileIds : ProbeGate(f) \in Gates \ RowGroups
    BY <1>0 DEF RowGroups, FileIds, Gates, ProbeGate
  <1>2. ASSUME NEW g \in Gates \ RowGroups PROVE \E f \in FileIds : g = ProbeGate(f)
    <2>1. g - NumRG \in FileIds /\ g = ProbeGate(g - NumRG)
      BY <1>0 DEF RowGroups, FileIds, Gates, ProbeGate
    <2> QED
      BY <2>1
  <1>3. \A u \in DOMAIN Units : Units[u].file \in FileIds /\ Units[u].rg \in RowGroups
                                /\ Units[u].probe \in BOOLEAN
    BY UnitFields
  <1>4. ASSUME NEW rg \in RowGroups PROVE UnitsOf(rg) = {u \in DOMAIN Units : GateOf(u) = rg}
    <2>1. \A u \in DOMAIN Units : Units[u].probe => GateOf(u) # rg
      BY <1>1, <1>3 DEF GateOf
    <2>2. \A u \in DOMAIN Units : ~Units[u].probe => GateOf(u) = Units[u].rg
      BY DEF GateOf
    <2> QED
      BY <2>1, <2>2 DEF UnitsOf
  <1>5. ASSUME NEW f \in FileIds
        PROVE  ProbesOf(f) = {u \in DOMAIN Units : GateOf(u) = ProbeGate(f)}
    <2>1. \A u \in DOMAIN Units : ~Units[u].probe => GateOf(u) # ProbeGate(f)
      BY <1>1, <1>3 DEF GateOf
    <2>2. \A h \in FileIds : ProbeGate(h) = ProbeGate(f) => h = f
      BY <1>0 DEF ProbeGate, FileIds
    <2>3. \A u \in DOMAIN Units : Units[u].probe => (GateOf(u) = ProbeGate(f) <=> Units[u].file = f)
      BY <1>3, <2>2 DEF GateOf
    <2> QED
      BY <2>1, <2>3 DEF ProbesOf
  <1> QED
    BY <1>1, <1>2, <1>4, <1>5

\* Sets of reads, and of work items, count as they should.
LEMMA UnitCounts ==
    \A T \in SUBSET DOMAIN Units :
        /\ Cardinality(T) \in Nat
        /\ T # {} => Cardinality(T) >= 1
        /\ \A S \in SUBSET T : Cardinality(S) <= Cardinality(T)
        /\ \A u \in T : Cardinality(T \ {u}) = Cardinality(T) - 1
  <1> SUFFICES ASSUME NEW T \in SUBSET DOMAIN Units
               PROVE  /\ Cardinality(T) \in Nat
                      /\ T # {} => Cardinality(T) >= 1
                      /\ \A S \in SUBSET T : Cardinality(S) <= Cardinality(T)
                      /\ \A u \in T : Cardinality(T \ {u}) = Cardinality(T) - 1
    OBVIOUS
  <1>1. IsFiniteSet(T) /\ Cardinality(T) \in Nat
    BY FiniteLayout, FS_Subset
  <1>2. \A S \in SUBSET T : Cardinality(S) <= Cardinality(T)
    BY <1>1, FS_Subset
  <1>3. \A u \in T : Cardinality(T \ {u}) = Cardinality(T) - 1
    BY <1>1, FS_RemoveElement
  <1>4. T # {} => Cardinality(T) # 0
    BY <1>1, FS_EmptySet
  <1> QED
    BY <1>1, <1>2, <1>3, <1>4

\* Before anything is claimed every gate counts its reads.
LEMMA InitGates == Init => GateInv
  <1> SUFFICES ASSUME Init PROVE GateInv
    OBVIOUS
  <1>1. ASSUME NEW g \in Gates PROVE UnitsLeft(g) = Cardinality({u \in DOMAIN Units : GateOf(u) = g})
    <2>1. CASE g \in RowGroups
      BY <2>1, GateFacts DEF UnitsLeft
    <2>2. CASE g \notin RowGroups
      <3>1. PICK f \in FileIds : g = ProbeGate(f)
        BY <2>2, GateFacts
      <3>2. g - NumRG = f
        BY <3>1, LayoutAssumption DEF ProbeGate, FileIds
      <3> QED
        BY <2>2, <3>1, <3>2, GateFacts DEF UnitsLeft
    <2> QED
      BY <2>1, <2>2
  <1>2. ASSUME NEW g \in Gates PROVE left[g] >= Cardinality(Unread(g))
    <2> DEFINE all == {u \in DOMAIN Units : GateOf(u) = g}
    <2>1. Unread(g) \in SUBSET all /\ all \in SUBSET DOMAIN Units
      BY DEF Unread
    <2>2. left[g] = Cardinality(all)
      BY <1>1 DEF Init
    <2> QED
      BY <2>1, <2>2, UnitCounts
  <1>3. \A g \in Gates : ready[g] = 1 => left[g] = 0
    BY DEF Init
  <1>4. \A r \in Readers : rpc[r] = "claim"
    BY DEF Init
  <1>5. \A w \in Workers : wpc[w] = "claim"
    BY DEF Init
  <1>6. phase = "planning" /\ \A rg \in RowGroups : ~rg_released[rg]
    BY DEF Init
  <1> QED
    BY <1>2, <1>3, <1>4, <1>5, <1>6 DEF GateInv, CountsUnread, CountedDown, PastGate

-----------------------------------------------------------------------------
(* What is pending or missing becomes less.                                *)

\* Reads are claimed once, and counted off once.
LEMMA PendingShrinks ==
    ASSUME AdmissionInv, [Next]_vars
    PROVE  \A u \in DOMAIN Units : Pending(u)' => Pending(u)
  <1>0. TypeOK /\ next_unit \in Nat
    BY DEF AdmissionInv, TypeOK, ControlTypeOK
  <1> SUFFICES ASSUME NEW u \in DOMAIN Units, Pending(u)' PROVE Pending(u)
    OBVIOUS
  <1>1. u \in Nat
    BY UnitFields
  <1>2. CASE UNCHANGED <<next_unit, reader_vars>>
    BY <1>2 DEF Pending, reader_vars
  <1>3. ASSUME NEW r \in Readers, Reader(r) PROVE Pending(u)
    <2>1. CASE Claim(r)
      <3>1. CASE UNCHANGED <<next_unit, unit>>
        <4>1. rpc'[r] \notin InHand
          BY <1>0, <2>1, <3>1 DEF Claim, Goto, InHand, TypeOK, ReadersTypeOK, ControlTypeOK
        <4> QED
          BY <1>3, <3>1, <4>1, <1>0, ReaderFrames DEF Pending
      <3>2. CASE next_unit' = next_unit + 1 /\ unit' = [unit EXCEPT ![r] = next_unit]
        <4>1. unit'[r] = next_unit
          BY <1>0, <3>2 DEF TypeOK, ReadersTypeOK
        <4>2. u >= next_unit' => u >= next_unit
          BY <1>0, <1>1, <3>2
        <4> QED
          BY <1>0, <1>1, <1>3, <4>1, <4>2, ReaderFrames DEF Pending
      <3> QED
        BY <2>1, <3>1, <3>2 DEF Claim
    <2>2. CASE ~Claim(r)
      <3>1. next_unit' = next_unit /\ unit' = unit /\ (rpc'[r] \in InHand => rpc[r] \in InHand)
        <4> USE DEF Goto, InHand, TypeOK, ReadersTypeOK
        <4>1. CASE GiveUp(r) \/ AdmitFree(r) \/ AdmitCheck(r)
          BY <1>0, <4>1 DEF GiveUp, AdmitFree, AdmitCheck
        <4>2. CASE AdmitTake(r)
          BY <1>0, <4>2 DEF AdmitTake
        <4>3. CASE ReadUnit(r) \/ ReadFails(r) \/ UnitDone(r) \/ OpenGate(r) \/ ProbeDone(r)
          BY <1>0, <4>3 DEF ReadUnit, ReadFails, UnitDone, OpenGate, ProbeDone
        <4>4. CASE FailLook(r) \/ FailStore(r)
          BY <1>0, <4>4 DEF FailLook, FailStore
        <4> QED
          BY <1>3, <2>2, <4>1, <4>2, <4>3, <4>4 DEF Reader
      <3> QED
        BY <1>0, <1>3, <3>1, ReaderFrames DEF Pending
    <2> QED
      BY <2>1, <2>2
  <1> QED
    BY <1>0, <1>2, <1>3, WorkerFrames, QueryFrames DEF Next, Done, vars

LEMMA CountedOff ==
    ASSUME AdmissionInv, NEW r \in Readers, UnitDone(r)
    PROVE  ~Pending(unit[r])'
  <1>1. /\ rpc[r] = "done" /\ unit' = unit /\ next_unit' = next_unit
        /\ rpc'[r] \notin InHand /\ \A s \in Readers \ {r} : rpc'[s] = rpc[s]
    BY DEF UnitDone, Goto, InHand, AdmissionInv, TypeOK, ReadersTypeOK
  <1>2. unit[r] < next_unit /\ unit[r] \in Nat /\ next_unit \in Nat
    BY <1>1 DEF AdmissionInv, UnitsClaimedOnce, OnUnit, TypeOK, ReadersTypeOK, ControlTypeOK
  <1>3. \A s \in Readers : unit[s] = unit[r] /\ rpc[s] \in InHand => s = r
    BY <1>1 DEF AdmissionInv, UnitsClaimedOnce, OnUnit, InHand
  <1> QED
    BY <1>1, <1>2, <1>3 DEF Pending

\* Dropping takes from the counts of the pages, and drops only what nobody holds.
LEMMA DropFacts ==
    ASSUME TypeOK, NEW rgs \in SUBSET RowGroups, DropSegments(rgs)
    PROVE  /\ resident' \subseteq resident
           /\ \A p \in Pages :
                 /\ seg_refs[p] \in Int /\ Cardinality({rg \in rgs : p \in Holds[rg]}) \in Nat
                 /\ seg_refs'[p] = seg_refs[p] - Cardinality({rg \in rgs : p \in Holds[rg]})
           /\ \A p \in resident : p \notin resident' => seg_refs'[p] = 0
           /\ \A p \in resident' : seg_refs'[p] = 0 => seg_refs[p] = 0
  <1>1. \A p \in Pages : Cardinality({rg \in rgs : p \in Holds[rg]}) \in Nat
    BY FiniteLayout
  <1>2. \A p \in Pages : seg_refs[p] \in Int
    BY DEF TypeOK, PagesTypeOK
  <1> DEFINE refs == [p \in Pages |-> seg_refs[p] - Cardinality({rg \in rgs : p \in Holds[rg]})]
             touched == UNION {Holds[rg] : rg \in rgs}
  <1>3. seg_refs' = refs /\ resident' = resident \ {p \in touched : refs[p] = 0}
    BY DEF DropSegments
  <1>4. ASSUME NEW p \in resident', seg_refs'[p] = 0 PROVE seg_refs[p] = 0
    <2>1. p \in Pages /\ p \notin touched
      BY <1>3, <1>4 DEF TypeOK, PagesTypeOK
    <2>2. {rg \in rgs : p \in Holds[rg]} = {}
      BY <2>1
    <2>3. seg_refs'[p] = seg_refs[p] - Cardinality({rg \in rgs : p \in Holds[rg]})
      BY <1>3, <2>1
    <2>4. Cardinality({rg \in rgs : p \in Holds[rg]}) = 0
      BY <2>2, FS_EmptySet
    <2> QED
      BY <1>2, <1>4, <2>1, <2>3, <2>4
  <1> QED
    BY <1>1, <1>2, <1>3, <1>4 DEF TypeOK, PagesTypeOK

\* What is missing is read, or let go of; nothing goes missing that is held.
LEMMA MissingShrinks ==
    ASSUME TypeOK, ReleasedOnce, [Next]_vars
    PROVE  \A u \in DOMAIN Units : Missing(u)' => Missing(u)
  <1> SUFFICES ASSUME NEW u \in DOMAIN Units, Missing(u)' PROVE Missing(u)
    OBVIOUS
  <1>1. PICK p \in Units[u].pages \ resident' : seg_refs'[p] > 0 \/ phase' # "scanning"
    BY DEF Missing
  <1>2. p \in Pages /\ phase' \in Before
    BY <1>1, UnitFields DEF Missing
  <1>3. ASSUME NEW r \in Readers, Reader(r) PROVE Missing(u)
    <2>1. phase' = phase /\ seg_refs' = seg_refs /\ resident \subseteq resident'
      BY <1>3, ReaderFrames DEF ReadUnit
    <2> QED
      BY <1>1, <1>2, <2>1 DEF Missing
  <1>4. ASSUME NEW rgs \in SUBSET RowGroups, DropSegments(rgs), phase' = "scanning",
               phase \in Before
        PROVE  Missing(u)
    <2> DEFINE n == Cardinality({rg \in rgs : p \in Holds[rg]})
    <2>1. n \in Nat /\ seg_refs[p] \in Int /\ seg_refs'[p] = seg_refs[p] - n
      BY <1>2, <1>4, DropFacts
    <2> HIDE DEF n
    <2>2. seg_refs'[p] > 0 /\ seg_refs'[p] # 0 /\ seg_refs[p] > 0
      BY <1>1, <1>4, <2>1
    <2>3. p \notin resident
      BY <1>1, <1>2, <1>4, <2>2, DropFacts
    <2> QED
      BY <1>1, <1>4, <2>2, <2>3 DEF Missing
  <1>5. ASSUME NEW w \in Workers, Worker(w) PROVE Missing(u)
    <2>1. phase' = phase /\ phase = "scanning"
      BY <1>5, WorkerStages, WorkerFrames
    <2>2. CASE ReleasePages(w)
      <3>1. DropSegments({wrg[w]}) /\ {wrg[w]} \in SUBSET RowGroups
        BY <2>2 DEF ReleasePages, TypeOK, WorkersTypeOK
      <3> QED
        BY <1>4, <2>1, <3>1 DEF Before
    <2>3. CASE UNCHANGED page_vars
      BY <1>1, <1>2, <2>1, <2>3 DEF Missing, page_vars
    <2> QED
      BY <1>5, <2>2, <2>3, WorkerFrames
  <1>6. CASE ReleasePruned
    <2>1. phase' = "scanning" /\ phase \in Before
      BY <1>6 DEF ReleasePruned, Phase, Before
    <2>2. \E rgs \in SUBSET RowGroups : DropSegments(rgs)
      BY <1>6, ParameterAssumption DEF ReleasePruned
    <2> QED
      BY <1>4, <2>1, <2>2
  <1>7. CASE /\ UNCHANGED page_vars
             /\ phase' \in Before => phase = phase' \/ phase = "planning"
    BY <1>1, <1>2, <1>7 DEF Missing, page_vars, Before
  <1>8. Abandon \/ Destroy => phase' \notin Before
    BY DEF Abandon, Destroy, Phase, Before
  <1>9. ReadDictionaries \/ EndScan \/ EndRerun \/ OthersDraw \/ UNCHANGED vars =>
           /\ UNCHANGED page_vars
           /\ phase' \in Before => phase = phase' \/ phase = "planning"
    BY DEF ReadDictionaries, EndScan, EndRerun, OthersDraw, vars, Phase, Before
  <1> QED
    BY <1>2, <1>3, <1>5, <1>6, <1>7, <1>8, <1>9 DEF Next, Query, Done

-----------------------------------------------------------------------------
(* The gates count what is not in.                                         *)

\* A unit is counted off its gate when it is read, and no other step changes what a
\* gate counts but to leave less unread.
LEMMA CountsKept ==
    ASSUME AccountsInv, GateInv, [Next]_vars
    PROVE  CountsUnread'
  <1>0. AdmissionInv /\ TypeOK /\ ReleasedOnce
    BY DEF AccountsInv, AdmissionInv
  <1>1. \A u \in DOMAIN Units : (Pending(u)' => Pending(u)) /\ (Missing(u)' => Missing(u))
    BY <1>0, PendingShrinks, MissingShrinks
  <1>2. \A g \in Gates : Unread(g)' \in SUBSET Unread(g) /\ Unread(g) \in SUBSET DOMAIN Units
    BY <1>1 DEF Unread, GateOf
  <1>3. \A g \in Gates : left[g] \in Int /\ left[g] >= Cardinality(Unread(g))
    BY <1>0 DEF GateInv, CountsUnread, TypeOK, GatesTypeOK
  <1>4. \A g \in Gates : /\ Cardinality(Unread(g)') \in Nat /\ Cardinality(Unread(g)) \in Nat
                         /\ Cardinality(Unread(g)') <= Cardinality(Unread(g))
    BY <1>2, UnitCounts
  <1>5. CASE left' = left
    BY <1>3, <1>4, <1>5 DEF CountsUnread
  <1>6. ASSUME NEW r \in Readers, UnitDone(r) PROVE CountsUnread'
    <2>1. PICK u \in DOMAIN Units : u = unit[r] /\ rpc[r] = "done"
      BY <1>0, <1>6 DEF UnitDone, TypeOK, ReadersTypeOK, OnUnit
    <2>2. PICK h \in Gates : h = GateOf(u)
      BY GateOfType
    <2>3. ~Pending(u)' /\ ~Missing(u)' /\ unit' = unit
      <3>1. unit' = unit
        BY <1>6 DEF UnitDone
      <3>2. ~Pending(u)'
        <4>1. ~Pending(unit[r])'
          BY <1>0, <1>6, CountedOff
        <4> QED
          BY <2>1, <3>1, <4>1 DEF Pending
      <3>3. ~Missing(u)
        BY <2>1 DEF GateInv, CountedDown
      <3> QED
        BY <1>1, <3>1, <3>2, <3>3
    <2>4. u \in Unread(h) /\ Unread(h)' \in SUBSET (Unread(h) \ {u})
      <3>1. u \in Unread(h)
        BY <2>1, <2>2 DEF Unread, Pending, InHand
      <3>2. u \notin Unread(h)'
        BY <2>3 DEF Unread
      <3> QED
        BY <1>2, <3>1, <3>2
    <2>5. Cardinality(Unread(h)') <= Cardinality(Unread(h)) - 1
      <3>1. Unread(h) \ {u} \in SUBSET DOMAIN Units
        BY <1>2
      <3>2. Cardinality(Unread(h)') <= Cardinality(Unread(h) \ {u})
        BY <2>4, <3>1, UnitCounts
      <3>3. Cardinality(Unread(h) \ {u}) = Cardinality(Unread(h)) - 1
        BY <1>2, <2>4, UnitCounts
      <3> QED
        BY <3>2, <3>3
    <2>6. ASSUME NEW g \in Gates PROVE left'[g] >= Cardinality(Unread(g)')
      <3>1. CASE g = h
        <4>1. left'[h] = left[h] - 1
          BY <1>0, <1>6, <2>1, <2>2 DEF UnitDone, TypeOK, GatesTypeOK
        <4> QED
          BY <1>3, <1>4, <2>5, <3>1, <4>1
      <3>2. CASE g # h
        <4>1. left'[g] = left[g]
          BY <1>0, <1>6, <2>1, <2>2, <3>2 DEF UnitDone, TypeOK, GatesTypeOK
        <4> QED
          BY <1>3, <1>4, <4>1
      <3> QED
        BY <3>1, <3>2
    <2> QED
      BY <2>6 DEF CountsUnread
  <1> QED
    BY <1>0, <1>5, <1>6, ReaderFrames, WorkerFrames, QueryFrames DEF Next, Done, vars, gate_vars

\* Counted down, a gate stays so: there is nothing left to count off.
LEMMA DownStays ==
    ASSUME AccountsInv, GateInv, [Next]_vars
    PROVE  \A g \in Gates : left[g] = 0 => left'[g] = 0
  <1>0. TypeOK
    BY DEF AccountsInv, AdmissionInv
  <1>1. ASSUME NEW r \in Readers, UnitDone(r), NEW g \in Gates, left[g] = 0 PROVE left'[g] = 0
    <2>1. rpc[r] = "done" /\ unit[r] \in DOMAIN Units
      BY <1>0, <1>1 DEF UnitDone, TypeOK, ReadersTypeOK, OnUnit
    <2>2. CASE g = GateOf(unit[r])
      <3>1. unit[r] \in Unread(g) /\ Unread(g) \in SUBSET DOMAIN Units
        BY <2>1, <2>2 DEF Unread, Pending, InHand
      <3>2. Cardinality(Unread(g)) >= 1 /\ Cardinality(Unread(g)) \in Nat
        BY <3>1, UnitCounts
      <3>3. left[g] >= Cardinality(Unread(g))
        BY DEF GateInv, CountsUnread
      <3> QED
        BY <1>1, <3>2, <3>3
    <2>3. CASE g # GateOf(unit[r])
      BY <1>0, <1>1, <2>3 DEF UnitDone, TypeOK, GatesTypeOK
    <2> QED
      BY <2>2, <2>3
  <1>2. left' = left \/ \E r \in Readers : UnitDone(r)
    BY <1>0, ReaderFrames, WorkerFrames, QueryFrames DEF Next, Done, vars, gate_vars
  <1> QED
    BY <1>1, <1>2

\* A row group is released only once its gate is open.
LEMMA ReleasedAfterReady ==
    ASSUME TypeOK, [Next]_vars, NEW rg \in RowGroups, rg_released'[rg]
    PROVE  rg_released[rg] \/ ready[rg] = 1
  <1>1. ASSUME NEW w \in Workers, GateDone(w) PROVE rg_released[rg] \/ ready[rg] = 1
    BY <1>1 DEF GateDone, TypeOK, GatesTypeOK
  <1>2. ReleasePruned => rg_released[rg] \/ ready[rg] = 1
    BY DEF ReleasePruned
  <1> QED
    BY <1>1, <1>2, ReleasedGrows

\* The stages of a worker that waits, and what it waited for.
LEMMA WaitStages ==
    ASSUME TypeOK, NEW w \in Workers, Worker(w)
    PROVE  /\ wpc'[w] = "wait" => /\ wpc[w] = "claim" /\ cursor < Len(Work)
                                  /\ wrg'[w] = Work[cursor + 1] /\ wrg'[w] \notin Pruned
           /\ wpc'[w] = "waitprobe" => /\ wpc[w] = "wait" /\ wrg'[w] = wrg[w]
                                       /\ ready[wrg[w]] = 1
           /\ wpc'[w] = "scan" => /\ wpc[w] = "waitprobe" /\ wrg'[w] = wrg[w]
                                  /\ ready[ProbeGate(FileOf[wrg[w]])] = 1
  <1> USE DEF WGoto, TypeOK, WorkersTypeOK
  <1>1. CASE WorkerClaim(w)
    <2>1. Work \in Seq(RowGroups) /\ cursor \in Nat
      BY ParameterAssumption DEF ControlTypeOK
    <2>2. cursor >= Len(Work) \/ cursor < Len(Work)
      BY <2>1
    <2> QED
      BY <1>1, <2>2 DEF WorkerClaim
  <1>2. CASE WorkerQuit(w) \/ WorkerScan(w)
    BY <1>2 DEF WorkerQuit, WorkerScan
  <1>3. CASE WorkerWait(w) \/ WorkerWaitProbe(w)
    BY <1>3 DEF WorkerWait, WorkerWaitProbe, AwaitGate
  <1>4. CASE GateDone(w) \/ ReleasePages(w) \/ ReleaseWindow(w) \/ ReleaseLedger(w)
    BY <1>4 DEF GateDone, ReleasePages, ReleaseWindow, ReleaseLedger, Onward
  <1> QED
    BY <1>1, <1>2, <1>3, <1>4 DEF Worker

LEMMA CountedDownKept ==
    ASSUME AccountsInv, GateInv, [Next]_vars
    PROVE  CountedDown'
  <1>0. TypeOK /\ TypeOK' /\ ReleasedOnce
    BY NextType DEF AccountsInv, AdmissionInv
  <1>1. ASSUME NEW g \in Gates, ready'[g] = 1 PROVE left'[g] = 0
    <2>1. ASSUME NEW r \in Readers, OpenGate(r) PROVE left[g] = 0
      BY <1>0, <1>1, <2>1 DEF OpenGate, GateInv, CountedDown, TypeOK, GatesTypeOK
    <2>2. ASSUME NEW r \in Readers, FailStore(r) PROVE left[g] = 0
      BY <1>0, <1>1, <2>2 DEF FailStore, GateInv, CountedDown, TypeOK, GatesTypeOK
    <2>3. ready' = ready => left[g] = 0
      BY <1>1 DEF GateInv, CountedDown
    <2>4. left[g] = 0
      BY <1>0, <2>1, <2>2, <2>3, ReaderFrames, WorkerFrames, QueryFrames
         DEF Next, Done, vars, gate_vars
    <2>5. left'[g] = 0
      BY <2>4, DownStays
    <2> QED
      BY <2>5
  <1>2. ASSUME NEW s \in Readers, rpc'[s] = "open" PROVE left'[GateOf(unit'[s])] = 0
    <2>1. CASE Reader(s)
      <3>1. UnitDone(s) /\ unit'[s] = unit[s]
        BY <1>0, <1>2, <2>1, ReaderSteps
      <3>2. unit[s] \in DOMAIN Units
        BY <1>0, <3>1 DEF UnitDone, TypeOK, ReadersTypeOK, OnUnit
      <3>3. GateOf(unit[s]) \in Gates /\ left[GateOf(unit[s])] = 1
        BY <1>0, <1>2, <3>1, <3>2, GateOfType DEF UnitDone, Goto, TypeOK, ReadersTypeOK
      <3> QED
        BY <1>0, <3>1, <3>3 DEF UnitDone, TypeOK, GatesTypeOK
    <2>2. CASE rpc'[s] = rpc[s] /\ unit'[s] = unit[s]
      <3>1. unit[s] \in DOMAIN Units /\ left[GateOf(unit[s])] = 0
        BY <1>0, <1>2, <2>2 DEF GateInv, CountedDown, TypeOK, ReadersTypeOK, OnUnit
      <3> QED
        BY <2>2, <3>1, GateOfType, DownStays
    <2> QED
      BY <1>0, <2>1, <2>2, ReaderFrames, WorkerFrames, QueryFrames
         DEF Next, Done, vars, reader_vars
  <1>3. ASSUME NEW s \in Readers, NEW u \in DOMAIN Units, rpc'[s] = "done", unit'[s] = u
        PROVE  ~Missing(u)'
    <2>1. CASE Reader(s)
      <3>1. ReadUnit(s) /\ unit[s] = u
        BY <1>0, <1>3, <2>1, ReaderSteps
      <3>2. Units[u].pages \subseteq resident'
        BY <3>1 DEF ReadUnit
      <3> QED
        BY <3>2 DEF Missing
    <2>2. CASE rpc'[s] = rpc[s] /\ unit'[s] = unit[s]
      <3>1. ~Missing(u)
        BY <1>3, <2>2 DEF GateInv, CountedDown
      <3> QED
        BY <1>0, <3>1, MissingShrinks
    <2> QED
      BY <1>0, <2>1, <2>2, ReaderFrames, WorkerFrames, QueryFrames
         DEF Next, Done, vars, reader_vars
  <1>4. ASSUME NEW rg \in RowGroups, rg_released'[rg] PROVE left'[rg] = 0
    <2>1. rg \in Gates /\ left[rg] = 0
      BY <1>0, <1>4, ReleasedAfterReady, GateFacts DEF GateInv, CountedDown
    <2> QED
      BY <2>1, DownStays
  <1>5. ASSUME NEW w \in Workers, wpc'[w] \in PastGate PROVE left'[wrg'[w]] = 0
    <2>1. wrg'[w] \in RowGroups
      BY <1>0, <1>5 DEF TypeOK, WorkersTypeOK, PastGate
    <2>2. left[wrg'[w]] = 0
      <3>1. CASE Worker(w)
        BY <1>0, <1>5, <2>1, <3>1, WaitStages, GateFacts DEF PastGate, GateInv, CountedDown
      <3>2. CASE wpc'[w] = wpc[w] /\ wrg'[w] = wrg[w]
        BY <1>5, <3>2 DEF GateInv, CountedDown
      <3> QED
        BY <1>0, <3>1, <3>2, ReaderFrames, WorkerFrames, QueryFrames
           DEF Next, Done, vars, worker_vars
    <2> QED
      BY <2>1, <2>2, DownStays, GateFacts
  <1>6. ASSUME NEW w \in Workers, wpc'[w] = "scan" PROVE left'[ProbeGate(FileOf[wrg'[w]])] = 0
    <2>1. wrg'[w] \in RowGroups
      BY <1>0, <1>6 DEF TypeOK, WorkersTypeOK
    <2>2. ProbeGate(FileOf[wrg'[w]]) \in Gates
      BY <2>1, LayoutAssumption, GateFacts
    <2>3. left[ProbeGate(FileOf[wrg'[w]])] = 0
      <3>1. CASE Worker(w)
        BY <1>0, <1>6, <2>2, <3>1, WaitStages DEF GateInv, CountedDown
      <3>2. CASE wpc'[w] = wpc[w] /\ wrg'[w] = wrg[w]
        BY <1>6, <3>2 DEF GateInv, CountedDown
      <3> QED
        BY <1>0, <3>1, <3>2, ReaderFrames, WorkerFrames, QueryFrames
           DEF Next, Done, vars, worker_vars
    <2> QED
      BY <2>2, <2>3, DownStays
  <1>7. ASSUME phase' = "dictionaries", NEW f \in FileIds PROVE left'[ProbeGate(f)] = 0
    <2>1. CASE ReadDictionaries
      BY <2>1, GateFacts DEF ReadDictionaries, ProbesIn, GateInv, CountedDown, gate_vars
    <2>2. CASE phase' = phase
      BY <1>7, <2>2, GateFacts, DownStays DEF GateInv, CountedDown
    <2>3. phase' = phase \/ ReadDictionaries
      <3>1. Query => ReadDictionaries
        BY <1>7 DEF Query, ReleasePruned, EndScan, Abandon, EndRerun, Destroy, Phase
      <3>2. OthersDraw => phase' = phase
        BY DEF OthersDraw
      <3> QED
        BY <1>0, <3>1, <3>2, ReaderFrames, WorkerFrames DEF Next, Done, vars
    <2> QED
      BY <2>1, <2>2, <2>3
  <1> QED
    BY <1>1, <1>2, <1>3, <1>4, <1>5, <1>6, <1>7 DEF CountedDown, GateOf, ProbeGate

LEMMA GateInvHolds == Spec => [](AccountsInv /\ GateInv)
  <1>1. Init => GateInv
    BY InitGates
  <1>2. AccountsInv /\ GateInv /\ [Next]_vars => GateInv'
    BY CountsKept, CountedDownKept DEF GateInv
  <1> QED
    BY <1>1, <1>2, AccountsInvHolds, PTL DEF Spec

-----------------------------------------------------------------------------
(* The abstract window.                                                    *)

\* No step of a reader thread returns a row group.
LEMMA ReaderReturns ==
    ASSUME AccountsInv, NEW r \in Readers, Reader(r),
           Charged' = Charged \/ \E rg \in Charging \ Charged : Charged' = Charged \cup {rg}
    PROVE  Returned' = Returned
  BY ReaderFrames, ReturnedAlone DEF AccountsInv, AdmissionInv, Next

\* The charge admits the row group whose turn it is, in one step: it found room in
\* the window since, and nothing has been admitted in between.
LEMMA TakeAdmits ==
    ASSUME AccountsInv, GateInv, NEW r \in Readers, AdmitTake(r)
    PROVE  [RGW!Next]_(RGW!vars)
  <1>0. TypeOK /\ AdmissionInv /\ Reader(r) /\ left' = left
    BY DEF AccountsInv, AdmissionInv, Reader, AdmitTake, gate_vars
  <1>1. PICK u \in DOMAIN Units : u = unit[r] /\ rpc[r] = "take"
    BY <1>0 DEF AdmitTake, TypeOK, ReadersTypeOK, OnUnit
  <1>2. /\ First(u) /\ Units[u].ticket = admit_next /\ out[r] >= submitted - released
        /\ out[r] = 0 \/ out[r] + Units[u].charge <= Window
    BY <1>0, <1>1 DEF AdmissionInv, InTurn
  <1>3. CASE UNCHANGED window_vars
    <2>1. Charged' = Charged
      BY <1>3 DEF Charged, window_vars
    <2>2. Returned' = Returned /\ Arrived' = Arrived
      BY <1>0, <2>1, ReaderReturns DEF Arrived
    <2> QED
      BY <2>1, <2>2 DEF RGW!vars
  <1>4. CASE admit_next' = Units[u].ticket + 1
    <2> DEFINE rg == Units[u].rg
    <2>1. Charged' = Charged \cup {rg} /\ rg \in Charging \ Charged /\ TicketOf(rg) = admit_next
      BY <1>0, <1>2, <1>4, BookTypes, ChargeMoves, TicketOfUnit DEF First
    <2>2. Returned' = Returned
      BY <1>0, <2>1, ReaderReturns
    <2>3. Arrived' = Arrived
      <3>1. u \in Unread(rg) /\ rg \in Gates
        BY <1>1, <1>2, UnitFields, GateFacts
           DEF Unread, Pending, InHand, GateOf, First
      <3>2. Unread(rg) \in SUBSET DOMAIN Units
        BY DEF Unread
      <3>3. Cardinality(Unread(rg)) \in Nat /\ Cardinality(Unread(rg)) >= 1
        BY <3>1, <3>2, UnitCounts
      <3>4. left[rg] # 0
        BY <3>1, <3>3 DEF GateInv, CountsUnread
      <3> QED
        BY <1>0, <2>1, <3>4 DEF Arrived
    <2>4. ASSUME NEW h \in Charging, h < rg PROVE h \in Charged
      <3>1. TicketOf(h) <= TicketOf(rg) /\ TicketOf(h) # TicketOf(rg)
            /\ TicketOf(h) \in Nat /\ TicketOf(rg) \in Nat
        BY <2>1, <2>4, TicketOrder
      <3>2. TicketOf(h) < admit_next
        BY <2>1, <3>1
      <3> QED
        BY <2>1, <3>1, <3>2 DEF Charged
    <2>5. RGW!Outstanding = {} \/ RGW!OutstandingBytes + Bytes[rg] <= Window
      <3>1. SumOver(Bytes, Outstanding) = submitted - released /\ SumOver(Bytes, Outstanding) \in Nat
        BY <1>0, BookTypes DEF AccountsInv, Books
      <3>2. Bytes[rg] = Units[u].charge /\ Units[u].charge \in Nat /\ out[r] \in Nat /\ Window \in Nat
        BY <1>0, <1>2, BytesOfFirst, UnitFields, ParameterAssumption DEF TypeOK, ReadersTypeOK
      <3>3. CASE out[r] = 0
        <4>1. SumOver(Bytes, Outstanding) = 0
          BY <1>0, <1>2, <3>1, <3>3, BookTypes
        <4> QED
          BY <4>1, GroupSums, ChargedTypes, WindowBytes
      <3>4. CASE out[r] + Units[u].charge <= Window
        <4>1. SumOver(Bytes, Outstanding) <= out[r]
          BY <1>0, <1>2, <3>1, BookTypes
        <4>2. SumOver(Bytes, Outstanding) + Bytes[rg] <= Window
          BY <3>1, <3>2, <3>4, <4>1
        <4> QED
          BY <4>2, WindowBytes
      <3> QED
        BY <1>2, <3>3, <3>4
    <2>6. RGW!Admit(rg)
      BY <2>1, <2>2, <2>3, <2>4, <2>5 DEF RGW!Admit
    <2> QED
      BY <2>1, <2>6 DEF RGW!Next
  <1> QED
    BY <1>1, <1>3, <1>4 DEF AdmitTake

\* The last unit counted off is the arrival of its row group, admitted before.
LEMMA DoneArrives ==
    ASSUME AccountsInv, GateInv, NEW r \in Readers, UnitDone(r)
    PROVE  [RGW!Next]_(RGW!vars)
  <1>0. TypeOK /\ AdmissionInv /\ Reader(r) /\ UNCHANGED window_vars
    BY DEF AccountsInv, AdmissionInv, Reader, UnitDone
  <1>1. PICK u \in DOMAIN Units : u = unit[r] /\ rpc[r] = "done"
    BY <1>0 DEF UnitDone, TypeOK, ReadersTypeOK, OnUnit
  <1>2. Charged' = Charged /\ Charged \in SUBSET RowGroups /\ Charged \subseteq Charging
    BY <1>0, ChargedTypes DEF Charged, window_vars
  <1>3. Returned' = Returned
    BY <1>0, <1>2, ReaderReturns
  <1>4. PICK g \in Gates : g = GateOf(u)
    BY GateOfType
  <1>5. /\ left' = [left EXCEPT ![g] = @ - 1]
        /\ left \in [Gates -> Int]
    BY <1>0, <1>1, <1>4 DEF UnitDone, TypeOK, GatesTypeOK
  <1>6. left[g] >= 1
    <2>1. u \in Unread(g) /\ Unread(g) \in SUBSET DOMAIN Units
      BY <1>1, <1>4 DEF Unread, Pending, InHand
    <2>2. Cardinality(Unread(g)) \in Nat /\ Cardinality(Unread(g)) >= 1
      BY <2>1, UnitCounts
    <2> QED
      BY <1>5, <2>2 DEF GateInv, CountsUnread
  <1>7. CASE g \in RowGroups /\ left[g] = 1
    <2>1. ~Units[u].probe /\ Units[u].rg = g
      BY <1>4, <1>7, GateFacts, UnitFields DEF GateOf
    <2>2. g \in Charged
      BY <1>1, <2>1 DEF AccountsInv, AdmittedFirst
    <2>3. left'[g] = 0 /\ \A h \in RowGroups : h # g => left'[h] = left[h]
      BY <1>5, <1>7, GateFacts
    <2>4. Arrived' = Arrived \cup {g} /\ g \in Charged \ Arrived
      BY <1>2, <1>7, <2>2, <2>3 DEF Arrived
    <2>5. RGW!Arrive(g)
      BY <1>2, <1>3, <2>4 DEF RGW!Arrive
    <2> QED
      BY <1>2, <2>2, <2>5 DEF RGW!Next
  <1>8. CASE ~(g \in RowGroups /\ left[g] = 1)
    <2>1. \A h \in RowGroups : left'[h] = 0 <=> left[h] = 0
      BY <1>5, <1>6, <1>8, GateFacts
    <2>2. Arrived' = Arrived
      BY <1>2, <2>1 DEF Arrived
    <2> QED
      BY <1>2, <1>3, <2>2 DEF RGW!vars
  <1> QED
    BY <1>7, <1>8

\* A worker's release of the window's charge is the return of its row group.
LEMMA ReleaseReturns ==
    ASSUME AccountsInv, GateInv, NEW w \in Workers, ReleaseWindow(w)
    PROVE  [RGW!Next]_(RGW!vars)
  <1>0. TypeOK /\ ReleasedOnce
    BY DEF AccountsInv, AdmissionInv
  <1>1. Charged' = Charged /\ Arrived' = Arrived
    BY DEF ReleaseWindow, Charged, Arrived, gate_vars
  <1>2. Returned' = Returned \cup (Charged \cap {wrg[w]}) /\ wrg[w] \in RowGroups \ Returned
    BY <1>0, WindowReturns
  <1>3. left[wrg[w]] = 0
    BY <1>0, <1>2 DEF ReleaseWindow, ReleasedOnce, Releasing, GateInv, CountedDown
  <1>4. CASE wrg[w] \in Charged
    <2>1. RGW!Return(wrg[w])
      BY <1>1, <1>2, <1>3, <1>4 DEF RGW!Return, RGW!Outstanding, Arrived
    <2> QED
      BY <1>4, <2>1, ChargedTypes DEF RGW!Next
  <1>5. CASE wrg[w] \notin Charged
    BY <1>1, <1>2, <1>5 DEF RGW!vars
  <1> QED
    BY <1>4, <1>5

LEMMA WindowStep ==
    ASSUME AccountsInv, GateInv, [Next]_vars
    PROVE  [RGW!Next]_(RGW!vars)
  <1>0. TypeOK /\ ReleasedOnce /\ AdmittedFirst
    BY DEF AccountsInv, AdmissionInv
  <1>1. ASSUME NEW r \in Readers, Reader(r), ~AdmitTake(r), ~UnitDone(r)
        PROVE  [RGW!Next]_(RGW!vars)
    <2>1. Charged' = Charged /\ left' = left
      BY <1>0, <1>1, ReaderFrames DEF Charged, window_vars
    <2>2. Returned' = Returned /\ Arrived' = Arrived
      BY <1>1, <2>1, ReaderReturns DEF Arrived
    <2> QED
      BY <2>1, <2>2 DEF RGW!vars
  <1>2. ASSUME NEW w \in Workers, Worker(w), ~ReleaseWindow(w)
        PROVE  [RGW!Next]_(RGW!vars)
    <2>1. Charged' = Charged /\ left' = left
      BY <1>0, <1>2, WorkerFrames DEF Charged, gate_vars
    <2>2. Returned' = Returned /\ Arrived' = Arrived
      BY <1>0, <1>2, <2>1, ReturnedSame, LedgerReturns DEF Arrived
    <2> QED
      BY <2>1, <2>2 DEF RGW!vars
  <1>3. CASE Query \/ OthersDraw \/ UNCHANGED vars
    <2>1. Charged' = Charged /\ left' = left /\ UNCHANGED worker_vars
      BY <1>3, QueryFrames DEF Charged, window_vars, gate_vars, vars
    <2>2. Returned' = Returned /\ Arrived' = Arrived
      BY <1>0, <2>1, ReturnedAlone DEF Arrived
    <2> QED
      BY <2>1, <2>2 DEF RGW!vars
  <1> QED
    BY <1>1, <1>2, <1>3, TakeAdmits, DoneArrives, ReleaseReturns DEF Next, Done

\* However the reader threads race each other and the workers that give row groups
\* back, every charge of Reader.admit, every gate counted down by unitDone and every
\* File.release is, for every layout, window and number of threads, one step of the
\* abstract window or none: what admit's comment calls one reservation is one.
THEOREM KeepsToTheWindow == Spec => ImplementsWindow
  <1>1. Init => RGW!Init
    <2> SUFFICES ASSUME Init PROVE RGW!Init
      OBVIOUS
    <2>1. admit_next = 0 /\ \A g \in Charging : TicketOf(g) \in Nat
      BY TicketOrder DEF Init
    <2>2. Charged = {}
      BY <2>1 DEF Charged
    <2> QED
      BY <2>2, ChargedTypes DEF RGW!Init, Arrived
  <1>2. AccountsInv /\ GateInv /\ [Next]_vars => [RGW!Next]_(RGW!vars)
    BY WindowStep
  <1> QED
    BY <1>1, <1>2, GateInvHolds, PTL DEF Spec, ImplementsWindow, RGW!Spec

-----------------------------------------------------------------------------
(* Items, and who holds a page.                                            *)

\* A row group's workers and its claimed items can be counted.
LEMMA ItemCounts ==
    /\ \A S \in SUBSET Workers : IsFiniteSet(S) /\ Cardinality(S) \in Nat
    /\ IsFiniteSet(DOMAIN Work)
    /\ \A S \in SUBSET DOMAIN Work : IsFiniteSet(S) /\ Cardinality(S) \in Nat
    /\ \A rg \in RowGroups : \A S \in SUBSET {k \in DOMAIN Work : Work[k] = rg} :
          Cardinality(S) <= Items
  <1>1. \A S \in SUBSET Workers : IsFiniteSet(S) /\ Cardinality(S) \in Nat
    BY ThreadAssumption, FS_Subset, FS_CardinalityType
  <1>2. Len(Work) \in Nat /\ DOMAIN Work = 1..Len(Work) /\ Items \in Nat
    BY ParameterAssumption
  <1>3. IsFiniteSet(DOMAIN Work)
    BY <1>2, FS_Interval
  <1>4. \A S \in SUBSET DOMAIN Work : IsFiniteSet(S) /\ Cardinality(S) \in Nat
    BY <1>3, FS_Subset, FS_CardinalityType
  <1>5. ASSUME NEW rg \in RowGroups, NEW S \in SUBSET {k \in DOMAIN Work : Work[k] = rg}
        PROVE  Cardinality(S) <= Items
    <2> DEFINE all == {k \in DOMAIN Work : Work[k] = rg}
    <2>1. IsFiniteSet(all) /\ Cardinality(all) \in Nat /\ Cardinality(S) \in Nat
      BY <1>4
    <2>2. Cardinality(S) <= Cardinality(all)
      BY <2>1, FS_Subset
    <2>3. Cardinality(all) <= Items
      BY HoldAssumption
    <2> HIDE DEF all
    <2> QED
      BY <1>2, <2>1, <2>2, <2>3
  <1> QED
    BY <1>1, <1>3, <1>4, <1>5

AtStages == {"wait", "done"} \cup PastGate

\* What a worker's step does to the items it is at.
LEMMA ItemStages ==
    ASSUME TypeOK, TypeOK', NEW w \in Workers, Worker(w)
    PROVE  \/ /\ wpc[w] = "claim" /\ wpc'[w] \in AtStages /\ cursor' = cursor + 1
              /\ cursor + 1 \in DOMAIN Work /\ wrg'[w] = Work[cursor + 1]
              /\ items_done' = items_done
           \/ /\ wpc[w] = "claim" /\ wpc'[w] \notin AtStages /\ items_done' = items_done
              /\ cursor' = cursor + 1 \/ cursor' = cursor
           \/ /\ wpc[w] \in AtStages /\ wpc'[w] \in AtStages /\ wrg'[w] = wrg[w]
              /\ items_done' = items_done /\ cursor' = cursor
           \/ /\ GateDone(w) /\ wpc[w] \in AtStages /\ wpc'[w] \notin AtStages /\ cursor' = cursor
           \/ /\ wpc[w] \in Releasing /\ wpc'[w] \notin AtStages
              /\ items_done' = items_done /\ cursor' = cursor
  <1> USE DEF WGoto, TypeOK, WorkersTypeOK, ControlTypeOK, AtStages, PastGate, Releasing
  <1>1. CASE WorkerClaim(w)
    <2>1. Work \in Seq(RowGroups) /\ cursor \in Nat
      BY ParameterAssumption
    <2>2. CASE cursor >= Len(Work)
      BY <1>1, <2>2 DEF WorkerClaim, scan_vars
    <2>3. CASE ~(cursor >= Len(Work))
      BY <1>1, <2>1, <2>3 DEF WorkerClaim, scan_vars
    <2> QED
      BY <2>2, <2>3
  <1>2. CASE WorkerQuit(w)
    BY <1>2 DEF WorkerQuit, scan_vars
  <1>3. CASE WorkerWait(w) \/ WorkerWaitProbe(w) \/ WorkerScan(w)
    BY <1>3 DEF WorkerWait, WorkerWaitProbe, WorkerScan, AwaitGate, scan_vars
  <1>4. CASE GateDone(w)
    BY <1>4 DEF GateDone, Onward
  <1>5. CASE ReleasePages(w) \/ ReleaseWindow(w) \/ ReleaseLedger(w)
    BY <1>5 DEF ReleasePages, ReleaseWindow, ReleaseLedger, Onward, scan_vars
  <1> QED
    BY <1>1, <1>2, <1>3, <1>4, <1>5 DEF Worker

ItemsCounted ==
    \A rg \in RowGroups :
        items_done[rg] + Cardinality(AtItem(rg)) <= Cardinality(Claimed(rg))

\* An item is claimed by one worker and done once.
LEMMA ItemsCountedKept ==
    ASSUME TypeOK, TypeOK', ItemsCounted, [Next]_vars
    PROVE  ItemsCounted'
  <1>1. CASE UNCHANGED <<cursor, items_done, worker_vars>>
    BY <1>1 DEF ItemsCounted, AtItem, Claimed, worker_vars
  <1>2. ASSUME NEW w \in Workers, Worker(w) PROVE ItemsCounted'
    <2> SUFFICES ASSUME NEW rg \in RowGroups
                 PROVE  items_done'[rg] + Cardinality(AtItem(rg)')
                           <= Cardinality(Claimed(rg)')
      BY DEF ItemsCounted
    <2>0. /\ AtItem(rg) \in SUBSET Workers /\ AtItem(rg)' \in SUBSET Workers
          /\ Claimed(rg) \in SUBSET DOMAIN Work /\ Claimed(rg)' \in SUBSET DOMAIN Work
          /\ items_done[rg] \in Nat /\ items_done'[rg] \in Nat /\ cursor \in Nat
      BY DEF AtItem, Claimed, TypeOK, GatesTypeOK, ControlTypeOK
    <2>1. /\ IsFiniteSet(AtItem(rg)) /\ Cardinality(AtItem(rg)) \in Nat
          /\ Cardinality(AtItem(rg)') \in Nat /\ IsFiniteSet(Claimed(rg))
          /\ IsFiniteSet(Claimed(rg)')
          /\ Cardinality(Claimed(rg)) \in Nat /\ Cardinality(Claimed(rg)') \in Nat
      BY <2>0, ItemCounts
    <2>2. items_done[rg] + Cardinality(AtItem(rg)) <= Cardinality(Claimed(rg))
      BY DEF ItemsCounted
    <2>3. \A v \in Workers \ {w} : v \in AtItem(rg)' <=> v \in AtItem(rg)
      BY <1>2, WorkerFrames DEF AtItem
    <2>4. \A v \in Workers : v \in AtItem(rg) <=> wrg[v] = rg /\ wpc[v] \in AtStages
      BY DEF AtItem, AtStages
    <2>5. w \in AtItem(rg)' <=> wrg'[w] = rg /\ wpc'[w] \in AtStages
      BY DEF AtItem, AtStages
    <2>6. cursor' = cursor \/ cursor' = cursor + 1 => Cardinality(Claimed(rg)) <= Cardinality(Claimed(rg)')
      <3> SUFFICES ASSUME cursor' = cursor \/ cursor' = cursor + 1
                   PROVE  Cardinality(Claimed(rg)) <= Cardinality(Claimed(rg)')
        OBVIOUS
      <3>1. \A k \in DOMAIN Work : k \in Int
        BY ParameterAssumption
      <3>2. Claimed(rg) \subseteq Claimed(rg)'
        BY <2>0, <3>1 DEF Claimed
      <3> QED
        BY <2>1, <3>2, FS_Subset
    <2> HIDE DEF ItemsCounted
    <2>7. CASE AtItem(rg)' = AtItem(rg) /\ items_done'[rg] = items_done[rg]
               /\ (cursor' = cursor \/ cursor' = cursor + 1)
      BY <2>0, <2>1, <2>2, <2>6, <2>7
    <2>8. CASE /\ wpc[w] = "claim" /\ wpc'[w] \in AtStages /\ cursor' = cursor + 1
               /\ cursor + 1 \in DOMAIN Work /\ wrg'[w] = Work[cursor + 1] /\ items_done' = items_done
      <3>1. w \notin AtItem(rg)
        BY <2>4, <2>8 DEF AtStages, PastGate
      <3>2. CASE Work[cursor + 1] = rg
        <4>1. AtItem(rg)' = AtItem(rg) \cup {w}
          BY <2>0, <2>3, <2>5, <2>8, <3>2
        <4>2. Claimed(rg)' = Claimed(rg) \cup {cursor + 1} /\ cursor + 1 \notin Claimed(rg)
          <5>1. \A k \in DOMAIN Work : k \in Int
            BY ParameterAssumption
          <5> QED
            BY <2>0, <2>8, <3>2, <5>1 DEF Claimed
        <4>3. Cardinality(AtItem(rg) \cup {w}) = Cardinality(AtItem(rg)) + 1
          BY <2>1, <3>1, FS_AddElement
        <4>4. Cardinality(Claimed(rg) \cup {cursor + 1}) = Cardinality(Claimed(rg)) + 1
          BY <2>1, <4>2, FS_AddElement
        <4>5. Cardinality(AtItem(rg)') = Cardinality(AtItem(rg)) + 1
          BY <4>1, <4>3
        <4>6. Cardinality(Claimed(rg)') = Cardinality(Claimed(rg)) + 1
          BY <4>2, <4>4
        <4>7. items_done'[rg] = items_done[rg]
          BY <2>8
        <4> QED
          BY <2>0, <2>1, <2>2, <4>5, <4>6, <4>7
      <3>3. CASE Work[cursor + 1] # rg
        BY <2>0, <2>3, <2>5, <2>7, <2>8, <3>1, <3>3
      <3> QED
        BY <3>2, <3>3
    <2>9. CASE GateDone(w) /\ wpc[w] \in AtStages /\ wpc'[w] \notin AtStages /\ cursor' = cursor
      <3>1. CASE wrg[w] = rg
        <4>1. AtItem(rg)' = AtItem(rg) \ {w} /\ w \in AtItem(rg)
          BY <2>0, <2>3, <2>4, <2>5, <2>9, <3>1
        <4>2. Cardinality(AtItem(rg) \ {w}) = Cardinality(AtItem(rg)) - 1
          BY <2>1, <4>1, FS_RemoveElement
        <4>3. Cardinality(AtItem(rg)') = Cardinality(AtItem(rg)) - 1
          BY <4>1, <4>2
        <4>4. items_done'[rg] = items_done[rg] + 1
          BY <2>9, <3>1 DEF GateDone, TypeOK, GatesTypeOK
        <4> QED
          BY <2>0, <2>1, <2>2, <2>6, <2>9, <4>3, <4>4
      <3>2. CASE wrg[w] # rg
        <4>1. AtItem(rg)' = AtItem(rg)
          BY <2>0, <2>3, <2>4, <2>5, <2>9, <3>2
        <4>2. items_done'[rg] = items_done[rg]
          BY <2>9, <3>2 DEF GateDone, TypeOK, GatesTypeOK
        <4> QED
          BY <2>7, <2>9, <4>1, <4>2
      <3> QED
        BY <3>1, <3>2
    <2>10. CASE /\ wpc[w] \in AtStages /\ wpc'[w] \in AtStages /\ wrg'[w] = wrg[w]
                /\ items_done' = items_done /\ cursor' = cursor
      <3>1. AtItem(rg)' = AtItem(rg)
        BY <2>0, <2>3, <2>4, <2>5, <2>10
      <3> QED
        BY <2>7, <2>10, <3>1
    <2>11. CASE /\ wpc[w] \notin AtStages /\ wpc'[w] \notin AtStages
                /\ items_done' = items_done /\ (cursor' = cursor + 1 \/ cursor' = cursor)
      <3>1. AtItem(rg)' = AtItem(rg)
        BY <2>0, <2>3, <2>4, <2>5, <2>11
      <3> QED
        BY <2>7, <2>11, <3>1
    <2>12. "claim" \notin AtStages /\ \A pc \in Releasing : pc \notin AtStages
      BY DEF AtStages, PastGate, Releasing
    <2> QED
      BY <1>2, <2>8, <2>9, <2>10, <2>11, <2>12, ItemStages
  <1> QED
    BY <1>1, <1>2, ReaderFrames, QueryFrames DEF Next, Done, vars, scan_vars

\* A row group that was not pruned is released when all its items are done.
LEMMA ItemsOnceKept ==
    ASSUME TypeOK, TypeOK', ItemsOnce, [Next]_vars
    PROVE  ItemsOnce'
  <1>1. ItemsCounted'
    BY ItemsCountedKept DEF ItemsOnce, ItemsCounted
  <1>2. ASSUME NEW rg \in RowGroups, rg_released'[rg], rg \notin Pruned
        PROVE  items_done'[rg] >= Items
    <2>0. items_done[rg] \in Nat /\ items_done'[rg] \in Nat /\ Items \in Nat
      BY ParameterAssumption DEF TypeOK, GatesTypeOK
    <2>1. items_done'[rg] = items_done[rg] \/ items_done'[rg] = items_done[rg] + 1
      <3>1. ASSUME NEW w \in Workers, GateDone(w)
            PROVE  items_done'[rg] = items_done[rg] \/ items_done'[rg] = items_done[rg] + 1
        BY <3>1 DEF GateDone, TypeOK, GatesTypeOK
      <3>2. items_done' = items_done \/ \E w \in Workers : GateDone(w)
        BY ReaderFrames, WorkerFrames, QueryFrames DEF Next, Done, vars, scan_vars
      <3> QED
        BY <3>1, <3>2
    <2>2. CASE rg_released[rg]
      BY <1>2, <2>0, <2>1, <2>2 DEF ItemsOnce
    <2>3. CASE ~rg_released[rg]
      <3>1. ~ReleasePruned
        BY <1>2, <2>3 DEF ReleasePruned
      <3>2. PICK w \in Workers : GateDone(w)
        BY <1>2, <2>3, <3>1, ReleasedGrows
      <3>3. wrg[w] = rg /\ items_done[rg] + 1 = Items
        BY <1>2, <2>3, <3>2 DEF GateDone, TypeOK, GatesTypeOK
      <3>4. items_done'[rg] = items_done[rg] + 1
        BY <3>2, <3>3 DEF GateDone, TypeOK, GatesTypeOK
      <3> QED
        BY <2>0, <3>3, <3>4
    <2> QED
      BY <2>2, <2>3
  <1> QED
    BY <1>1, <1>2 DEF ItemsOnce, ItemsCounted

LEMMA NotPrunedKept ==
    ASSUME TypeOK, NotPruned, [Next]_vars
    PROVE  NotPruned'
  <1>1. ASSUME NEW w \in Workers, Worker(w), wpc'[w] \in {"wait"} \cup PastGate
        PROVE  wrg'[w] \notin Pruned
    BY <1>1, WaitStages DEF NotPruned, PastGate
  <1>2. ASSUME NEW w \in Workers, wpc'[w] = wpc[w] /\ wrg'[w] = wrg[w],
               wpc'[w] \in {"wait"} \cup PastGate
        PROVE  wrg'[w] \notin Pruned
    BY <1>2 DEF NotPruned
  <1> QED
    BY <1>1, <1>2, ReaderFrames, WorkerFrames, QueryFrames
       DEF Next, Done, vars, worker_vars, NotPruned

\* A row group drops its pages once, in the step that takes it off their counts.
LEMMA DropsOnce ==
    ASSUME TypeOK, ReleasedOnce, [Next]_vars
    PROVE  \/ seg_refs' = seg_refs /\ \A rg \in RowGroups : Dropped(rg)' <=> Dropped(rg)
           \/ \E rgs \in SUBSET RowGroups :
                 /\ DropSegments(rgs)
                 /\ \A rg \in RowGroups : Dropped(rg)' <=> Dropped(rg) \/ rg \in rgs
                 /\ \A rg \in rgs : ~Dropped(rg)
  <1> DEFINE Same == seg_refs' = seg_refs /\ \A rg \in RowGroups : Dropped(rg)' <=> Dropped(rg)
             Drops == \E rgs \in SUBSET RowGroups :
                         /\ DropSegments(rgs)
                         /\ \A rg \in RowGroups : Dropped(rg)' <=> Dropped(rg) \/ rg \in rgs
                         /\ \A rg \in rgs : ~Dropped(rg)
  <1>1. CASE UNCHANGED <<seg_refs, rg_released, worker_vars>>
    BY <1>1 DEF Dropped, InRelease, worker_vars
  <1>2. CASE ReleasePruned
    <2>1. /\ phase # "scanning" /\ UNCHANGED worker_vars
      BY <1>2 DEF ReleasePruned, Phase
    <2>2. \A w \in Workers : wpc[w] # "drop" /\ wpc'[w] # "drop"
      BY <2>1 DEF ReleasedOnce, worker_vars
    <2>3. PICK now \in SUBSET RowGroups :
             /\ \A rg \in now : ~rg_released[rg]
             /\ rg_released' = [rg \in RowGroups |-> rg_released[rg] \/ rg \in now]
             /\ DropSegments(now)
      <3>1. {rg \in Pruned : /\ ready[rg] = 1
                             /\ ready[ProbeGate(FileOf[rg])] = 1
                             /\ ~rg_released[rg]} \in SUBSET RowGroups
        BY ParameterAssumption
      <3> QED
        BY <1>2, <3>1 DEF ReleasePruned
    <2>4. \A rg \in RowGroups : /\ Dropped(rg) <=> rg_released[rg]
                                /\ Dropped(rg)' <=> rg_released'[rg]
      BY <2>2 DEF Dropped, InRelease
    <2> QED
      BY <2>3, <2>4
  <1>3. ASSUME NEW w \in Workers, ReleasePages(w) PROVE Drops
    <2>1. /\ wpc[w] = "drop" /\ wpc' = [wpc EXCEPT ![w] = "give"] /\ wrg[w] \in RowGroups
          /\ DropSegments({wrg[w]}) /\ wrg' = wrg /\ rg_released' = rg_released
      BY <1>3 DEF ReleasePages, WGoto, TypeOK, WorkersTypeOK, scan_vars
    <2>2. rg_released[wrg[w]] /\ \A v \in Workers : wpc[v] = "drop" /\ wrg[v] = wrg[w] => v = w
      BY <2>1 DEF ReleasedOnce, Releasing
    <2>3. wpc'[w] = "give" /\ \A v \in Workers \ {w} : wpc'[v] = wpc[v]
      BY <2>1 DEF TypeOK, WorkersTypeOK
    <2>4. ~Dropped(wrg[w])
      BY <2>1 DEF Dropped, InRelease
    <2>5. \A rg \in RowGroups : Dropped(rg)' <=> Dropped(rg) \/ rg \in {wrg[w]}
      <3> SUFFICES ASSUME NEW rg \in RowGroups
                   PROVE  Dropped(rg)' <=> Dropped(rg) \/ rg = wrg[w]
        OBVIOUS
      <3>1. CASE rg = wrg[w]
        BY <2>1, <2>2, <2>3, <3>1 DEF Dropped, InRelease
      <3>2. CASE rg # wrg[w]
        BY <2>1, <2>3, <3>2 DEF Dropped, InRelease
      <3> QED
        BY <3>1, <3>2
    <2> QED
      BY <2>1, <2>4, <2>5
  <1>4. ASSUME NEW w \in Workers, Worker(w), ~ReleasePages(w) PROVE Same
    <2>0. /\ seg_refs' = seg_refs /\ wpc[w] # "drop"
          /\ \A v \in Workers \ {w} : wpc'[v] = wpc[v] /\ wrg'[v] = wrg[v]
      <3>1. wpc[w] # "drop"
        BY <1>4 DEF Worker, WorkerClaim, WorkerQuit, WorkerWait, WorkerWaitProbe, AwaitGate,
                    WorkerScan, GateDone, ReleasePages, ReleaseWindow, ReleaseLedger
      <3> QED
        BY <1>4, <3>1, WorkerFrames DEF page_vars
    <2>1. CASE wpc'[w] = "drop"
      <3>1. /\ GateDone(w) /\ wrg[w] \in RowGroups /\ wrg'[w] = wrg[w]
            /\ ~rg_released[wrg[w]] /\ rg_released'[wrg[w]]
        BY <1>4, <2>1, WorkerStages DEF Releasing
      <3>2. \A rg \in RowGroups \ {wrg[w]} : rg_released'[rg] <=> rg_released[rg]
        BY <3>1 DEF GateDone, TypeOK, GatesTypeOK
      <3>3. ~Dropped(wrg[w]) /\ ~Dropped(wrg[w])'
        BY <2>1, <3>1 DEF Dropped, InRelease, GateDone
      <3>4. ASSUME NEW rg \in RowGroups \ {wrg[w]} PROVE Dropped(rg)' <=> Dropped(rg)
        BY <2>0, <3>1, <3>2 DEF Dropped, InRelease
      <3>5. wrg' = wrg
        BY <3>1 DEF GateDone
      <3>6. ASSUME NEW rg \in RowGroups, rg = wrg[w] PROVE Dropped(rg)' <=> Dropped(rg)
        BY <2>1, <3>1, <3>5, <3>6 DEF Dropped, InRelease
      <3> QED
        BY <2>0, <3>4, <3>6
    <2>2. CASE wpc'[w] # "drop"
      <3>1. \A rg \in RowGroups : rg_released'[rg] <=> rg_released[rg]
        <4>1. CASE GateDone(w)
          <5>1. ~(items_done[wrg[w]] + 1 = Items /\ ready[wrg[w]] = 1 /\ ~rg_released[wrg[w]])
            BY <2>2, <4>1 DEF GateDone, WGoto, TypeOK, WorkersTypeOK
          <5> QED
            BY <4>1, <5>1 DEF GateDone, TypeOK, GatesTypeOK
        <4>2. CASE UNCHANGED scan_vars
          BY <4>2 DEF scan_vars
        <4> QED
          BY <1>4, <4>1, <4>2, WorkerFrames
      <3>2. \A rg \in RowGroups : InRelease(rg, {"drop"})' <=> InRelease(rg, {"drop"})
        BY <2>0, <2>2 DEF InRelease
      <3> QED
        BY <2>0, <3>1, <3>2 DEF Dropped
    <2> QED
      BY <2>1, <2>2
  <1>5. Query \/ OthersDraw => ReleasePruned \/ UNCHANGED <<seg_refs, rg_released, worker_vars>>
    BY DEF Query, ReadDictionaries, EndScan, Abandon, EndRerun, Destroy, OthersDraw, scan_vars,
           page_vars
  <1> QED
    BY <1>1, <1>2, <1>3, <1>4, <1>5, ReaderFrames
       DEF Next, Done, vars, scan_vars, page_vars

LEMMA HoldersTypes ==
    \A p \in Pages : /\ Holders(p) \in SUBSET RowGroups /\ IsFiniteSet(Holders(p))
                     /\ Cardinality(Holders(p)) \in Nat
                     /\ Holders(p) # {} => Cardinality(Holders(p)) > 0
  <1> SUFFICES ASSUME NEW p \in Pages
               PROVE  /\ Holders(p) \in SUBSET RowGroups /\ IsFiniteSet(Holders(p))
                      /\ Cardinality(Holders(p)) \in Nat
                      /\ Holders(p) # {} => Cardinality(Holders(p)) > 0
    OBVIOUS
  <1>1. Holders(p) \in SUBSET RowGroups
    BY DEF Holders
  <1>2. IsFiniteSet(Holders(p)) /\ Cardinality(Holders(p)) \in Nat
    BY <1>1, GroupSums
  <1> QED
    BY <1>1, <1>2, FS_EmptySet

\* The counts follow the holders.
LEMMA HoldersKept ==
    ASSUME TypeOK, ReleasedOnce, HoldersCounted, [Next]_vars
    PROVE  HoldersCounted'
  <1>1. CASE seg_refs' = seg_refs /\ \A rg \in RowGroups : Dropped(rg)' <=> Dropped(rg)
    <2>1. \A p \in Pages : Holders(p)' = Holders(p)
      BY <1>1 DEF Holders
    <2> QED
      BY <1>1, <2>1 DEF HoldersCounted
  <1>2. ASSUME NEW rgs \in SUBSET RowGroups, DropSegments(rgs),
               \A rg \in RowGroups : Dropped(rg)' <=> Dropped(rg) \/ rg \in rgs,
               \A rg \in rgs : ~Dropped(rg)
        PROVE  HoldersCounted'
    <2> SUFFICES ASSUME NEW p \in Pages PROVE seg_refs'[p] = Cardinality(Holders(p)')
      BY DEF HoldersCounted
    <2> DEFINE gone == {rg \in rgs : p \in Holds[rg]}
    <2>1. seg_refs'[p] = seg_refs[p] - Cardinality(gone)
      BY <1>2, DropFacts
    <2>2. Holders(p)' = Holders(p) \ gone /\ Holders(p) \cap gone = gone
      BY <1>2 DEF Holders
    <2>3. Cardinality(Holders(p) \ gone) = Cardinality(Holders(p)) - Cardinality(Holders(p) \cap gone)
      BY HoldersTypes, FS_Difference
    <2>4. Cardinality(Holders(p)') = Cardinality(Holders(p)) - Cardinality(gone)
      BY <2>2, <2>3
    <2>5. seg_refs[p] = Cardinality(Holders(p))
      BY DEF HoldersCounted
    <2> QED
      BY <2>1, <2>4, <2>5
  <1> QED
    BY <1>1, <1>2, DropsOnce

\* No read of a row group lands after its release: its gate would not have opened.
LEMMA NoneStaysKept ==
    ASSUME AccountsInv, GateInv, HoldersCounted, NoneStays, [Next]_vars
    PROVE  NoneStays'
  <1>0. TypeOK /\ ReleasedOnce
    BY DEF AccountsInv, AdmissionInv
  <1> SUFFICES ASSUME NEW p \in resident', seg_refs'[p] = 0
               PROVE  \E u \in DOMAIN Units : Units[u].probe /\ p \in Units[u].pages
    BY DEF NoneStays
  <1>1. CASE p \in resident /\ seg_refs[p] = 0
    BY <1>1 DEF NoneStays
  <1>2. ASSUME NEW r \in Readers, ReadUnit(r), p \notin resident
        PROVE  \E u \in DOMAIN Units : Units[u].probe /\ p \in Units[u].pages
    <2>1. PICK u \in DOMAIN Units : u = unit[r] /\ rpc[r] = "read" /\ p \in Units[u].pages
      BY <1>0, <1>2 DEF ReadUnit, TypeOK, ReadersTypeOK, OnUnit
    <2>2. CASE ~Units[u].probe
      <3> DEFINE rg == Units[u].rg
      <3>1. rg \in RowGroups /\ p \in Holds[rg] /\ p \in Pages
        BY <2>1, <2>2, UnitFields, HoldAssumption
      <3>2. rg \in Gates /\ u \in Unread(rg) /\ Unread(rg) \in SUBSET DOMAIN Units
        BY <2>1, <2>2, <3>1, GateFacts DEF Unread, Pending, InHand, GateOf
      <3>3. Cardinality(Unread(rg)) \in Nat /\ Cardinality(Unread(rg)) >= 1
        BY <3>2, UnitCounts
      <3>4. ~rg_released[rg]
        BY <3>1, <3>2, <3>3 DEF GateInv, CountsUnread, CountedDown
      <3>5. rg \in Holders(p)
        BY <3>1, <3>4 DEF Holders, Dropped
      <3>6. seg_refs[p] # 0
        BY <3>1, <3>5, HoldersTypes DEF HoldersCounted
      <3> QED
        BY <1>2, <3>6 DEF ReadUnit
    <2> QED
      BY <2>1, <2>2
  <1>3. ASSUME NEW r \in Readers, Reader(r)
        PROVE  (p \in resident /\ seg_refs[p] = 0) \/ (ReadUnit(r) /\ p \notin resident)
    BY <1>0, <1>3, ReaderFrames
  <1>4. ASSUME NEW rgs \in SUBSET RowGroups, DropSegments(rgs)
        PROVE  p \in resident /\ seg_refs[p] = 0
    BY <1>0, <1>4, DropFacts
  <1>5. ASSUME NEW w \in Workers, ReleasePages(w) PROVE p \in resident /\ seg_refs[p] = 0
    BY <1>0, <1>4, <1>5 DEF ReleasePages, TypeOK, WorkersTypeOK
  <1>6. ReleasePruned => p \in resident /\ seg_refs[p] = 0
    <2>1. ReleasePruned => \E rgs \in SUBSET RowGroups : DropSegments(rgs)
      BY ParameterAssumption DEF ReleasePruned
    <2> QED
      BY <1>4, <2>1
  <1>7. UNCHANGED page_vars => p \in resident /\ seg_refs[p] = 0
    BY DEF page_vars
  <1>8. ~Abandon /\ ~Destroy
    BY DEF Abandon, Destroy
  <1>9. Query \/ OthersDraw => ReleasePruned \/ UNCHANGED page_vars
    BY <1>8 DEF Query, ReadDictionaries, EndScan, EndRerun, OthersDraw
  <1> QED
    BY <1>0, <1>1, <1>2, <1>3, <1>5, <1>6, <1>7, <1>9, WorkerFrames DEF Next, Done, vars

-----------------------------------------------------------------------------
LEMMA MemoryInvHolds == Spec => []MemoryInv
  <1>1. Init => ItemsOnce /\ NotPruned /\ HoldersCounted /\ NoneStays
    <2> SUFFICES ASSUME Init PROVE ItemsOnce /\ NotPruned /\ HoldersCounted /\ NoneStays
      OBVIOUS
    <2>1. \A w \in Workers : wpc[w] = "claim"
      BY DEF Init
    <2>2. \A rg \in RowGroups : ~rg_released[rg] /\ items_done[rg] = 0
      BY DEF Init
    <2>3. ASSUME NEW rg \in RowGroups
          PROVE  items_done[rg] + Cardinality(AtItem(rg)) <= Cardinality(Claimed(rg))
      <3>1. AtItem(rg) = {}
        BY <2>1 DEF AtItem, PastGate
      <3>2. Claimed(rg) \in SUBSET DOMAIN Work
        BY DEF Claimed
      <3>3. Cardinality(Claimed(rg)) \in Nat /\ Cardinality(AtItem(rg)) = 0
        BY <3>1, <3>2, ItemCounts, FS_EmptySet
      <3> QED
        BY <2>2, <3>3
    <2>4. ASSUME NEW p \in Pages PROVE seg_refs[p] = Cardinality(Holders(p))
      <3>1. Holders(p) = {rg \in RowGroups : p \in Holds[rg]}
        BY <2>2 DEF Holders, Dropped
      <3> QED
        BY <3>1 DEF Init
    <2>5. resident = {}
      BY DEF Init
    <2> QED
      BY <2>1, <2>2, <2>3, <2>4, <2>5 DEF ItemsOnce, NotPruned, HoldersCounted, NoneStays, PastGate
  <1>2. ASSUME AccountsInv, GateInv, AccountsInv', ItemsOnce, NotPruned, HoldersCounted,
               NoneStays, [Next]_vars
        PROVE  ItemsOnce' /\ NotPruned' /\ HoldersCounted' /\ NoneStays'
    <2>1. TypeOK /\ TypeOK' /\ ReleasedOnce
      BY <1>2 DEF AccountsInv, AdmissionInv
    <2>2. ItemsOnce' /\ NotPruned'
      BY <1>2, <2>1, ItemsOnceKept, NotPrunedKept
    <2>3. HoldersCounted' /\ NoneStays'
      BY <1>2, <2>1, HoldersKept, NoneStaysKept
    <2> QED
      BY <2>2, <2>3
  <1> QED
    BY <1>1, <1>2, GateInvHolds, PTL DEF Spec, MemoryInv

\* A gate counted down to nothing has its pages in memory, those still held.
LEMMA NothingMissing ==
    ASSUME CountsUnread, NEW g \in Gates, left[g] = 0
    PROVE  \A u \in DOMAIN Units : GateOf(u) = g => ~Missing(u)
  <1>1. Unread(g) \in SUBSET DOMAIN Units
    BY DEF Unread
  <1>2. Cardinality(Unread(g)) \in Nat /\ Cardinality(Unread(g)) <= 0
    BY <1>1, UnitCounts DEF CountsUnread
  <1>3. Unread(g) = {}
    BY <1>1, <1>2, UnitCounts
  <1> QED
    BY <1>3 DEF Unread

\* For every layout and number of threads: a worker past its gates (gateWait), and
\* planning past its probes (probeWait), find every page in memory, whatever pages
\* the row groups released meanwhile share with theirs (File.release), and a page
\* let go of by its last holder does not come back.
THEOREM PagesStayWhileHeld == Spec => []InMemoryWhileHeld
  <1>1. MemoryInv => InMemoryWhileHeld
    <2> SUFFICES ASSUME MemoryInv PROVE InMemoryWhileHeld
      OBVIOUS
    <2>0. TypeOK /\ ReleasedOnce /\ CountsUnread /\ CountedDown
      BY DEF MemoryInv, AccountsInv, AdmissionInv, GateInv
    <2>1. ASSUME NEW w \in Workers, wpc[w] = "scan", NEW p \in Holds[wrg[w]]
          PROVE  p \in resident
      <3> DEFINE rg == wrg[w]
      <3>1. rg \in RowGroups /\ phase = "scanning" /\ p \in Pages /\ rg \notin Pruned
        <4>1. rg \in RowGroups /\ phase = "scanning"
          BY <2>0, <2>1 DEF TypeOK, WorkersTypeOK, ReleasedOnce
        <4>2. rg \notin Pruned
          BY <2>1 DEF MemoryInv, NotPruned, PastGate
        <4> QED
          BY <2>1, <4>1, <4>2 DEF Pages
      <3>2. left[rg] = 0 /\ left[ProbeGate(FileOf[rg])] = 0
        BY <2>0, <2>1 DEF CountedDown, PastGate
      <3>3. FileOf[rg] \in FileIds
        BY <3>1, LayoutAssumption
      <3>4. PICK u \in UnitsOf(rg) \cup ProbesOf(FileOf[rg]) : p \in Units[u].pages
        BY <2>1, <3>1, HoldAssumption
      <3>5. u \in DOMAIN Units /\ GateOf(u) \in {rg, ProbeGate(FileOf[rg])}
        BY <3>1, <3>3, <3>4, GateFacts
      <3>6. ~Missing(u)
        BY <2>0, <3>1, <3>2, <3>3, <3>5, GateFacts, NothingMissing
      <3>7. ~rg_released[rg]
        <4>1. w \in AtItem(rg) /\ AtItem(rg) \in SUBSET Workers
          BY <2>1 DEF AtItem, PastGate
        <4>2. Cardinality(AtItem(rg)) \in Nat /\ Cardinality(AtItem(rg)) # 0
          BY <4>1, ItemCounts, FS_EmptySet
        <4>3. Claimed(rg) \in SUBSET {k \in DOMAIN Work : Work[k] = rg}
              /\ Claimed(rg) \in SUBSET DOMAIN Work
          BY DEF Claimed
        <4>4. Cardinality(Claimed(rg)) <= Items /\ Cardinality(Claimed(rg)) \in Nat /\ Items \in Nat
          BY <3>1, <4>3, ItemCounts, ParameterAssumption
        <4>5. items_done[rg] + Cardinality(AtItem(rg)) <= Cardinality(Claimed(rg))
              /\ items_done[rg] \in Nat
          BY <2>0, <3>1 DEF MemoryInv, ItemsOnce, TypeOK, GatesTypeOK
        <4>6. ~(items_done[rg] >= Items)
          BY <4>2, <4>4, <4>5
        <4> QED
          BY <3>1, <4>6 DEF MemoryInv, ItemsOnce
      <3>8. seg_refs[p] > 0
        <4>1. rg \in Holders(p)
          BY <2>1, <3>1, <3>7 DEF Holders, Dropped
        <4> QED
          BY <3>1, <4>1, HoldersTypes DEF MemoryInv, HoldersCounted
      <3> QED
        BY <3>1, <3>4, <3>6, <3>8 DEF Missing, Before
    <2>2. ASSUME phase = "dictionaries", NEW u \in DOMAIN Units, Units[u].probe
          PROVE  Units[u].pages \subseteq resident
      <3>1. Units[u].file \in FileIds /\ GateOf(u) = ProbeGate(Units[u].file)
        BY <2>2, UnitFields DEF GateOf
      <3>2. left[GateOf(u)] = 0 /\ GateOf(u) \in Gates
        BY <2>0, <2>2, <3>1, GateFacts DEF CountedDown
      <3>3. ~Missing(u)
        BY <2>0, <3>2, NothingMissing
      <3> QED
        BY <2>2, <3>3 DEF Missing, Before
    <2> QED
      BY <2>1, <2>2 DEF InMemoryWhileHeld, MemoryInv, NoneStays
  <1> QED
    BY <1>1, MemoryInvHolds, PTL
=============================================================================
