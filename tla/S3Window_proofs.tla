---------------------------- MODULE S3Window_proofs ----------------------------
(***************************************************************************)
(* For any row groups, requests, window, batch and number of threads: the  *)
(* window's fetcher, its requests and the scan give a row group back once, *)
(* whichever of them it falls to, and never while it is scanned; what the  *)
(* window counts is what is in memory; and it is the abstract window.      *)
(***************************************************************************)
EXTENDS S3Window, DataLemmas, TLAPS

-----------------------------------------------------------------------------
(* Why a row group is given back once, and not while it is scanned.        *)

\* A row group's items are claimed and done once each.
AtItem(g) == {w \in Workers : wrg[w] = g /\ wpc[w] \in {"wait", "scan", "probe", "done"}}
Claimed(g) == {k \in 0..(NumRG * Items - 1) : k < cursor /\ (k \div Items) + 1 = g}
ItemsOnce ==
    \A g \in RowGroups : items_done[g] + Cardinality(AtItem(g)) <= Cardinality(Claimed(g))

\* The first row group no batch has taken up: it and those after it are empty.
Frontier == IF fpc \in {"look", "admit", "sized"} THEN first
            ELSE IF fpc = "collect" THEN at
            ELSE IF fpc \in TakingUp THEN at + 1
            ELSE next

In(g) == Parts(g) \subseteq resident
Gone(g) == Parts(g) \cap resident = {}
Unread(g) == state[g] \in {"waiting", "dropped"} /\ returns[g] = 0 /\ g \in admitted
CopiedIn(g) == Parts(g) \ JobsOf(g) \subseteq resident

\* Row groups are admitted in order, and wait untouched until they are taken up.
InPlanOrder ==
    \A g \in RowGroups :
        /\ g < next => g \in admitted \/ state[g] = "dropped"
        /\ g \in admitted => g < next
        /\ g >= Frontier => state[g] # "ready" /\ returns[g] = 0 /\ Gone(g)

\* A batch's row groups that have requests wait for them, and those in flight have
\* not landed, so that a row group's last request is one, and finds all the others.
RequestsPending ==
    /\ fpc \in TakingUp \cup {"collect", "dispatch"} =>
          \A g \in batch : /\ Unread(g) /\ CopiedIn(g) /\ JobsOf(g) # {}
                           /\ JobsOf(g) \cap resident = {}
    /\ flying # {} => fpc = "await"
    /\ flying \cap resident = {}
    /\ \A g \in RowGroups : JobsOf(g) \cap flying # {} =>
          Unread(g) /\ CopiedIn(g) /\ lpc[g] = "idle"

\* Three may give a row group back: the fetcher one dropped that has no requests,
\* its last request one dropped that has, the last item's thread one that is in.
FetcherHolds ==
    fpc \in TakingUp =>
        /\ Unread(at) /\ JobsOf(at) = {}
        /\ fpc = "ready" => In(at)
        /\ fpc # "ready" => state[at] = "dropped"
        /\ fpc = "give" => Gone(at)
RequestHolds ==
    \A g \in RowGroups : lpc[g] # "idle" =>
        /\ fpc = "await" /\ Unread(g) /\ state[g] = "dropped"
        /\ JobsOf(g) # {} /\ JobsOf(g) \cap flying = {}
        /\ lpc[g] = "give" => Gone(g)
Returning(w) == wpc[w] \in {"drop", "give"}
WorkerHolds ==
    \A w \in Workers : Returning(w) =>
        /\ state[wrg[w]] = "ready" /\ returns[wrg[w]] = 0 /\ items_done[wrg[w]] >= Items
        /\ wpc[w] = "give" => Gone(wrg[w])
        /\ \A v \in Workers : Returning(v) /\ wrg[v] = wrg[w] => v = w

\* A row group that is in stays in until its last item is done.
KeptIn ==
    /\ \A g \in RowGroups :
          /\ state[g] = "ready" => g \in admitted
          /\ state[g] = "ready" /\ items_done[g] < Items => In(g) /\ returns[g] = 0
          /\ state[g] = "ready" /\ items_done[g] >= Items =>
                returns[g] = 1 \/ \E w \in Workers : Returning(w) /\ wrg[w] = g
          /\ state[g] = "waiting" => items_done[g] < Items
          /\ state[g] = "failed" => fpc \in {"failing", "exit"}
    /\ \A w \in Workers : wpc[w] \in {"scan", "probe"} => state[wrg[w]] = "ready"

Counted ==
    /\ \A g \in RowGroups : returns[g] <= (IF g \in admitted THEN 1 ELSE 0)
    /\ \A p \in resident : p[1] \in Outstanding
    /\ submitted = released + SumFunctionOnSet(Bytes, Outstanding)
    /\ stopped => ScanOver

WindowInv ==
    /\ TypeOK /\ ItemsOnce /\ InPlanOrder /\ RequestsPending
    /\ FetcherHolds /\ RequestHolds /\ WorkerHolds /\ KeptIn /\ Counted
\* Requests and copied bytes belong to one row group, and each has some.
LEMMA PartFacts ==
    /\ \A g \in RowGroups :
          /\ JobsOf(g) \subseteq Parts(g) /\ Parts(g) \subseteq AllParts
          /\ Parts(g) # {} /\ g \in Nat /\ g >= 1 /\ g <= NumRG
          /\ Jobs[g] = 0 <=> JobsOf(g) = {}
          /\ \A p \in Parts(g) : p[1] = g
    /\ \A p \in AllParts : p[1] \in RowGroups /\ p \in Parts(p[1])
    /\ NumRG \in Nat
  <1>0. NumRG \in Nat
    BY WindowAssumption
  <1>1. ASSUME NEW g \in RowGroups
        PROVE  /\ JobsOf(g) \subseteq Parts(g) /\ Parts(g) \subseteq AllParts
               /\ g \in Nat /\ g >= 1 /\ g <= NumRG
               /\ \A p \in Parts(g) : p[1] = g
    <2>1. g \in Nat /\ g >= 1 /\ g <= NumRG
      BY <1>0 DEF RowGroups
    <2> QED
      BY <1>1, <2>1 DEF Parts, JobsOf, AllParts
  <1>2. ASSUME NEW g \in RowGroups
        PROVE  Jobs[g] = 0 <=> JobsOf(g) = {}
    <2>1. Jobs[g] \in Nat
      BY WindowAssumption
    <2>2. CASE Jobs[g] = 0
      BY <2>2 DEF JobsOf
    <2>3. CASE Jobs[g] # 0
      <3>1. <<g, 1>> \in JobsOf(g)
        BY <2>1, <2>3 DEF JobsOf
      <3> QED
        BY <2>3, <3>1
    <2> QED
      BY <2>2, <2>3
  <1>3. ASSUME NEW g \in RowGroups PROVE Parts(g) # {}
    <2>1. CASE g \in Copied
      BY <2>1 DEF Parts
    <2>2. CASE Jobs[g] > 0
      BY <1>2, <2>2 DEF Parts
    <2> QED
      BY <2>1, <2>2, PartsAssumption
  <1>4. ASSUME NEW p \in AllParts PROVE p[1] \in RowGroups /\ p \in Parts(p[1])
    <2>1. PICK g \in RowGroups : p \in Parts(g)
      BY DEF AllParts
    <2> QED
      BY <1>1, <2>1
  <1> QED
    BY <1>0, <1>1, <1>2, <1>3, <1>4

LEMMA RowGroupFacts ==
    /\ \A n : n \in RowGroups <=> n \in Nat /\ n >= 1 /\ n <= NumRG
    /\ \A n : n \in 1..(NumRG + 1) <=> n \in Nat /\ n >= 1 /\ n <= NumRG + 1
    /\ NumRG \in Nat
  BY WindowAssumption DEF RowGroups

\* What a row group's parts are after those of one are given back.
LEMMA DropFacts ==
    ASSUME NEW h \in RowGroups, resident' = resident \ Parts(h)
    PROVE  /\ Gone(h)'
           /\ \A g \in RowGroups : Gone(g) => Gone(g)'
           /\ \A g \in RowGroups \ {h} :
                 /\ In(g)' <=> In(g)
                 /\ CopiedIn(g)' <=> CopiedIn(g)
           /\ \A p \in resident' : p \in resident /\ p \notin Parts(h)
  BY PartFacts DEF Gone, In, CopiedIn

-----------------------------------------------------------------------------
(* What a step of each thread leaves alone.                                *)

LEMMA FetcherFrames ==
    ASSUME Fetcher
    PROVE  /\ UNCHANGED <<items_done, worker_vars, stopped, lpc, lost>>
           /\ FAdmit \/ UNCHANGED <<admitted, submitted>>
           /\ FGive \/ UNCHANGED <<released, returns>>
           /\ FReady \/ FFailOne \/ UNCHANGED state
           /\ FDispatch \/ UNCHANGED flying
           /\ FCollect \/ FDrop \/ UNCHANGED resident
  <1> USE DEF account_vars, request_vars
  <1>1. CASE FTop \/ FLook \/ FAdmit \/ FSized
    BY <1>1 DEF FTop, FLook, FAdmit, FSized
  <1>2. CASE FCollect \/ FReady \/ FDrop \/ FGive
    BY <1>2 DEF FCollect, FReady, FDrop, FGive, GiveCharge
  <1>3. CASE FDispatch \/ FAwait \/ FFail \/ FFailOne
    BY <1>3 DEF FDispatch, FAwait, FFail, FFailOne
  <1> QED
    BY <1>1, <1>2, <1>3 DEF Fetcher

LEMMA RequestFrames ==
    ASSUME NEW g \in RowGroups, Request(g)
    PROVE  /\ UNCHANGED <<items_done, admitted, submitted, cancel, fetcher_vars, worker_vars,
                          stopped>>
           /\ LandedGive(g) \/ UNCHANGED <<released, returns>>
           /\ (\E j \in JobsOf(g) : JobLands(j)) \/ UNCHANGED state
  BY DEF Request, JobLands, JobFails, LandedDrop, LandedGive, GiveCharge, account_vars

LEMMA WorkerFrames ==
    ASSUME TypeOK, NEW w \in Workers, Worker(w)
    PROVE  /\ UNCHANGED <<admitted, submitted, cancel, fetcher_vars, request_vars, stopped>>
           /\ WorkerGive(w) \/ UNCHANGED <<released, returns>>
           /\ GateDone(w) \/ UNCHANGED <<state, items_done>>
           /\ WorkerDrop(w) \/ UNCHANGED resident
           /\ WorkerClaim(w) \/ UNCHANGED <<cursor, wrg>>
           /\ \A v \in Workers \ {w} : wpc'[v] = wpc[v] /\ wrg'[v] = wrg[v]
  <1> USE DEF account_vars, WGoto, TypeOK, WorkersTypeOK
  <1>1. CASE WorkerClaim(w)
    BY <1>1 DEF WorkerClaim
  <1>2. CASE WorkerQuit(w) \/ WorkerWait(w) \/ WorkerScan(w) \/ WorkerProbe(w)
    BY <1>2 DEF WorkerQuit, WorkerWait, WorkerScan, WorkerProbe
  <1>3. CASE GateDone(w) \/ WorkerDrop(w) \/ WorkerGive(w)
    BY <1>3 DEF GateDone, WorkerDrop, WorkerGive, GiveCharge
  <1> QED
    BY <1>1, <1>2, <1>3 DEF Worker

\* The end of the scan moves nothing else.
LEMMA StopFrames ==
    ASSUME Stop \/ Joined \/ Done \/ UNCHANGED vars
    PROVE  UNCHANGED <<state, items_done, account_vars, fetcher_vars, request_vars, resident,
                       worker_vars>>
  BY DEF Stop, Joined, Done, vars, account_vars, fetcher_vars, request_vars, worker_vars

-----------------------------------------------------------------------------
LEMMA InitType == Init => TypeOK
  <1> SUFFICES ASSUME Init PROVE TypeOK
    OBVIOUS
  <1>1. FetcherTypeOK
    BY RowGroupFacts, ParameterAssumption DEF Init, FetcherTypeOK, FetcherPc, TakingUp
  <1>2. WorkersTypeOK
    BY DEF Init, WorkersTypeOK, WorkerPc
  <1> QED
    BY <1>1, <1>2 DEF Init, TypeOK

LEMMA FetcherType ==
    ASSUME TypeOK, Fetcher
    PROVE  TypeOK'
  <1>1. /\ WorkersTypeOK'
        /\ UNCHANGED <<items_done, stopped, lpc, lost>>
    BY FetcherFrames DEF TypeOK, WorkersTypeOK, worker_vars
  <1>2. \A n : n \in RowGroups => n \in Nat
    BY RowGroupFacts
  <1>3. FetcherTypeOK' /\ cancel' \in BOOLEAN
    <2> USE RowGroupFacts, ParameterAssumption, WindowAssumption
        DEF TypeOK, FetcherTypeOK, FetcherPc, TakingUp
    <2>1. CASE FTop
      BY <2>1 DEF FTop
    <2>2. CASE FLook
      BY <2>2 DEF FLook
    <2>3. CASE FAdmit
      <3>1. next \in RowGroups /\ Bytes[next] \in Nat
        BY <2>3 DEF FAdmit
      <3> QED
        BY <2>3, <3>1 DEF FAdmit
    <2>4. CASE FSized
      BY <2>4 DEF FSized, Doubled, Least, Most
    <2>5. CASE FCollect
      <3>1. at # next => at \in RowGroups
        BY <2>5 DEF FCollect
      <3>2. batch' \subseteq RowGroups
        BY <2>5, <3>1 DEF FCollect
      <3> QED
        BY <2>5, <3>2 DEF FCollect
    <2>6. CASE FReady \/ FDrop \/ FGive
      BY <2>6 DEF FReady, FDrop, FGive
    <2>7. CASE FDispatch \/ FAwait
      BY <2>7 DEF FDispatch, FAwait
    <2>9. CASE FFail
      BY <2>9 DEF FFail
    <2>8. CASE FFailOne
      BY <2>8 DEF FFailOne
    <2> QED
      BY <2>1, <2>2, <2>3, <2>4, <2>5, <2>6, <2>7, <2>8, <2>9 DEF Fetcher
  <1>4. admitted' \subseteq RowGroups /\ submitted' \in Nat
    <2>1. CASE FAdmit
      <3>1. next \in RowGroups /\ Bytes[next] \in Nat
        BY <2>1, WindowAssumption DEF FAdmit, TypeOK, FetcherTypeOK
      <3> QED
        BY <2>1, <3>1 DEF FAdmit, TypeOK
    <2> QED
      BY <2>1, FetcherFrames DEF TypeOK
  <1>5. released' \in Nat /\ returns' \in [RowGroups -> Nat]
    <2>1. CASE FGive
      <3>1. at \in RowGroups
        BY <2>1, RowGroupFacts DEF FGive, TypeOK, FetcherTypeOK, TakingUp
      <3>2. Bytes[at] \in Nat
        BY <3>1, WindowAssumption
      <3> QED
        BY <2>1, <3>1, <3>2 DEF FGive, GiveCharge, TypeOK
    <2> QED
      BY <2>1, FetcherFrames DEF TypeOK
  <1>6. state' \in [RowGroups -> {"waiting", "ready", "failed", "dropped"}]
    BY FetcherFrames DEF FReady, FFailOne, TypeOK
  <1>7. resident' \subseteq AllParts
    <2>1. CASE FCollect
      <3>1. at # next => at \in RowGroups
        BY <2>1, RowGroupFacts DEF FCollect, TypeOK, FetcherTypeOK
      <3> QED
        BY <2>1, <3>1, PartFacts DEF FCollect, TypeOK
    <2> QED
      BY <2>1, FetcherFrames DEF FDrop, DropPages, TypeOK
  <1>8. flying' \subseteq AllParts
    <2>1. CASE FDispatch
      BY <2>1, PartFacts DEF FDispatch, TypeOK, FetcherTypeOK
    <2> QED
      BY <2>1, FetcherFrames DEF TypeOK
  <1> QED
    BY <1>1, <1>3, <1>4, <1>5, <1>6, <1>7, <1>8 DEF TypeOK

LEMMA NextType ==
    ASSUME TypeOK, [Next]_vars
    PROVE  TypeOK'
  <1>1. ASSUME NEW g \in RowGroups, Request(g) PROVE TypeOK'
    <2>0. WorkersTypeOK' /\ FetcherTypeOK' /\ UNCHANGED <<items_done, admitted, submitted, cancel, stopped>>
      BY <1>1, RequestFrames DEF TypeOK, WorkersTypeOK, worker_vars, FetcherTypeOK, fetcher_vars
    <2> USE PartFacts, WindowAssumption DEF TypeOK, account_vars
    <2>1. ASSUME NEW j \in JobsOf(g), JobLands(j) \/ JobFails(j) PROVE TypeOK'
      <3>1. j \in AllParts
        OBVIOUS
      <3>2. flying' \subseteq AllParts /\ resident' \subseteq AllParts
        BY <2>1, <3>1 DEF JobLands, JobFails
      <3>3. state' \in [RowGroups -> {"waiting", "ready", "failed", "dropped"}]
        BY <2>1 DEF JobLands, JobFails
      <3>4. lpc' \in [RowGroups -> {"idle", "drop", "give"}]
        BY <2>1 DEF JobLands, JobFails
      <3>5. lost' \in BOOLEAN
        BY <2>1 DEF JobLands, JobFails
      <3> QED
        BY <2>0, <2>1, <3>2, <3>3, <3>4, <3>5 DEF JobLands, JobFails
    <2>2. CASE LandedDrop(g)
      BY <2>0, <2>2 DEF LandedDrop, DropPages
    <2>3. CASE LandedGive(g)
      BY <2>0, <2>3 DEF LandedGive, GiveCharge
    <2> QED
      BY <1>1, <2>1, <2>2, <2>3 DEF Request
  <1>2. ASSUME NEW w \in Workers, Worker(w) PROVE TypeOK'
    <2>0. /\ FetcherTypeOK'
          /\ UNCHANGED <<admitted, submitted, cancel, flying, lost, lpc, stopped>>
      BY <1>2, WorkerFrames DEF TypeOK, FetcherTypeOK, fetcher_vars, request_vars
    <2> USE WindowAssumption DEF TypeOK, WorkersTypeOK, WorkerPc, WGoto, account_vars
    <2>1. CASE WorkerClaim(w)
      <3>1. cursor < NumRG * Items => (cursor \div Items) + 1 \in RowGroups
        <4> SUFFICES ASSUME cursor < NumRG * Items PROVE (cursor \div Items) + 1 \in 1..NumRG
          BY RowGroupFacts
        <4>1. cursor \in Nat /\ Items \in Nat \ {0} /\ NumRG \in Nat
          BY ParameterAssumption, RowGroupFacts
        <4> HIDE DEF TypeOK, WorkersTypeOK, WorkerPc, WGoto
        <4>2. \A k \in Nat, b \in Nat \ {0}, n \in Nat : k < n * b => (k \div b) + 1 \in 1..n
          OBVIOUS
        <4> QED
          BY <4>1, <4>2
      <3>2. \A g \in RowGroups : g \in Nat
        BY PartFacts
      <3>3. NumRG * Items \in Nat /\ cursor \in Nat
        BY ParameterAssumption
      <3> DEFINE g == (cursor \div Items) + 1
      <3>4. cursor >= NumRG * Items \/ g \in RowGroups
        BY <3>1, <3>3
      <3> HIDE DEF g
      <3>5. CASE cursor >= NumRG * Items
        BY <2>0, <2>1, <3>5 DEF WorkerClaim
      <3>6. CASE ~(cursor >= NumRG * Items)
        <4>1. g \in RowGroups /\ g \in Nat /\ wrg' = [wrg EXCEPT ![w] = g]
          BY <2>1, <3>2, <3>4, <3>6 DEF WorkerClaim, g
        <4>2. wrg' \in [Workers -> Nat] /\ wrg'[w] \in RowGroups /\ \A v \in Workers \ {w} : wrg'[v] = wrg[v]
          BY <4>1
        <4> QED
          BY <2>0, <2>1, <4>2 DEF WorkerClaim
      <3> QED
        BY <3>5, <3>6
    <2>2. CASE WorkerQuit(w)
      BY <2>0, <2>2 DEF WorkerQuit
    <2>3. CASE WorkerWait(w) \/ WorkerScan(w) \/ WorkerProbe(w)
      BY <2>0, <2>3 DEF WorkerWait, WorkerScan, WorkerProbe
    <2>4. CASE GateDone(w)
      BY <2>0, <2>4 DEF GateDone, Onward
    <2>5. CASE WorkerDrop(w)
      BY <2>0, <2>5 DEF WorkerDrop, DropPages
    <2>6. CASE WorkerGive(w)
      BY <2>0, <2>6 DEF WorkerGive, GiveCharge, Onward
    <2> QED
      BY <1>2, <2>1, <2>2, <2>3, <2>4, <2>5, <2>6 DEF Worker
  <1>3. CASE Stop \/ Joined \/ Done \/ UNCHANGED vars
    BY <1>3, StopFrames DEF TypeOK, FetcherTypeOK, WorkersTypeOK, account_vars, fetcher_vars,
       request_vars, worker_vars, Stop, Joined, Done, vars
  <1> QED
    BY <1>1, <1>2, <1>3, FetcherType DEF Next

-----------------------------------------------------------------------------
(* Items.                                                                  *)

\* A row group's items can be counted: there are Items of them.
LEMMA ItemCounts ==
    /\ \A S \in SUBSET Workers : IsFiniteSet(S) /\ Cardinality(S) \in Nat
    /\ \A g \in RowGroups :
          /\ \A S \in SUBSET Claimed(g) : IsFiniteSet(S)
          /\ Cardinality(Claimed(g)) \in Nat /\ Cardinality(Claimed(g)) <= Items
  <1>1. \A S \in SUBSET Workers : IsFiniteSet(S) /\ Cardinality(S) \in Nat
    BY ThreadAssumption, FS_Subset, FS_CardinalityType
  <1>2. ASSUME NEW g \in RowGroups
        PROVE  /\ \A S \in SUBSET Claimed(g) : IsFiniteSet(S)
               /\ Cardinality(Claimed(g)) \in Nat /\ Cardinality(Claimed(g)) <= Items
    <2> DEFINE a == (g - 1) * Items  b == g * Items - 1
    <2>1. g \in Nat /\ g >= 1 /\ Items \in Nat \ {0}
      BY RowGroupFacts, ParameterAssumption
    <2>2. a \in Int /\ b \in Int /\ b - a + 1 = Items
      BY <2>1
    <2>3. \A k \in Nat : (k \div Items) + 1 = g => k \in a..b
      BY <2>1
    <2>4. \A k \in 0..(NumRG * Items - 1) : k \in Nat
      OBVIOUS
    <2>5. Claimed(g) \in SUBSET (a..b)
      BY <2>3, <2>4 DEF Claimed
    <2> HIDE DEF a, b
    <2>6. IsFiniteSet(a..b) /\ Cardinality(a..b) = Items
      <3>1. Cardinality(a..b) = IF a > b THEN 0 ELSE b - a + 1
        BY <2>2, FS_Interval
      <3> QED
        BY <2>1, <2>2, <3>1, FS_Interval
    <2>7. IsFiniteSet(Claimed(g)) /\ Cardinality(Claimed(g)) <= Cardinality(a..b)
      BY <2>5, <2>6, FS_Subset
    <2>8. Cardinality(Claimed(g)) \in Nat
      BY <2>7, FS_CardinalityType
    <2> QED
      BY <2>6, <2>7, <2>8, FS_Subset
  <1> QED
    BY <1>1, <1>2

AtStages == {"wait", "scan", "probe", "done"}

\* What a thread's step does to the item it is at.
LEMMA ItemStages ==
    ASSUME TypeOK, NEW w \in Workers, Worker(w)
    PROVE  \/ /\ wpc[w] = "claim" /\ wpc'[w] \in AtStages /\ cursor' = cursor + 1
              /\ cursor \in 0..(NumRG * Items - 1) /\ wrg'[w] = (cursor \div Items) + 1
              /\ items_done' = items_done
           \/ /\ wpc[w] = "claim" /\ wpc'[w] \notin AtStages /\ items_done' = items_done
              /\ cursor' = cursor + 1 \/ cursor' = cursor
           \/ /\ wpc[w] \in AtStages /\ wpc'[w] \in AtStages /\ wrg'[w] = wrg[w]
              /\ items_done' = items_done /\ cursor' = cursor
           \/ /\ GateDone(w) /\ wpc[w] = "done" /\ wpc'[w] \notin AtStages /\ cursor' = cursor
           \/ /\ Returning(w) /\ wpc'[w] \notin AtStages
              /\ items_done' = items_done /\ cursor' = cursor
  <1> USE DEF WGoto, TypeOK, WorkersTypeOK, AtStages, Returning
  <1>1. CASE WorkerClaim(w)
    <2>1. NumRG * Items \in Nat
      BY RowGroupFacts, ParameterAssumption
    <2> DEFINE n == NumRG * Items  g == (cursor \div Items) + 1
    <2>2. /\ n \in Nat /\ cursor \in Nat
          /\ wpc[w] = "claim" /\ cursor' = cursor + 1 /\ items_done' = items_done
          /\ IF cursor >= n THEN wpc' = [wpc EXCEPT ![w] = "exit"]
             ELSE /\ wrg' = [wrg EXCEPT ![w] = g]
                  /\ \/ wpc' = [wpc EXCEPT ![w] = "wait"]
                     \/ wpc' = [wpc EXCEPT ![w] = "done"]
      BY <1>1, <2>1 DEF WorkerClaim
    <2> HIDE DEF n, g
    <2>3. /\ wpc[w] = "claim" /\ cursor' = cursor + 1 /\ items_done' = items_done
          /\ \/ wpc'[w] = "exit"
             \/ cursor \in 0..(n - 1) /\ wrg'[w] = g /\ wpc'[w] \in {"wait", "done"}
      BY <2>2
    <2> QED
      BY <2>3 DEF n, g
  <1>2. CASE WorkerQuit(w)
    BY <1>2 DEF WorkerQuit
  <1>3. CASE WorkerWait(w) \/ WorkerScan(w) \/ WorkerProbe(w)
    BY <1>3 DEF WorkerWait, WorkerScan, WorkerProbe
  <1>4. CASE GateDone(w)
    BY <1>4 DEF GateDone, Onward
  <1>5. CASE WorkerDrop(w) \/ WorkerGive(w)
    BY <1>5 DEF WorkerDrop, WorkerGive, Onward
  <1> QED
    BY <1>1, <1>2, <1>3, <1>4, <1>5 DEF Worker

\* An item is claimed by one thread and done once.
LEMMA ItemsOnceKept ==
    ASSUME TypeOK, TypeOK', ItemsOnce, [Next]_vars
    PROVE  ItemsOnce'
  <1>1. CASE UNCHANGED <<cursor, items_done, worker_vars>>
    BY <1>1 DEF ItemsOnce, AtItem, Claimed, worker_vars
  <1>2. ASSUME NEW w \in Workers, Worker(w) PROVE ItemsOnce'
    <2> SUFFICES ASSUME NEW rg \in RowGroups
                 PROVE  items_done'[rg] + Cardinality(AtItem(rg)')
                           <= Cardinality(Claimed(rg)')
      BY DEF ItemsOnce
    <2>0. /\ AtItem(rg) \in SUBSET Workers /\ AtItem(rg)' \in SUBSET Workers
          /\ items_done[rg] \in Nat /\ items_done'[rg] \in Nat /\ cursor \in Nat
      BY DEF AtItem, TypeOK, WorkersTypeOK
    <2>a. /\ IsFiniteSet(Claimed(rg)) /\ Cardinality(Claimed(rg)) \in Nat
      BY ItemCounts
    <2>b. cursor' = cursor => Claimed(rg)' = Claimed(rg)
      BY DEF Claimed
    <2>c. cursor' = cursor + 1 =>
             IF cursor \in 0..(NumRG * Items - 1) /\ (cursor \div Items) + 1 = rg
             THEN /\ Claimed(rg)' = Claimed(rg) \cup {cursor} /\ cursor \notin Claimed(rg)
             ELSE Claimed(rg)' = Claimed(rg)
      <3> DEFINE all == 0..(NumRG * Items - 1)  Of(k) == (k \div Items) + 1
      <3>1. \A k \in all : k \in Int /\ k >= 0
        OBVIOUS
      <3> HIDE DEF all
      <3>2. Claimed(rg) = {k \in all : k < cursor /\ Of(k) = rg}
        BY DEF Claimed, all
      <3>3. Claimed(rg)' = {k \in all : k < cursor' /\ Of(k) = rg}
        BY DEF Claimed, all
      <3> HIDE DEF Of
      <3>4. cursor' = cursor + 1 =>
               IF cursor \in all /\ Of(cursor) = rg
               THEN Claimed(rg)' = Claimed(rg) \cup {cursor} /\ cursor \notin Claimed(rg)
               ELSE Claimed(rg)' = Claimed(rg)
        BY <2>0, <3>1, <3>2, <3>3
      <3> QED
        BY <3>4 DEF all, Of
    <2>d. Cardinality(Claimed(rg) \cup {cursor}) \in {Cardinality(Claimed(rg)), Cardinality(Claimed(rg)) + 1}
      BY <2>a, FS_AddElement
    <2>1. IsFiniteSet(AtItem(rg)) /\ Cardinality(AtItem(rg)) \in Nat /\ Cardinality(AtItem(rg)') \in Nat
      BY <2>0, ItemCounts
    <2>2. items_done[rg] + Cardinality(AtItem(rg)) <= Cardinality(Claimed(rg))
      BY DEF ItemsOnce
    <2>3. \A v \in Workers \ {w} : v \in AtItem(rg)' <=> v \in AtItem(rg)
      BY <1>2, WorkerFrames DEF AtItem
    <2>4. \A v \in Workers : v \in AtItem(rg) <=> wrg[v] = rg /\ wpc[v] \in AtStages
      BY DEF AtItem, AtStages
    <2>5. w \in AtItem(rg)' <=> wrg'[w] = rg /\ wpc'[w] \in AtStages
      BY DEF AtItem, AtStages
    <2>6. cursor' = cursor \/ cursor' = cursor + 1 =>
             /\ Cardinality(Claimed(rg)') \in Nat
             /\ Cardinality(Claimed(rg)) <= Cardinality(Claimed(rg)')
      <3>1. \/ Claimed(rg)' = Claimed(rg) \/ Claimed(rg)' = Claimed(rg) \cup {cursor}
            \/ ~(cursor' = cursor \/ cursor' = cursor + 1)
        BY <2>b, <2>c
      <3>2. CASE Claimed(rg)' = Claimed(rg)
        BY <2>a, <3>2
      <3>3. CASE Claimed(rg)' = Claimed(rg) \cup {cursor}
        BY <2>a, <2>d, <3>3
      <3> QED
        BY <3>1, <3>2, <3>3
    <2>7. CASE AtItem(rg)' = AtItem(rg) /\ items_done'[rg] = items_done[rg]
               /\ (cursor' = cursor \/ cursor' = cursor + 1)
      BY <2>0, <2>1, <2>2, <2>6, <2>7, <2>a
    <2>8. CASE /\ wpc[w] = "claim" /\ wpc'[w] \in AtStages /\ cursor' = cursor + 1
               /\ cursor \in 0..(NumRG * Items - 1) /\ wrg'[w] = (cursor \div Items) + 1
               /\ items_done' = items_done
      <3> DEFINE g == (cursor \div Items) + 1
      <3>1. w \notin AtItem(rg)
        BY <2>4, <2>8 DEF AtStages
      <3>2. CASE g = rg
        <4>1. AtItem(rg)' = AtItem(rg) \cup {w}
          BY <2>0, <2>3, <2>5, <2>8, <3>2
        <4>2. Cardinality(Claimed(rg)') = Cardinality(Claimed(rg)) + 1
          BY <2>8, <2>a, <2>c, <3>2, FS_AddElement
        <4>3. Cardinality(AtItem(rg) \cup {w}) = Cardinality(AtItem(rg)) + 1
          BY <2>1, <3>1, FS_AddElement
        <4>4. Cardinality(AtItem(rg)') = Cardinality(AtItem(rg)) + 1
          BY <4>1, <4>3
        <4>5. items_done'[rg] = items_done[rg]
          BY <2>8
        <4> QED
          BY <2>0, <2>1, <2>2, <2>a, <4>2, <4>4, <4>5
      <3>3. CASE g # rg
        <4>0. w \notin AtItem(rg)'
          BY <2>5, <2>8, <3>3
        <4>1. AtItem(rg)' = AtItem(rg)
          BY <2>0, <2>3, <3>1, <4>0
        <4> QED
          BY <2>7, <2>8, <4>1
      <3> QED
        BY <3>2, <3>3
    <2>9. CASE GateDone(w) /\ wpc[w] = "done" /\ wpc'[w] \notin AtStages /\ cursor' = cursor
      <3>1. CASE wrg[w] = rg
        <4>1. AtItem(rg)' = AtItem(rg) \ {w} /\ w \in AtItem(rg)
          BY <2>0, <2>3, <2>4, <2>5, <2>9, <3>1 DEF AtStages
        <4>2. Cardinality(AtItem(rg) \ {w}) = Cardinality(AtItem(rg)) - 1
          BY <2>1, <4>1, FS_RemoveElement
        <4>3. Cardinality(AtItem(rg)') = Cardinality(AtItem(rg)) - 1
          BY <4>1, <4>2
        <4>4. items_done'[rg] = items_done[rg] + 1
          BY <2>9, <3>1 DEF GateDone, TypeOK
        <4> QED
          BY <2>0, <2>1, <2>2, <2>6, <2>9, <2>a, <4>3, <4>4
      <3>2. CASE wrg[w] # rg
        <4>1. AtItem(rg)' = AtItem(rg)
          BY <2>0, <2>3, <2>4, <2>5, <2>9, <3>2
        <4>2. items_done'[rg] = items_done[rg]
          BY <2>9, <3>2 DEF GateDone, TypeOK
        <4> QED
          BY <2>7, <2>9, <4>1, <4>2
      <3> QED
        BY <3>1, <3>2
    <2>10. CASE /\ wpc[w] \in AtStages /\ wpc'[w] \in AtStages /\ wrg'[w] = wrg[w]
                /\ items_done' = items_done /\ cursor' = cursor
      <3>1. AtItem(rg)' = AtItem(rg)
        BY <2>0, <2>3, <2>4, <2>5, <2>10
      <3> QED
        BY <2>7, <2>10, <3>1
    <2>11. CASE /\ wpc[w] \notin AtStages /\ wpc'[w] \notin AtStages
                /\ items_done' = items_done /\ (cursor' = cursor + 1 \/ cursor' = cursor)
      <3>1. AtItem(rg)' = AtItem(rg)
        BY <2>0, <2>3, <2>4, <2>5, <2>11
      <3> QED
        BY <2>7, <2>11, <3>1
    <2>12. wpc[w] = "claim" \/ Returning(w) => wpc[w] \notin AtStages
      BY DEF AtStages, Returning
    <2> QED
      BY <1>2, <2>8, <2>9, <2>10, <2>11, <2>12, ItemStages
  <1> QED
    BY <1>1, <1>2, FetcherFrames, RequestFrames, StopFrames DEF Next, worker_vars

\* So who does a row group's last item is the only one at it.
LEMMA LastItem ==
    ASSUME TypeOK, ItemsOnce, NEW w \in Workers, wpc[w] \in AtStages
    PROVE  /\ wrg[w] \in RowGroups /\ items_done[wrg[w]] < Items
           /\ \A v \in Workers : v # w /\ wrg[v] = wrg[w] /\ wpc[v] \in AtStages =>
                 items_done[wrg[w]] + 1 < Items
  <1>1. wrg[w] \in RowGroups
    BY DEF TypeOK, WorkersTypeOK, AtStages
  <1>2. PICK g \in RowGroups : g = wrg[w]
    BY <1>1
  <1>3. /\ AtItem(g) \in SUBSET Workers /\ w \in AtItem(g) /\ items_done[g] \in Nat
        /\ Items \in Nat
    BY <1>2, ParameterAssumption DEF AtItem, AtStages, TypeOK
  <1>4. /\ IsFiniteSet(AtItem(g)) /\ Cardinality(AtItem(g)) \in Nat
        /\ Cardinality(Claimed(g)) \in Nat /\ Cardinality(Claimed(g)) <= Items
    BY <1>3, ItemCounts
  <1>5. items_done[g] + Cardinality(AtItem(g)) <= Cardinality(Claimed(g))
    BY DEF ItemsOnce
  <1>6. Cardinality(AtItem(g)) = Cardinality(AtItem(g) \ {w}) + 1 /\ Cardinality(AtItem(g) \ {w}) \in Nat
    BY <1>3, <1>4, Without
  <1>7. ASSUME NEW v \in Workers, v # w, wrg[v] = g, wpc[v] \in AtStages
        PROVE  Cardinality(AtItem(g) \ {w}) >= 1
    <2>1. v \in AtItem(g) \ {w} /\ IsFiniteSet(AtItem(g) \ {w})
      BY <1>4, <1>7, Without DEF AtItem, AtStages
    <2>2. Cardinality(AtItem(g) \ {w}) # 0
      BY <2>1, FS_EmptySet
    <2> QED
      BY <1>6, <2>2
  <1> QED
    BY <1>2, <1>3, <1>4, <1>5, <1>6, <1>7

-----------------------------------------------------------------------------
(* Row groups in plan order.                                               *)

\* Where the fetcher is, as its next row group to take up.
LEMMA FrontierFacts ==
    ASSUME TypeOK
    PROVE  /\ fpc \in {"look", "admit", "sized"} => Frontier = first
           /\ fpc = "collect" => Frontier = at
           /\ fpc \in TakingUp => Frontier = at + 1 /\ at \in RowGroups /\ at < next
           /\ fpc \notin {"look", "admit", "sized", "collect"} \cup TakingUp => Frontier = next
           /\ Frontier \in Nat /\ Frontier <= next
           /\ at \in Nat /\ next \in Nat /\ first \in Nat /\ next <= NumRG + 1
           /\ fpc = "collect" /\ at # next => at \in RowGroups
  BY RowGroupFacts DEF TypeOK, FetcherTypeOK, Frontier, TakingUp

\* What the fetcher does to the row groups' states.
LEMMA FetcherStates ==
    ASSUME TypeOK, FetcherHolds, Fetcher
    PROVE  \A g \in RowGroups :
              \/ state'[g] = state[g]
              \/ FReady /\ g = at /\ fpc = "ready" /\ state[g] = "waiting" /\ state'[g] = "ready"
              \/ FFailOne /\ fpc = "failing" /\ state[g] = "waiting" /\ state'[g] = "failed"
  <1>1. CASE FReady
    BY <1>1 DEF FReady, TypeOK
  <1>2. CASE FFailOne
    BY <1>2 DEF FFailOne, TypeOK
  <1> QED
    BY <1>1, <1>2, FetcherFrames

LEMMA PlanKeptByFetcher ==
    ASSUME TypeOK, TypeOK', InPlanOrder, FetcherHolds, Fetcher
    PROVE  InPlanOrder'
  <1> SUFFICES ASSUME NEW g \in RowGroups
               PROVE  /\ g < next' => g \in admitted' \/ state'[g] = "dropped"
                      /\ g \in admitted' => g < next'
                      /\ g >= Frontier' => state'[g] # "ready" /\ returns'[g] = 0 /\ Gone(g)'
    BY DEF InPlanOrder
  <1>0. /\ g \in Nat /\ next \in Nat /\ next' \in Nat /\ at \in Nat /\ first \in Nat
        /\ at' \in Nat /\ first' \in Nat
    BY RowGroupFacts DEF TypeOK, FetcherTypeOK
  <1>1. /\ g < next => g \in admitted \/ state[g] = "dropped"
        /\ g \in admitted => g < next
        /\ g >= Frontier => state[g] # "ready" /\ returns[g] = 0 /\ Gone(g)
    BY DEF InPlanOrder
  <1>2. state[g] = "dropped" => state'[g] = "dropped"
    BY FetcherStates
  <1>3. CASE FTop \/ FSized
    <2>1. UNCHANGED <<state, admitted, next, returns, resident>>
      BY <1>3 DEF FTop, FSized, account_vars
    <2>2. Frontier \in {first, next} /\ Frontier' \in {first, next}
          /\ (Frontier' = Frontier \/ (Frontier = first /\ Frontier' = next /\ first <= next))
      <3>1. CASE FTop
        BY <3>1 DEF FTop, Frontier, TakingUp
      <3>2. CASE FSized
        <4>1. first <= next /\ Frontier = first
          BY <3>2 DEF FSized, Frontier, TypeOK, FetcherTypeOK
        <4> QED
          BY <3>2, <4>1 DEF FSized, Frontier, TakingUp
      <3> QED
        BY <1>3, <3>1, <3>2
    <2> QED
      BY <1>0, <1>1, <2>1, <2>2 DEF Gone
  <1>4. CASE FLook \/ FAdmit
    <2>1. UNCHANGED <<state, returns, resident>> /\ Frontier' = Frontier
      BY <1>4 DEF FLook, FAdmit, account_vars, Frontier, TakingUp
    <2>2. \/ UNCHANGED <<next, admitted>>
          \/ next' = next + 1 /\ state[next] = "dropped" /\ admitted' = admitted
          \/ next' = next + 1 /\ admitted' = admitted \cup {next}
      BY <1>4 DEF FLook, FAdmit, account_vars
    <2> QED
      BY <1>0, <1>1, <2>1, <2>2 DEF Gone
  <1>5. CASE FCollect
    <2>1. UNCHANGED <<state, admitted, next, returns>> /\ Frontier = at
      BY <1>5 DEF FCollect, account_vars, Frontier
    <2>2. CASE at = next
      BY <1>1, <1>5, <2>1, <2>2 DEF FCollect, Frontier, TakingUp, Gone
    <2>3. CASE at # next
      <3>1. at \in RowGroups /\ Frontier' = at + 1
        <4>1. at \in RowGroups
          BY <1>5, <2>3, FrontierFacts DEF FCollect
        <4>2. (at' = at + 1 /\ fpc' = "collect") \/ (at' = at /\ fpc' \in TakingUp)
          BY <1>5, <2>3 DEF FCollect, TakingUp
        <4> QED
          BY <4>1, <4>2 DEF Frontier, TakingUp
      <3>2. resident' \subseteq resident \cup Parts(at)
        BY <1>5 DEF FCollect
      <3>3. g >= at + 1 => Gone(g)'
        BY <1>0, <1>1, <2>1, <3>1, <3>2, PartFacts DEF Gone
      <3> QED
        BY <1>0, <1>1, <2>1, <3>1, <3>3
    <2> QED
      BY <2>2, <2>3
  <1>6. CASE FReady
    <2>1. UNCHANGED <<admitted, next, returns, resident>> /\ Frontier' = Frontier /\ Frontier = at + 1
      BY <1>6 DEF FReady, account_vars, Frontier, TakingUp
    <2>2. g >= at + 1 => state'[g] = state[g]
      BY <1>0, <1>6 DEF FReady, TypeOK
    <2> QED
      BY <1>0, <1>1, <1>2, <2>1, <2>2 DEF Gone
  <1>7. CASE FDrop \/ FGive
    <2>1. UNCHANGED <<state, admitted, next>> /\ Frontier' = Frontier /\ Frontier = at + 1
      BY <1>0, <1>7 DEF FDrop, FGive, GiveCharge, account_vars, Frontier, TakingUp
    <2>2. Gone(g) => Gone(g)'
      BY <1>7 DEF FDrop, FGive, DropPages, Gone
    <2>3. g >= at + 1 => returns'[g] = returns[g]
      BY <1>0, <1>7, FetcherFrames DEF FDrop, FGive, GiveCharge, TypeOK, account_vars
    <2> QED
      BY <1>1, <2>1, <2>2, <2>3
  <1>8. CASE FDispatch \/ FAwait \/ FFail \/ FFailOne
    <2>1. UNCHANGED <<admitted, next, returns, resident>> /\ Frontier' = Frontier /\ Frontier = next
      BY <1>8 DEF FDispatch, FAwait, FFail, FFailOne, account_vars, Frontier, TakingUp
    <2>2. state'[g] = state[g] \/ (state'[g] = "failed" /\ state[g] = "waiting")
      BY <1>8, FetcherStates DEF FReady, FDispatch, FAwait, FFail, FFailOne
    <2> QED
      BY <1>0, <1>1, <1>2, <2>1, <2>2 DEF Gone
  <1> QED
    BY <1>3, <1>4, <1>5, <1>6, <1>7, <1>8 DEF Fetcher

\* What a request touches is its own row group's, one that is admitted and unread.
LEMMA RequestReaches ==
    ASSUME TypeOK, RequestsPending, RequestHolds, NEW g \in RowGroups, Request(g)
    PROVE  /\ fpc = "await" /\ Unread(g) /\ JobsOf(g) # {}
           /\ \A h \in RowGroups \ {g} :
                 /\ state'[h] = state[h] /\ returns'[h] = returns[h] /\ lpc'[h] = lpc[h]
                 /\ JobsOf(h) \cap flying' = JobsOf(h) \cap flying
                 /\ Parts(h) \cap resident' = Parts(h) \cap resident
           /\ \/ state'[g] = state[g]
              \/ /\ state[g] = "waiting" /\ state'[g] = "ready" /\ lpc'[g] = "idle"
                 /\ \E j \in JobsOf(g) : JobLands(j) /\ AllIn(j)
  <1>1. \A h \in RowGroups, p \in Parts(g) : h # g => p \notin Parts(h) /\ p \notin JobsOf(h)
    BY PartFacts
  <1>2. ASSUME NEW j \in JobsOf(g), JobLands(j) \/ JobFails(j)
        PROVE  /\ fpc = "await" /\ Unread(g) /\ JobsOf(g) # {} /\ lpc[g] = "idle"
               /\ j[1] = g /\ j \in Parts(g)
    BY <1>2, PartFacts DEF JobLands, JobFails, RequestsPending
  <1>3. ASSUME NEW j \in JobsOf(g), JobLands(j)
        PROVE  /\ \A h \in RowGroups \ {g} :
                     /\ state'[h] = state[h] /\ returns'[h] = returns[h] /\ lpc'[h] = lpc[h]
                     /\ JobsOf(h) \cap flying' = JobsOf(h) \cap flying
                     /\ Parts(h) \cap resident' = Parts(h) \cap resident
               /\ \/ state'[g] = state[g]
                  \/ /\ state[g] = "waiting" /\ state'[g] = "ready" /\ lpc'[g] = "idle"
                     /\ AllIn(j)
    <2>1. j[1] = g /\ j \in Parts(g) /\ lpc[g] = "idle"
      BY <1>2, <1>3
    <2>2. flying' = flying \ {j} /\ resident' = resident \cup {j} /\ returns' = returns
      BY <1>3 DEF JobLands, account_vars
    <2>3. \/ state' = state /\ (lpc' = lpc \/ lpc' = [lpc EXCEPT ![g] = "drop"])
          \/ /\ AllIn(j) /\ state[g] = "waiting" /\ state' = [state EXCEPT ![g] = "ready"]
             /\ lpc' = lpc
      BY <1>3, <2>1 DEF JobLands
    <2>4. \A h \in RowGroups \ {g} : state'[h] = state[h] /\ lpc'[h] = lpc[h]
      BY <2>3 DEF TypeOK
    <2>5. \/ state'[g] = state[g]
          \/ state[g] = "waiting" /\ state'[g] = "ready" /\ lpc'[g] = "idle" /\ AllIn(j)
      BY <2>1, <2>3 DEF TypeOK
    <2>6. \A h \in RowGroups \ {g} : /\ JobsOf(h) \cap flying' = JobsOf(h) \cap flying
                                     /\ Parts(h) \cap resident' = Parts(h) \cap resident
      BY <1>1, <2>1, <2>2
    <2> QED
      BY <2>2, <2>4, <2>5, <2>6
  <1>4. ASSUME NEW j \in JobsOf(g), JobFails(j)
        PROVE  /\ UNCHANGED <<state, returns, lpc, resident>>
               /\ \A h \in RowGroups \ {g} : JobsOf(h) \cap flying' = JobsOf(h) \cap flying
    BY <1>1, <1>2, <1>4 DEF JobFails, account_vars
  <1>5. CASE LandedDrop(g) \/ LandedGive(g)
    <2>1. fpc = "await" /\ Unread(g) /\ JobsOf(g) # {}
      BY <1>5 DEF LandedDrop, LandedGive, RequestHolds
    <2>2. UNCHANGED <<state, flying>>
      BY <1>5 DEF LandedDrop, LandedGive
    <2>3. \A h \in RowGroups \ {g} : returns'[h] = returns[h] /\ lpc'[h] = lpc[h]
      BY <1>5 DEF LandedDrop, LandedGive, GiveCharge, account_vars, TypeOK
    <2>4. \A h \in RowGroups \ {g} : Parts(h) \cap resident' = Parts(h) \cap resident
      BY <1>1, <1>5 DEF LandedDrop, LandedGive, DropPages
    <2> QED
      BY <2>1, <2>2, <2>3, <2>4
  <1> QED
    BY <1>2, <1>3, <1>4, <1>5 DEF Request

\* What a thread of the scan touches.
LEMMA WorkerReaches ==
    ASSUME TypeOK, ItemsOnce, KeptIn, WorkerHolds, NEW w \in Workers, Worker(w)
    PROVE  \A h \in RowGroups :
              /\ \/ state'[h] = state[h]
                 \/ /\ state[h] = "waiting" /\ state'[h] = "dropped" /\ GateDone(w)
                    /\ h = wrg[w] /\ items_done[h] + 1 = Items
              /\ items_done'[h] = items_done[h] \/
                    (GateDone(w) /\ h = wrg[w] /\ items_done'[h] = items_done[h] + 1)
              /\ returns'[h] = returns[h] \/
                    (WorkerGive(w) /\ h = wrg[w] /\ state[h] = "ready" /\ returns'[h] = 1)
              /\ \/ Parts(h) \cap resident' = Parts(h) \cap resident
                 \/ WorkerDrop(w) /\ h = wrg[w] /\ state[h] = "ready" /\ Gone(h)'
  <1> SUFFICES ASSUME NEW h \in RowGroups
               PROVE  /\ \/ state'[h] = state[h]
                         \/ /\ state[h] = "waiting" /\ state'[h] = "dropped" /\ GateDone(w)
                            /\ h = wrg[w] /\ items_done[h] + 1 = Items
                      /\ items_done'[h] = items_done[h] \/
                            (GateDone(w) /\ h = wrg[w] /\ items_done'[h] = items_done[h] + 1)
                      /\ returns'[h] = returns[h] \/
                            (WorkerGive(w) /\ h = wrg[w] /\ state[h] = "ready" /\ returns'[h] = 1)
                      /\ \/ Parts(h) \cap resident' = Parts(h) \cap resident
                         \/ WorkerDrop(w) /\ h = wrg[w] /\ state[h] = "ready" /\ Gone(h)'
    OBVIOUS
  <1>1. CASE GateDone(w)
    BY <1>1, WorkerFrames DEF GateDone, TypeOK, account_vars
  <1>2. CASE WorkerDrop(w)
    <2>1. UNCHANGED <<state, items_done, returns>> /\ resident' = resident \ Parts(wrg[w])
      BY <1>2 DEF WorkerDrop, DropPages, account_vars
    <2>2. wrg[w] \in RowGroups /\ state[wrg[w]] = "ready"
      BY <1>2 DEF WorkerDrop, WorkerHolds, Returning, TypeOK, WorkersTypeOK
    <2>3. h # wrg[w] => Parts(h) \cap resident' = Parts(h) \cap resident
      BY <2>1, <2>2, PartFacts
    <2>4. h = wrg[w] => Gone(h)'
      BY <2>1 DEF Gone
    <2> QED
      BY <1>2, <2>1, <2>2, <2>3, <2>4
  <1>3. CASE WorkerGive(w)
    <2>1. UNCHANGED <<state, items_done, resident>> /\ returns' = [returns EXCEPT ![wrg[w]] = @ + 1]
      BY <1>3 DEF WorkerGive, GiveCharge
    <2>2. state[wrg[w]] = "ready" /\ returns[wrg[w]] = 0
      BY <1>3 DEF WorkerGive, WorkerHolds, Returning
    <2> QED
      BY <1>3, <2>1, <2>2 DEF TypeOK
  <1> QED
    BY <1>1, <1>2, <1>3, WorkerFrames

LEMMA PlanKept ==
    ASSUME WindowInv, TypeOK', [Next]_vars
    PROVE  InPlanOrder'
  <1> USE DEF WindowInv
  <1>0. Fetcher \/ (Frontier' = Frontier /\ UNCHANGED <<admitted, next, fpc>>)
    <2>1. Fetcher \/ UNCHANGED <<fetcher_vars, admitted>>
      BY RequestFrames, WorkerFrames, StopFrames DEF Next, account_vars
    <2> QED
      BY <2>1 DEF fetcher_vars, Frontier
  <1>1. ASSUME ~Fetcher, NEW h \in RowGroups,
               /\ state[h] = "dropped" => state'[h] = "dropped"
               /\ h >= Frontier => /\ state'[h] # "ready" /\ returns'[h] = returns[h]
                                   /\ Gone(h) => Gone(h)'
        PROVE  /\ h < next' => h \in admitted' \/ state'[h] = "dropped"
               /\ h \in admitted' => h < next'
               /\ h >= Frontier' => state'[h] # "ready" /\ returns'[h] = 0 /\ Gone(h)'
    BY <1>0, <1>1 DEF InPlanOrder
  <1>2. ASSUME NEW g \in RowGroups, Request(g), ~Fetcher PROVE InPlanOrder'
    <2>1. /\ fpc = "await" /\ g \in admitted
          /\ g < next /\ g \in Nat /\ next \in Nat
      BY <1>2, RequestReaches, RowGroupFacts DEF Unread, InPlanOrder, TypeOK, FetcherTypeOK
    <2>2. Frontier = next
      BY <2>1 DEF Frontier, TakingUp
    <2>3. ~ (g >= Frontier)
      BY <2>1, <2>2
    <2> SUFFICES ASSUME NEW h \in RowGroups
                 PROVE  /\ state[h] = "dropped" => state'[h] = "dropped"
                        /\ h >= Frontier => /\ state'[h] # "ready" /\ returns'[h] = returns[h]
                                            /\ Gone(h) => Gone(h)'
      BY <1>1, <1>2 DEF InPlanOrder
    <2>4. state[h] = "dropped" => state'[h] = "dropped"
      BY <1>2, RequestReaches
    <2>5. ASSUME h >= Frontier
          PROVE  state'[h] # "ready" /\ returns'[h] = returns[h] /\ (Gone(h) => Gone(h)')
      <3>1. h # g
        BY <2>3, <2>5
      <3>2. state'[h] = state[h] /\ returns'[h] = returns[h] /\ Parts(h) \cap resident' = Parts(h) \cap resident
        BY <1>2, <3>1, RequestReaches
      <3> QED
        BY <2>5, <3>2 DEF InPlanOrder, Gone
    <2> QED
      BY <2>4, <2>5
  <1>3. ASSUME NEW w \in Workers, Worker(w), ~Fetcher PROVE InPlanOrder'
    <2> SUFFICES ASSUME NEW h \in RowGroups
                 PROVE  /\ state[h] = "dropped" => state'[h] = "dropped"
                        /\ h >= Frontier => /\ state'[h] # "ready" /\ returns'[h] = returns[h]
                                            /\ Gone(h) => Gone(h)'
      BY <1>1, <1>3 DEF InPlanOrder
    <2>1. state[h] = "dropped" => state'[h] = "dropped"
      BY <1>3, WorkerReaches
    <2>2. h >= Frontier => state[h] # "ready"
      BY DEF InPlanOrder
    <2>3. h >= Frontier => state'[h] # "ready" /\ returns'[h] = returns[h]
      BY <1>3, <2>2, WorkerReaches
    <2>4. Gone(h) => Gone(h)'
      BY <1>3, WorkerReaches DEF Gone
    <2> QED
      BY <2>1, <2>3, <2>4
  <1>4. CASE UNCHANGED <<state, account_vars, fetcher_vars, resident>>
    BY <1>4 DEF InPlanOrder, account_vars, fetcher_vars, Frontier, Gone
  <1> QED
    BY <1>2, <1>3, <1>4, PlanKeptByFetcher, StopFrames DEF Next

-----------------------------------------------------------------------------
(* Who gives a row group back.                                             *)

\* The fetcher touches the row group it takes up, which is not in.
LEMMA FetcherReaches ==
    ASSUME TypeOK, InPlanOrder, FetcherHolds, Fetcher
    PROVE  \A h \in RowGroups :
              /\ returns'[h] = returns[h] \/
                    /\ FGive /\ h = at /\ Unread(h) /\ state[h] = "dropped" /\ returns'[h] = 1
                    /\ Gone(h)
              /\ \/ Parts(h) \cap resident' = Parts(h) \cap resident
                 \/ FDrop /\ h = at /\ state[h] = "dropped" /\ Gone(h)' /\ JobsOf(h) = {}
                 \/ /\ FCollect /\ h = at /\ state[h] \notin {"dropped", "ready"} /\ Gone(h)
                    /\ returns[h] = 0 /\ h < next
                    /\ Parts(h) \cap resident' = Parts(h) \ JobsOf(h)
  <1> SUFFICES ASSUME NEW h \in RowGroups
               PROVE  /\ returns'[h] = returns[h] \/
                            /\ FGive /\ h = at /\ Unread(h) /\ state[h] = "dropped"
                            /\ returns'[h] = 1 /\ Gone(h)
                      /\ \/ Parts(h) \cap resident' = Parts(h) \cap resident
                         \/ FDrop /\ h = at /\ state[h] = "dropped" /\ Gone(h)' /\ JobsOf(h) = {}
                         \/ /\ FCollect /\ h = at /\ state[h] \notin {"dropped", "ready"}
                            /\ Gone(h) /\ returns[h] = 0 /\ h < next
                            /\ Parts(h) \cap resident' = Parts(h) \ JobsOf(h)
    OBVIOUS
  <1>1. CASE FGive
    <2>1. fpc = "give" /\ returns' = [returns EXCEPT ![at] = @ + 1] /\ resident' = resident
      BY <1>1 DEF FGive, GiveCharge
    <2>2. Unread(at) /\ state[at] = "dropped" /\ Gone(at)
      BY <2>1 DEF FetcherHolds, TakingUp
    <2> QED
      BY <1>1, <2>1, <2>2 DEF TypeOK, Unread
  <1>2. CASE FDrop
    <2>1. fpc = "drop" /\ returns' = returns /\ resident' = resident \ Parts(at)
      BY <1>2 DEF FDrop, DropPages, account_vars
    <2>2. state[at] = "dropped" /\ JobsOf(at) = {} /\ at \in RowGroups
      BY <2>1, FrontierFacts DEF FetcherHolds, TakingUp
    <2>3. h = at => Gone(h)'
      BY <2>1 DEF Gone
    <2>4. h # at => Parts(h) \cap resident' = Parts(h) \cap resident
      BY <2>1, <2>2, PartFacts
    <2> QED
      BY <1>2, <2>1, <2>2, <2>3, <2>4
  <1>3. CASE FCollect
    <2>1. fpc = "collect" /\ returns' = returns
      BY <1>3 DEF FCollect, account_vars
    <2>2. \/ resident' = resident
          \/ /\ at # next /\ state[at] # "dropped"
             /\ resident' = resident \cup (Parts(at) \ JobsOf(at))
      BY <1>3 DEF FCollect
    <2>3. at # next => at \in RowGroups /\ Frontier = at
      BY <2>1, FrontierFacts
    <2>4. at # next => state[at] # "ready" /\ returns[at] = 0 /\ Gone(at) /\ at < next
      BY <2>1, <2>3, FrontierFacts DEF InPlanOrder
    <2>5. at # next /\ h # at => Parts(h) \cap Parts(at) = {}
      BY <2>3, PartFacts
    <2>6. CASE /\ at # next /\ state[at] # "dropped" /\ h = at
               /\ resident' = resident \cup (Parts(at) \ JobsOf(at))
      <3>1. Parts(h) \cap resident' = Parts(h) \ JobsOf(h)
        BY <2>4, <2>6 DEF Gone
      <3> QED
        BY <1>3, <2>1, <2>4, <2>6, <3>1
    <2>7. CASE resident' = resident
      BY <2>1, <2>7
    <2>8. CASE /\ at # next /\ h # at
               /\ resident' = resident \cup (Parts(at) \ JobsOf(at))
      BY <2>1, <2>5, <2>8
    <2> QED
      BY <2>2, <2>6, <2>7, <2>8
  <1>4. CASE ~FGive /\ ~FDrop /\ ~FCollect
    BY <1>4, FetcherFrames
  <1> QED
    BY <1>1, <1>2, <1>3, <1>4

\* A row group that is in stays so, and keeps its parts until it is given back.
LEMMA ReadyStays ==
    ASSUME WindowInv, [Next]_vars, NEW g \in RowGroups, state[g] = "ready"
    PROVE  /\ state'[g] = "ready"
           /\ returns'[g] = returns[g] \/
                (\E w \in Workers : WorkerGive(w) /\ wrg[w] = g /\ returns'[g] = 1)
           /\ Parts(g) \cap resident' = Parts(g) \cap resident \/
                (\E w \in Workers : WorkerDrop(w) /\ wrg[w] = g)
           /\ Gone(g) => Gone(g)'
  <1> USE DEF WindowInv
  <1>1. CASE Fetcher
    BY <1>1, FetcherStates, FetcherReaches DEF Gone
  <1>2. ASSUME NEW h \in RowGroups, Request(h)
        PROVE  /\ state'[g] = "ready" /\ returns'[g] = returns[g]
               /\ Parts(g) \cap resident' = Parts(g) \cap resident
    <2>1. h # g
      BY <1>2, RequestReaches DEF Unread
    <2> QED
      BY <1>2, <2>1, RequestReaches
  <1>3. ASSUME NEW w \in Workers, Worker(w)
        PROVE  /\ state'[g] = "ready"
               /\ returns'[g] = returns[g] \/ (WorkerGive(w) /\ wrg[w] = g /\ returns'[g] = 1)
               /\ Parts(g) \cap resident' = Parts(g) \cap resident \/
                     (WorkerDrop(w) /\ wrg[w] = g)
               /\ Gone(g) => Gone(g)'
    BY <1>3, WorkerReaches DEF Gone
  <1>4. CASE UNCHANGED <<state, account_vars, resident>>
    BY <1>4 DEF account_vars, Gone
  <1> QED
    BY <1>1, <1>2, <1>3, <1>4, StopFrames DEF Next, Gone

\* The scan leaves alone a row group that is not in, but may drop it.
LEMMA UnreadStays ==
    ASSUME WindowInv, NEW w \in Workers, Worker(w), NEW g \in RowGroups, Unread(g)
    PROVE  /\ Unread(g)' /\ Parts(g) \cap resident' = Parts(g) \cap resident
           /\ state[g] = "dropped" => state'[g] = "dropped"
           /\ CopiedIn(g) => CopiedIn(g)'
           /\ Gone(g) => Gone(g)'
           /\ In(g) => In(g)'
  <1>1. Parts(g) \cap resident' = Parts(g) \cap resident
    BY WorkerReaches DEF WindowInv, Unread
  <1>2. Unread(g)' /\ (state[g] = "dropped" => state'[g] = "dropped")
    BY WorkerReaches, WorkerFrames DEF WindowInv, Unread
  <1> QED
    BY <1>1, <1>2 DEF CopiedIn, Gone, In

LEMMA FetcherHoldsKept ==
    ASSUME WindowInv, [Next]_vars
    PROVE  FetcherHolds'
  <1> USE DEF WindowInv
  <1>1. CASE FCollect
    <2>1. fpc' \in TakingUp => /\ at' = at /\ at # next /\ Jobs[at] = 0
                               /\ state[at] # "dropped" => fpc' = "ready"
                               /\ state[at] = "dropped" => fpc' = "drop" /\ at \in admitted
      BY <1>1 DEF FCollect, TakingUp, Owed
    <2>2. fpc = "collect" /\ UNCHANGED <<state, admitted, returns>>
      BY <1>1 DEF FCollect, account_vars
    <2>3. at # next => /\ at \in RowGroups /\ at < next /\ Frontier = at
      BY <2>2, FrontierFacts
    <2>4. at # next => /\ at \in admitted \/ state[at] = "dropped"
                       /\ state[at] # "ready" /\ returns[at] = 0 /\ Gone(at)
      BY <2>3, FrontierFacts DEF InPlanOrder
    <2>5. at # next => state[at] # "failed"
      BY <2>2, <2>3 DEF KeptIn
    <2>6. at # next => state[at] \in {"waiting", "dropped"}
      BY <2>3, <2>4, <2>5 DEF TypeOK
    <2>7. at # next /\ state[at] # "dropped" /\ Jobs[at] = 0 => Parts(at) \subseteq resident'
      BY <1>1, <2>3, PartFacts DEF FCollect
    <2>8. Jobs[at] = 0 /\ at # next => JobsOf(at) = {}
      BY <2>3, PartFacts
    <2> QED
      BY <2>1, <2>2, <2>4, <2>6, <2>7, <2>8 DEF FetcherHolds, Unread, In, TakingUp
  <1>2. CASE FReady
    <2>1. fpc = "ready" /\ UNCHANGED <<admitted, returns, resident>>
      BY <1>2 DEF FReady, account_vars
    <2>2. Unread(at) /\ JobsOf(at) = {}
      BY <2>1 DEF FetcherHolds, TakingUp
    <2>3. fpc' \in TakingUp => fpc' = "drop" /\ at' = at /\ state' = state /\ state[at] # "waiting"
      BY <1>2 DEF FReady, TakingUp
    <2> QED
      BY <2>1, <2>2, <2>3 DEF FetcherHolds, Unread
  <1>3. CASE FDrop
    <2>1. /\ fpc = "drop" /\ fpc' = "give" /\ UNCHANGED <<state, admitted, returns, at>>
          /\ resident' = resident \ Parts(at)
      BY <1>3 DEF FDrop, DropPages, account_vars
    <2>2. Unread(at) /\ JobsOf(at) = {} /\ state[at] = "dropped"
      BY <2>1 DEF FetcherHolds, TakingUp
    <2> QED
      BY <2>1, <2>2 DEF FetcherHolds, Unread, Gone
  <1>4. CASE FTop \/ FLook \/ FAdmit \/ FSized \/ FGive \/ FDispatch \/ FAwait \/ FFail \/ FFailOne
    <2>1. fpc' \notin TakingUp
      BY <1>4 DEF FTop, FLook, FAdmit, FSized, FGive, FDispatch, FAwait, FFail, FFailOne, TakingUp
    <2> QED
      BY <2>1 DEF FetcherHolds
  <1>5. ASSUME NEW g \in RowGroups, Request(g) PROVE FetcherHolds'
    <2>1. fpc' = "await"
      BY <1>5, RequestReaches, RequestFrames DEF fetcher_vars
    <2> QED
      BY <2>1 DEF FetcherHolds, TakingUp
  <1>6. ASSUME NEW w \in Workers, Worker(w) PROVE FetcherHolds'
    <2>1. UNCHANGED <<fpc, at>>
      BY <1>6, WorkerFrames DEF fetcher_vars
    <2>2. CASE fpc \in TakingUp
      <3>1. PICK g \in RowGroups : g = at
        BY <2>2, FrontierFacts
      <3>2. /\ Unread(g) /\ JobsOf(g) = {} /\ (fpc = "ready" => In(g))
            /\ (fpc # "ready" => state[g] = "dropped") /\ (fpc = "give" => Gone(g))
        BY <2>2, <3>1 DEF FetcherHolds
      <3>3. /\ Unread(g)' /\ (fpc = "ready" => In(g)')
            /\ (fpc # "ready" => state'[g] = "dropped") /\ (fpc = "give" => Gone(g)')
        BY <1>6, <3>2, UnreadStays
      <3>4. at' = g /\ fpc' = fpc
        BY <2>1, <3>1
      <3> QED
        BY <3>2, <3>3, <3>4 DEF FetcherHolds, Unread, In, Gone
    <2> QED
      BY <2>1, <2>2 DEF FetcherHolds
  <1>7. CASE UNCHANGED <<state, account_vars, fetcher_vars, resident>>
    BY <1>7 DEF FetcherHolds, Unread, In, Gone, account_vars, fetcher_vars
  <1> QED
    BY <1>1, <1>2, <1>3, <1>4, <1>5, <1>6, <1>7, StopFrames DEF Next, Fetcher

LEMMA RequestHoldsKept ==
    ASSUME WindowInv, [Next]_vars
    PROVE  RequestHolds'
  <1> USE DEF WindowInv
  <1>1. CASE Fetcher
    <2>1. lpc' = lpc
      BY <1>1, FetcherFrames
    <2>2. fpc = "await" => \A g \in RowGroups : lpc[g] = "idle"
      BY <1>1 DEF Fetcher, FTop, FLook, FAdmit, FSized, FCollect, FReady, FDrop, FGive, FDispatch,
                  FAwait, FFail, FFailOne
    <2> QED
      BY <2>1, <2>2 DEF RequestHolds
  <1>2. ASSUME NEW g \in RowGroups, Request(g) PROVE RequestHolds'
    <2>0. /\ fpc = "await" /\ fpc' = "await" /\ admitted' = admitted /\ Unread(g) /\ JobsOf(g) # {}
      BY <1>2, RequestReaches, RequestFrames DEF fetcher_vars
    <2>1. ASSUME NEW h \in RowGroups \ {g}, lpc'[h] # "idle"
          PROVE  /\ Unread(h)' /\ state'[h] = "dropped" /\ JobsOf(h) # {}
                 /\ JobsOf(h) \cap flying' = {} /\ (lpc'[h] = "give" => Gone(h)')
      <3>1. /\ state'[h] = state[h] /\ returns'[h] = returns[h] /\ lpc'[h] = lpc[h]
            /\ JobsOf(h) \cap flying' = JobsOf(h) \cap flying
            /\ Parts(h) \cap resident' = Parts(h) \cap resident
        BY <1>2, RequestReaches
      <3> QED
        BY <2>0, <2>1, <3>1 DEF RequestHolds, Unread, Gone
    <2>2. ASSUME lpc'[g] # "idle"
          PROVE  /\ Unread(g)' /\ state'[g] = "dropped"
                 /\ JobsOf(g) \cap flying' = {} /\ (lpc'[g] = "give" => Gone(g)')
      <3>1. ASSUME NEW j \in JobsOf(g), JobLands(j) PROVE lpc[g] = "idle" /\ state[g] # "waiting" /\ AllIn(j)
                /\ state' = state /\ lpc' = [lpc EXCEPT ![g] = "drop"] /\ flying' = flying \ {j}
                /\ returns' = returns
        <4>1. lpc[g] = "idle" /\ j[1] = g
          BY <3>1, PartFacts DEF JobLands, RequestsPending
        <4> QED
          BY <2>2, <3>1, <4>1 DEF JobLands, account_vars
      <3>2. ASSUME NEW j \in JobsOf(g), JobLands(j)
            PROVE  /\ Unread(g)' /\ state'[g] = "dropped"
                   /\ JobsOf(g) \cap flying' = {} /\ (lpc'[g] = "give" => Gone(g)')
        <4>1. JobsOf(g) \subseteq resident \cup {j}
          <5>1. j[1] = g
            BY <3>2, PartFacts
          <5> QED
            BY <3>1, <3>2, <5>1 DEF AllIn
        <4>2. JobsOf(g) \cap flying' = {}
          BY <3>1, <3>2, <4>1 DEF RequestsPending
        <4>3. lpc'[g] = "drop" /\ state[g] = "dropped"
          BY <2>0, <3>1, <3>2 DEF TypeOK, Unread
        <4> QED
          BY <2>0, <3>1, <3>2, <4>2, <4>3 DEF Unread
      <3>3. ASSUME NEW j \in JobsOf(g), JobFails(j) PROVE FALSE
        BY <2>2, <3>3 DEF JobFails, RequestsPending
      <3>4. CASE LandedDrop(g)
        <4>1. /\ lpc[g] # "idle" /\ UNCHANGED <<state, flying, returns>>
              /\ resident' = resident \ Parts(g)
          BY <3>4 DEF LandedDrop, DropPages, account_vars
        <4> QED
          BY <2>0, <4>1 DEF RequestHolds, Unread, Gone
      <3>5. CASE LandedGive(g)
        BY <2>2, <3>5 DEF LandedGive, TypeOK
      <3> QED
        BY <1>2, <3>2, <3>3, <3>4, <3>5 DEF Request
    <2> QED
      BY <2>0, <2>1, <2>2 DEF RequestHolds
  <1>3. ASSUME NEW w \in Workers, Worker(w) PROVE RequestHolds'
    <2>1. UNCHANGED <<fpc, lpc, flying>>
      BY <1>3, WorkerFrames DEF fetcher_vars, request_vars
    <2> SUFFICES ASSUME NEW g \in RowGroups, lpc[g] # "idle"
                 PROVE  /\ fpc = "await" /\ Unread(g)' /\ state'[g] = "dropped"
                        /\ JobsOf(g) # {} /\ JobsOf(g) \cap flying = {}
                        /\ lpc[g] = "give" => Gone(g)'
      BY <2>1 DEF RequestHolds
    <2> QED
      BY <1>3, UnreadStays DEF RequestHolds
  <1>4. CASE UNCHANGED <<state, account_vars, fetcher_vars, request_vars, resident>>
    BY <1>4 DEF RequestHolds, Unread, Gone, account_vars, fetcher_vars, request_vars
  <1> QED
    BY <1>1, <1>2, <1>3, <1>4, StopFrames DEF Next

Batching == TakingUp \cup {"collect", "dispatch"}

\* The batch's row groups wait until it is dispatched.
LEMMA BatchKeptByFetcher ==
    ASSUME WindowInv, Fetcher, fpc' \in Batching
    PROVE  \A g \in batch' : /\ Unread(g)' /\ CopiedIn(g)' /\ JobsOf(g) # {}
                             /\ JobsOf(g) \cap resident' = {}
  <1> USE DEF WindowInv
  <1>1. CASE FSized
    BY <1>1 DEF FSized, Batching, TakingUp
  <1>2. CASE ~FSized
    <2>1. fpc \in Batching
      BY <1>2 DEF Fetcher, FTop, FLook, FAdmit, FSized, FCollect, FReady, FDrop, FGive,
                  FDispatch, FAwait, FFail, FFailOne, Batching, TakingUp
    <2>2. batch \subseteq RowGroups
      BY DEF TypeOK, FetcherTypeOK
    <2>3. ASSUME NEW g \in batch
          PROVE  /\ Unread(g)' /\ CopiedIn(g)' /\ JobsOf(g) # {}
                 /\ JobsOf(g) \cap resident' = {}
      <3>1. /\ g \in RowGroups /\ Unread(g) /\ CopiedIn(g) /\ JobsOf(g) # {}
            /\ JobsOf(g) \cap resident = {}
        BY <2>1, <2>2 DEF RequestsPending, Batching
      <3>2. fpc \in TakingUp => g # at
        BY <3>1 DEF FetcherHolds
      <3>3. state'[g] = state[g] /\ returns'[g] = returns[g] /\ g \in admitted'
        <4>1. FReady \/ FGive => fpc \in TakingUp
          BY DEF FReady, FGive, TakingUp
        <4>2. ~FFailOne
          BY <2>1 DEF FFailOne, Batching, TakingUp
        <4>3. admitted \subseteq admitted'
          BY FetcherFrames DEF FAdmit
        <4> QED
          BY <3>1, <3>2, <4>1, <4>2, <4>3, FetcherStates, FetcherReaches DEF Unread
      <3>4. \/ Parts(g) \cap resident' = Parts(g) \cap resident
            \/ Gone(g) /\ Parts(g) \cap resident' = Parts(g) \ JobsOf(g)
        BY <3>1, FetcherReaches
      <3>5. JobsOf(g) \subseteq Parts(g)
        BY <3>1, PartFacts
      <3>6. CopiedIn(g)' /\ JobsOf(g) \cap resident' = {}
        BY <3>1, <3>4, <3>5 DEF CopiedIn, Gone
      <3> QED
        BY <3>1, <3>3, <3>6 DEF Unread
    <2>4. CASE batch' = batch
      BY <2>3, <2>4
    <2>5. CASE FCollect /\ batch' # batch
      <3>1. /\ batch' = batch \cup {at} /\ at # next /\ state[at] # "dropped" /\ Jobs[at] # 0
            /\ resident' = resident \cup (Parts(at) \ JobsOf(at)) /\ fpc = "collect"
            /\ UNCHANGED <<state, admitted, returns>>
        BY <2>5 DEF FCollect, account_vars
      <3>2. at \in RowGroups /\ at < next /\ Frontier = at
        BY <3>1, FrontierFacts
      <3>3. at \in admitted /\ state[at] # "ready" /\ returns[at] = 0 /\ Gone(at)
        BY <3>1, <3>2, FrontierFacts DEF InPlanOrder
      <3>4. state[at] = "waiting"
        BY <3>1, <3>2, <3>3 DEF KeptIn, TypeOK
      <3>5. PICK g \in RowGroups : g = at
        BY <3>2
      <3>6. Unread(g)' /\ CopiedIn(g)' /\ JobsOf(g) # {} /\ JobsOf(g) \cap resident' = {}
        BY <3>1, <3>3, <3>4, <3>5, PartFacts DEF Unread, CopiedIn, Gone
      <3> QED
        BY <2>3, <3>1, <3>5, <3>6
    <2>6. ~FCollect => batch' = batch
      BY <1>2 DEF Fetcher, FTop, FLook, FAdmit, FReady, FDrop, FGive, FDispatch, FAwait, FFail, FFailOne
    <2> QED
      BY <2>4, <2>5, <2>6
  <1> QED
    BY <1>1, <1>2

LEMMA RequestsPendingKept ==
    ASSUME WindowInv, TypeOK', [Next]_vars
    PROVE  RequestsPending'
  <1> USE DEF WindowInv
  <1>1. CASE Fetcher
    <2>1. fpc' \in Batching => \A g \in batch' : /\ Unread(g)' /\ CopiedIn(g)' /\ JobsOf(g) # {}
                                                 /\ JobsOf(g) \cap resident' = {}
      BY <1>1, BatchKeptByFetcher
    <2>2. CASE flying' = {}
      BY <2>1, <2>2 DEF RequestsPending, Batching
    <2>3. CASE FDispatch /\ flying' # {}
      <3>1. /\ fpc = "dispatch" /\ UNCHANGED <<state, admitted, returns, resident, lpc>>
            /\ fpc' = "await" /\ flying' = UNION {JobsOf(g) : g \in batch}
        <4>1. flying = {}
          BY <2>3 DEF FDispatch, RequestsPending
        <4> QED
          BY <2>3, <4>1 DEF FDispatch, account_vars
      <3>2. batch \subseteq RowGroups
        BY DEF TypeOK, FetcherTypeOK
      <3>3. \A g \in batch : /\ Unread(g) /\ CopiedIn(g) /\ JobsOf(g) \cap resident = {}
        BY <3>1 DEF RequestsPending
      <3>4. flying' \cap resident' = {}
        BY <3>1, <3>3
      <3>5. ASSUME NEW g \in RowGroups, JobsOf(g) \cap flying' # {}
            PROVE  Unread(g)' /\ CopiedIn(g)' /\ lpc'[g] = "idle"
        <4>1. g \in batch
          BY <3>1, <3>2, <3>5, PartFacts
        <4>2. lpc[g] = "idle"
          BY <3>1 DEF RequestHolds
        <4> QED
          BY <3>1, <3>3, <4>1, <4>2 DEF Unread, CopiedIn
      <3> QED
        BY <3>1, <3>4, <3>5 DEF RequestsPending, TakingUp
    <2>4. ~FDispatch => flying' = {}
      <3>1. ASSUME ~FDispatch PROVE flying' = {}
        <4>1. flying' = flying
          BY <1>1, <3>1, FetcherFrames
        <4>2. fpc = "await" => flying = {}
          BY <1>1 DEF Fetcher, FTop, FLook, FAdmit, FSized, FCollect, FReady, FDrop, FGive, FDispatch,
                      FAwait, FFail, FFailOne
        <4> QED
          BY <4>1, <4>2 DEF RequestsPending
      <3> QED
        BY <3>1
    <2> QED
      BY <2>2, <2>3, <2>4
  <1>2. ASSUME NEW g \in RowGroups, Request(g) PROVE RequestsPending'
    <2>0. fpc = "await" /\ fpc' = "await" /\ admitted' = admitted /\ Unread(g)
      BY <1>2, RequestReaches, RequestFrames DEF fetcher_vars
    <2>1. ASSUME NEW h \in RowGroups \ {g}, JobsOf(h) \cap flying' # {}
          PROVE  Unread(h)' /\ CopiedIn(h)' /\ lpc'[h] = "idle"
      <3>1. /\ state'[h] = state[h] /\ returns'[h] = returns[h] /\ lpc'[h] = lpc[h]
            /\ JobsOf(h) \cap flying' = JobsOf(h) \cap flying
            /\ Parts(h) \cap resident' = Parts(h) \cap resident
        BY <1>2, RequestReaches
      <3>2. Unread(h) /\ CopiedIn(h) /\ lpc[h] = "idle"
        BY <2>1, <3>1 DEF RequestsPending
      <3> QED
        BY <2>0, <3>1, <3>2 DEF Unread, CopiedIn
    <2>2. flying' \cap resident' = {}
      BY <1>2 DEF Request, JobLands, JobFails, LandedDrop, LandedGive, DropPages, RequestsPending
    <2>3. ASSUME JobsOf(g) \cap flying' # {}
          PROVE  Unread(g)' /\ CopiedIn(g)' /\ lpc'[g] = "idle"
      <3>1. flying' \subseteq flying
        BY <1>2 DEF Request, JobLands, JobFails, LandedDrop, LandedGive
      <3>2. CopiedIn(g) /\ lpc[g] = "idle"
        BY <2>3, <3>1 DEF RequestsPending
      <3>3. ASSUME NEW j \in JobsOf(g), JobLands(j)
            PROVE  state' = state /\ lpc' = lpc /\ returns' = returns /\ resident \subseteq resident'
        <4>1. j[1] = g /\ flying' = flying \ {j}
          BY <3>3, PartFacts DEF JobLands
        <4>2. ~AllIn(j)
          BY <2>3, <3>3, <4>1 DEF AllIn, RequestsPending
        <4> QED
          BY <3>3, <4>2 DEF JobLands, account_vars
      <3>4. ASSUME NEW j \in JobsOf(g), JobFails(j)
            PROVE  state' = state /\ lpc' = lpc /\ returns' = returns /\ resident \subseteq resident'
        BY <3>4 DEF JobFails, account_vars
      <3>5. state' = state /\ lpc' = lpc /\ returns' = returns /\ resident \subseteq resident'
        BY <1>2, <3>2, <3>3, <3>4 DEF Request, LandedDrop, LandedGive
      <3> QED
        BY <2>0, <3>2, <3>5 DEF Unread, CopiedIn
    <2> QED
      BY <2>0, <2>1, <2>2, <2>3 DEF RequestsPending, TakingUp
  <1>3. ASSUME NEW w \in Workers, Worker(w) PROVE RequestsPending'
    <2>1. UNCHANGED <<fpc, batch, lpc, flying>>
      BY <1>3, WorkerFrames DEF fetcher_vars, request_vars
    <2>2. batch \subseteq RowGroups
      BY DEF TypeOK, FetcherTypeOK
    <2>3. \A g \in RowGroups : Unread(g) =>
              /\ Unread(g)' /\ (CopiedIn(g) => CopiedIn(g)')
              /\ Parts(g) \cap resident' = Parts(g) \cap resident
      BY <1>3, UnreadStays
    <2>4. resident' \subseteq resident
      BY <1>3, WorkerFrames DEF WorkerDrop, DropPages
    <2>5. ASSUME fpc' \in Batching, NEW g \in batch'
          PROVE  /\ Unread(g)' /\ CopiedIn(g)' /\ JobsOf(g) # {}
                 /\ JobsOf(g) \cap resident' = {}
      BY <2>1, <2>2, <2>3, <2>4, <2>5 DEF RequestsPending, Batching
    <2>6. ASSUME NEW g \in RowGroups, JobsOf(g) \cap flying' # {}
          PROVE  Unread(g)' /\ CopiedIn(g)' /\ lpc'[g] = "idle"
      BY <2>1, <2>3, <2>6 DEF RequestsPending
    <2> QED
      BY <2>1, <2>4, <2>5, <2>6 DEF RequestsPending, Batching
  <1>4. CASE UNCHANGED <<state, account_vars, fetcher_vars, request_vars, resident>>
    BY <1>4 DEF RequestsPending, Unread, CopiedIn, account_vars, fetcher_vars, request_vars
  <1> QED
    BY <1>1, <1>2, <1>3, <1>4, StopFrames DEF Next

\* A thread starts to give a row group back when it does its last item.
LEMMA WorkerStages ==
    ASSUME TypeOK, NEW w \in Workers, Worker(w)
    PROVE  /\ Returning(w)' => wrg'[w] = wrg[w] /\ wrg[w] \in RowGroups
           /\ wpc'[w] = "drop" => /\ GateDone(w) /\ wpc[w] = "done" /\ state[wrg[w]] = "ready"
                                  /\ items_done[wrg[w]] + 1 = Items
           /\ wpc'[w] = "give" => WorkerDrop(w) /\ wpc[w] = "drop"
           /\ GateDone(w) => wpc[w] = "done" /\ wrg[w] \in RowGroups
           /\ Returning(w) => (WorkerDrop(w) /\ wpc'[w] = "give") \/ WorkerGive(w)
           /\ wpc'[w] \in {"scan", "probe"} =>
                 /\ wrg'[w] = wrg[w] /\ wrg[w] \in RowGroups
                 /\ state[wrg[w]] = "ready" \/ wpc[w] \in {"scan", "probe"}
  <1> USE DEF WGoto, TypeOK, WorkersTypeOK
  <1>1. GateDone(w) => wpc[w] = "done" /\ wrg[w] \in RowGroups
    BY DEF GateDone
  <1>2. WorkerDrop(w) => wpc'[w] = "give" /\ wrg' = wrg /\ wpc[w] = "drop" /\ wrg[w] \in RowGroups
    BY DEF WorkerDrop
  <1>3. WorkerGive(w) => wpc'[w] \in {"claim", "exit"} /\ wpc[w] = "give"
    BY DEF WorkerGive, Onward
  <1>4. CASE WorkerClaim(w) \/ WorkerQuit(w)
    <2>1. wpc[w] = "claim" /\ wpc'[w] \in {"exit", "wait", "done"}
      BY <1>4 DEF WorkerClaim, WorkerQuit
    <2> HIDE DEF TypeOK
    <2> QED
      BY <1>1, <2>1 DEF Returning
  <1>5. CASE WorkerWait(w) \/ WorkerScan(w) \/ WorkerProbe(w)
    <2>1. /\ wpc[w] \in {"wait", "scan", "probe"} /\ wrg' = wrg /\ wrg[w] \in RowGroups
          /\ wpc'[w] \in {"scan", "probe", "done"}
          /\ wpc'[w] \in {"scan", "probe"} => state[wrg[w]] = "ready" \/ wpc[w] = "scan"
      BY <1>5 DEF WorkerWait, WorkerScan, WorkerProbe
    <2> HIDE DEF TypeOK
    <2> QED
      BY <1>1, <2>1 DEF Returning
  <1>6. CASE GateDone(w)
    <2>1. /\ wpc[w] = "done" /\ wrg' = wrg /\ wrg[w] \in RowGroups
          /\ wpc'[w] \in {"claim", "exit", "drop"}
          /\ wpc'[w] = "drop" => state[wrg[w]] = "ready" /\ items_done[wrg[w]] + 1 = Items
      BY <1>6 DEF GateDone, Onward
    <2> HIDE DEF TypeOK
    <2> QED
      BY <1>6, <2>1 DEF Returning
  <1>7. CASE WorkerDrop(w) \/ WorkerGive(w)
    BY <1>1, <1>2, <1>3, <1>7 DEF Returning
  <1> QED
    BY <1>4, <1>5, <1>6, <1>7 DEF Worker

\* Items are only ever done, and the last one by one thread.
LEMMA ItemsGrow ==
    ASSUME WindowInv, [Next]_vars, NEW g \in RowGroups
    PROVE  \/ items_done'[g] = items_done[g]
           \/ \E w \in Workers : /\ Worker(w) /\ GateDone(w) /\ wrg[w] = g /\ items_done[g] < Items
                                 /\ items_done'[g] = items_done[g] + 1
  <1> USE DEF WindowInv
  <1>1. ASSUME NEW w \in Workers, Worker(w)
        PROVE  \/ items_done'[g] = items_done[g]
               \/ /\ GateDone(w) /\ wrg[w] = g /\ items_done[g] < Items
                  /\ items_done'[g] = items_done[g] + 1
    <2>1. GateDone(w) => items_done[wrg[w]] < Items
      BY <1>1, WorkerStages, LastItem DEF AtStages
    <2> QED
      BY <1>1, <2>1, WorkerReaches
  <1> QED
    BY <1>1, FetcherFrames, RequestFrames, StopFrames DEF Next

LEMMA WorkerHoldsKept ==
    ASSUME WindowInv, TypeOK', [Next]_vars
    PROVE  WorkerHolds'
  <1> USE DEF WindowInv
  <1>0. /\ \A g \in RowGroups : items_done[g] \in Nat /\ items_done'[g] \in Nat
        /\ Items \in Nat
    BY ParameterAssumption DEF TypeOK
  <1>1. ASSUME NEW v \in Workers, Returning(v)
        PROVE  /\ wrg[v] \in RowGroups /\ state[wrg[v]] = "ready" /\ returns[wrg[v]] = 0
               /\ items_done[wrg[v]] >= Items /\ (wpc[v] = "give" => Gone(wrg[v]))
               /\ \A u \in Workers : Returning(u) /\ wrg[u] = wrg[v] => u = v
    BY <1>1 DEF WorkerHolds, Returning, TypeOK, WorkersTypeOK
  <1>2. ASSUME NEW v \in Workers, Returning(v), wrg'[v] = wrg[v], wpc'[v] = wpc[v],
               ~ \E w \in Workers : WorkerGive(w) /\ wrg[w] = wrg[v]
        PROVE  /\ state'[wrg'[v]] = "ready" /\ returns'[wrg'[v]] = 0
               /\ items_done'[wrg'[v]] >= Items /\ (wpc'[v] = "give" => Gone(wrg[v])')
    <2>1. PICK g \in RowGroups : g = wrg[v]
      BY <1>1, <1>2
    <2>2. /\ state[g] = "ready" /\ returns[g] = 0 /\ items_done[g] >= Items
          /\ wpc[v] = "give" => Gone(g)
      BY <1>1, <1>2, <2>1
    <2>3. items_done'[g] >= Items
      BY <1>0, <2>2, ItemsGrow
    <2>4. state'[g] = "ready" /\ returns'[g] = 0 /\ (Gone(g) => Gone(g)')
      BY <1>2, <2>1, <2>2, ReadyStays
    <2>5. wrg'[v] = g
      BY <1>2, <2>1
    <2> QED
      BY <1>2, <2>2, <2>3, <2>4, <2>5 DEF Gone
  <1>3. CASE UNCHANGED worker_vars /\ ~ \E w \in Workers : Worker(w)
    <2>1. ASSUME NEW v \in Workers, Returning(v)'
          PROVE  /\ state'[wrg'[v]] = "ready" /\ returns'[wrg'[v]] = 0
                 /\ items_done'[wrg'[v]] >= Items /\ (wpc'[v] = "give" => Gone(wrg[v])')
                 /\ \A u \in Workers : Returning(u)' /\ wrg'[u] = wrg'[v] => u = v
      <3>1. UNCHANGED <<wpc, wrg>> /\ Returning(v)
        BY <1>3, <2>1 DEF worker_vars, Returning
      <3>2. ~ \E w \in Workers : WorkerGive(w)
        BY <1>3 DEF Worker
      <3>3. /\ state'[wrg'[v]] = "ready" /\ returns'[wrg'[v]] = 0
            /\ items_done'[wrg'[v]] >= Items /\ (wpc'[v] = "give" => Gone(wrg[v])')
        BY <1>2, <3>1, <3>2
      <3> QED
        BY <1>1, <3>1, <3>3 DEF Returning
    <2> QED
      BY <2>1 DEF WorkerHolds
  <1>4. ASSUME NEW w \in Workers, Worker(w) PROVE WorkerHolds'
    <2>0. \A v \in Workers \ {w} : wpc'[v] = wpc[v] /\ wrg'[v] = wrg[v]
      BY <1>4, WorkerFrames
    <2>1. ASSUME NEW v \in Workers \ {w}, Returning(v)'
          PROVE  /\ state'[wrg'[v]] = "ready" /\ returns'[wrg'[v]] = 0
                 /\ items_done'[wrg'[v]] >= Items /\ (wpc'[v] = "give" => Gone(wrg[v])')
                 /\ Returning(w)' => wrg'[w] # wrg'[v]
                 /\ \A u \in Workers : Returning(u)' /\ wrg'[u] = wrg'[v] => u = v
      <3>1. Returning(v) /\ wrg'[v] = wrg[v] /\ wpc'[v] = wpc[v]
        BY <2>0, <2>1 DEF Returning
      <3>2. \A u \in Workers : WorkerGive(u) => Returning(u)
        BY DEF WorkerGive, Returning
      <3>3. \A u \in Workers : WorkerGive(u) => wpc'[u] # wpc[u]
        BY DEF WorkerGive, WGoto, Onward, TypeOK, WorkersTypeOK
      <3>4. ~ \E u \in Workers : WorkerGive(u) /\ wrg[u] = wrg[v]
        BY <1>1, <3>1, <3>2, <3>3
      <3>5. Returning(w)' => wrg'[w] # wrg'[v]
        <4>1. CASE Returning(w)
          BY <1>1, <1>4, <3>1, <4>1, WorkerStages
        <4>2. CASE ~Returning(w) /\ Returning(w)'
          <5>1. /\ wrg'[w] = wrg[w] /\ wrg[w] \in RowGroups /\ wpc[w] = "done"
            BY <1>4, <4>2, WorkerStages DEF Returning
          <5>2. items_done[wrg[w]] < Items
            BY <5>1, LastItem DEF AtStages
          <5>3. items_done[wrg[v]] >= Items
            BY <1>1, <3>1
          <5> QED
            BY <1>0, <3>1, <5>1, <5>2, <5>3
        <4> QED
          BY <4>1, <4>2
      <3>6. \A u \in Workers : Returning(u)' /\ wrg'[u] = wrg'[v] => u = v
        BY <1>1, <2>0, <3>1, <3>5 DEF Returning
      <3>7. /\ state'[wrg'[v]] = "ready" /\ returns'[wrg'[v]] = 0
            /\ items_done'[wrg'[v]] >= Items /\ (wpc'[v] = "give" => Gone(wrg[v])')
        BY <1>2, <3>1, <3>4
      <3> QED
        BY <3>5, <3>6, <3>7
    <2>2. ASSUME Returning(w)'
          PROVE  /\ state'[wrg'[w]] = "ready" /\ returns'[wrg'[w]] = 0
                 /\ items_done'[wrg'[w]] >= Items /\ (wpc'[w] = "give" => Gone(wrg[w])')
      <3>1. PICK g \in RowGroups : g = wrg[w] /\ wrg'[w] = g
        BY <1>4, <2>2, WorkerStages
      <3>2. CASE wpc'[w] = "drop"
        <4>1. GateDone(w) /\ state[g] = "ready" /\ items_done[g] + 1 = Items
          BY <1>4, <3>1, <3>2, WorkerStages
        <4>2. items_done'[g] = Items /\ returns' = returns
          BY <3>1, <4>1 DEF GateDone, TypeOK, account_vars
        <4>3. returns[g] = 0
          BY <1>0, <4>1 DEF KeptIn
        <4>4. state'[g] = "ready"
          BY <4>1, ReadyStays
        <4> QED
          BY <1>0, <3>1, <3>2, <4>2, <4>3, <4>4
      <3>3. CASE wpc'[w] = "give"
        <4>1. WorkerDrop(w) /\ wpc[w] = "drop"
          BY <1>4, <3>3, WorkerStages
        <4>2. state[g] = "ready" /\ returns[g] = 0 /\ items_done[g] >= Items
          BY <1>1, <3>1, <4>1 DEF Returning
        <4>3. /\ UNCHANGED <<state, returns, items_done>> /\ resident' = resident \ Parts(g)
          BY <3>1, <4>1 DEF WorkerDrop, DropPages, account_vars
        <4> QED
          BY <3>1, <4>2, <4>3 DEF Gone
      <3> QED
        BY <2>2, <3>2, <3>3 DEF Returning
    <2>3. ASSUME NEW v \in Workers, Returning(v)'
          PROVE  /\ state'[wrg'[v]] = "ready" /\ returns'[wrg'[v]] = 0
                 /\ items_done'[wrg'[v]] >= Items /\ (wpc'[v] = "give" => Gone(wrg[v])')
                 /\ \A u \in Workers : Returning(u)' /\ wrg'[u] = wrg'[v] => u = v
      BY <2>1, <2>2, <2>3
    <2> QED
      BY <2>3 DEF WorkerHolds
  <1> QED
    BY <1>3, <1>4, FetcherFrames, RequestFrames, StopFrames DEF Next

\* A row group becomes ready, and stays admitted, with all of it in and nothing of
\* it given back.
LEMMA BecomesReady ==
    ASSUME WindowInv, [Next]_vars, NEW g \in RowGroups, state[g] # "ready", state'[g] = "ready"
    PROVE  /\ state[g] = "waiting" /\ Unread(g) /\ In(g)' /\ returns'[g] = 0
           /\ items_done'[g] < Items
  <1> USE DEF WindowInv
  <1>0. /\ \A h \in RowGroups : items_done[h] \in Nat
    BY DEF TypeOK
  <1>1. CASE Fetcher
    <2>1. FReady /\ g = at /\ fpc = "ready" /\ state[g] = "waiting"
      BY <1>1, FetcherStates
    <2>2. Unread(g) /\ In(g)
      BY <2>1 DEF FetcherHolds, TakingUp
    <2>3. UNCHANGED <<returns, items_done, resident>>
      BY <2>1 DEF FReady, account_vars
    <2>4. items_done[g] < Items
      BY <2>1 DEF KeptIn
    <2> QED
      BY <2>1, <2>2, <2>3, <2>4 DEF Unread, In
  <1>2. ASSUME NEW h \in RowGroups, Request(h)
        PROVE  /\ state[g] = "waiting" /\ Unread(g) /\ In(g)' /\ returns'[g] = 0
               /\ items_done'[g] < Items
    <2>1. h = g
      BY <1>2, RequestReaches
    <2>2. PICK j \in JobsOf(g) : JobLands(j) /\ AllIn(j)
      BY <1>2, <2>1, RequestReaches
    <2>3. /\ state[g] = "waiting" /\ Unread(g) /\ j[1] = g /\ items_done' = items_done
      BY <1>2, <2>1, RequestReaches, RequestFrames, PartFacts
    <2>4. JobsOf(g) \subseteq resident' /\ resident \subseteq resident' /\ returns' = returns
      BY <2>2, <2>3 DEF JobLands, AllIn, account_vars
    <2>5. CopiedIn(g)
      BY <2>2 DEF JobLands, RequestsPending
    <2>6. items_done[g] < Items
      BY <2>3 DEF KeptIn
    <2> QED
      BY <2>3, <2>4, <2>5, <2>6 DEF Unread, In, CopiedIn
  <1>3. ASSUME NEW w \in Workers, Worker(w) PROVE state'[g] # "ready"
    BY <1>3, WorkerReaches
  <1>4. CASE UNCHANGED state
    BY <1>4
  <1> QED
    BY <1>1, <1>2, <1>3, <1>4, StopFrames DEF Next

LEMMA KeptInKept ==
    ASSUME WindowInv, TypeOK', [Next]_vars
    PROVE  KeptIn'
  <1> USE DEF WindowInv
  <1>0. /\ \A g \in RowGroups : items_done[g] \in Nat /\ items_done'[g] \in Nat
        /\ Items \in Nat
    BY ParameterAssumption DEF TypeOK
  <1>1. admitted \subseteq admitted'
    BY FetcherFrames, RequestFrames, WorkerFrames, StopFrames DEF Next, FAdmit, account_vars
  <1>2. ASSUME NEW g \in RowGroups, state'[g] = "ready", state[g] # "ready"
        PROVE  g \in admitted' /\ In(g)' /\ returns'[g] = 0 /\ items_done'[g] < Items
    BY <1>1, <1>2, BecomesReady DEF Unread
  <1>3. ASSUME NEW g \in RowGroups, state[g] = "ready"
        PROVE  /\ g \in admitted'
               /\ items_done'[g] < Items => In(g)' /\ returns'[g] = 0
               /\ items_done'[g] >= Items =>
                     returns'[g] = 1 \/ \E w \in Workers : Returning(w)' /\ wrg'[w] = g
    <2>0. /\ g \in admitted /\ (items_done[g] < Items => In(g) /\ returns[g] = 0)
          /\ items_done[g] >= Items =>
                returns[g] = 1 \/ \E w \in Workers : Returning(w) /\ wrg[w] = g
      BY <1>3 DEF KeptIn
    <2>1. ASSUME items_done'[g] < Items PROVE In(g)' /\ returns'[g] = 0
      <3>1. items_done[g] < Items
        BY <1>0, <2>1, ItemsGrow
      <3>2. \A w \in Workers : WorkerGive(w) \/ WorkerDrop(w) => Returning(w)
        BY DEF WorkerGive, WorkerDrop, Returning
      <3>3. \A w \in Workers : (WorkerGive(w) \/ WorkerDrop(w)) /\ wrg[w] = g => items_done[g] >= Items
        BY <3>2 DEF WorkerHolds
      <3>4. ~ \E w \in Workers : (WorkerGive(w) \/ WorkerDrop(w)) /\ wrg[w] = g
        BY <1>0, <3>1, <3>3
      <3>5. returns'[g] = returns[g] /\ Parts(g) \cap resident' = Parts(g) \cap resident
        BY <1>3, <3>4, ReadyStays
      <3> QED
        BY <2>0, <3>1, <3>5 DEF In
    <2>2. ASSUME items_done'[g] >= Items, items_done[g] < Items
          PROVE  \E w \in Workers : Returning(w)' /\ wrg'[w] = g
      <3>1. PICK w \in Workers : GateDone(w) /\ wrg[w] = g /\ items_done'[g] = items_done[g] + 1
        BY <1>0, <2>2, ItemsGrow
      <3>2. items_done[g] + 1 = Items
        BY <1>0, <2>2, <3>1
      <3>3. wpc'[w] = "drop" /\ wrg' = wrg
        BY <1>3, <3>1, <3>2 DEF GateDone, WGoto, TypeOK, WorkersTypeOK
      <3> QED
        BY <3>1, <3>3 DEF Returning
    <2>3. ASSUME items_done[g] >= Items, returns[g] = 1 PROVE returns'[g] = 1
      BY <1>3, <2>3, ReadyStays
    <2>4. ASSUME NEW w \in Workers, Returning(w), wrg[w] = g
          PROVE  returns'[g] = 1 \/ (Returning(w)' /\ wrg'[w] = g)
      <3>1. CASE Worker(w)
        <4>1. CASE WorkerGive(w)
          <5>1. returns[g] = 0
            BY <2>4 DEF WorkerHolds
          <5> QED
            BY <2>4, <4>1, <5>1 DEF WorkerGive, GiveCharge, TypeOK
        <4>2. CASE WorkerDrop(w) /\ wpc'[w] = "give"
          BY <2>4, <4>2 DEF WorkerDrop, Returning
        <4> QED
          BY <2>4, <3>1, <4>1, <4>2, WorkerStages
      <3>2. CASE wpc'[w] = wpc[w] /\ wrg'[w] = wrg[w]
        BY <2>4, <3>2 DEF Returning
      <3> QED
        BY <3>1, <3>2, FetcherFrames, RequestFrames, WorkerFrames, StopFrames
           DEF Next, worker_vars
    <2> QED
      BY <1>0, <1>1, <2>0, <2>1, <2>2, <2>3, <2>4
  <1>4. ASSUME NEW g \in RowGroups, state'[g] = "waiting" PROVE items_done'[g] < Items
    <2>1. state[g] = "waiting"
      <3>1. ASSUME NEW h \in RowGroups, Request(h) PROVE state[g] = "waiting"
        BY <1>4, <3>1, RequestReaches
      <3>2. ASSUME NEW w \in Workers, Worker(w) PROVE state[g] = "waiting"
        BY <1>4, <3>2, WorkerReaches
      <3> QED
        BY <1>4, <3>1, <3>2, FetcherStates, StopFrames DEF Next
    <2>2. items_done[g] < Items
      BY <2>1 DEF KeptIn
    <2>3. ASSUME NEW w \in Workers, GateDone(w), wrg[w] = g PROVE items_done[g] + 1 # Items
      BY <1>4, <2>1, <2>3 DEF GateDone, TypeOK
    <2> QED
      BY <1>0, <2>2, <2>3, ItemsGrow
  <1>5. ASSUME NEW g \in RowGroups, state'[g] = "failed" PROVE fpc' \in {"failing", "exit"}
    <2>1. CASE Fetcher
      <3>1. fpc \in {"failing", "exit"}
        BY <1>5, <2>1, FetcherStates DEF KeptIn
      <3> QED
        BY <2>1, <3>1 DEF Fetcher, FTop, FLook, FAdmit, FSized, FCollect, FReady, FDrop, FGive,
                          FDispatch, FAwait, FFail, FFailOne
    <2>2. ASSUME NEW h \in RowGroups, Request(h) PROVE fpc' \in {"failing", "exit"}
      BY <1>5, <2>2, RequestReaches, RequestFrames DEF KeptIn, fetcher_vars
    <2>3. ASSUME NEW w \in Workers, Worker(w) PROVE fpc' \in {"failing", "exit"}
      BY <1>5, <2>3, WorkerReaches, WorkerFrames DEF KeptIn, fetcher_vars
    <2>4. CASE UNCHANGED <<state, fetcher_vars>>
      BY <1>5, <2>4 DEF KeptIn, fetcher_vars
    <2> QED
      BY <2>1, <2>2, <2>3, <2>4, StopFrames DEF Next
  <1>6. ASSUME NEW w \in Workers, wpc'[w] \in {"scan", "probe"} PROVE state'[wrg'[w]] = "ready"
    <2>1. state[wrg[w]] = "ready" /\ wrg'[w] = wrg[w] /\ wrg[w] \in RowGroups
      <3>1. CASE Worker(w)
        BY <1>6, <3>1, WorkerStages DEF KeptIn
      <3>2. CASE wpc'[w] = wpc[w] /\ wrg'[w] = wrg[w]
        BY <1>6, <3>2 DEF KeptIn, TypeOK, WorkersTypeOK
      <3> QED
        BY <3>1, <3>2, FetcherFrames, RequestFrames, WorkerFrames, StopFrames
           DEF Next, worker_vars
    <2>2. PICK g \in RowGroups : g = wrg[w]
      BY <2>1
    <2>3. state'[g] = "ready"
      BY <2>1, <2>2, ReadyStays
    <2> QED
      BY <2>1, <2>2, <2>3
  <1> QED
    BY <1>0, <1>2, <1>3, <1>4, <1>5, <1>6 DEF KeptIn

-----------------------------------------------------------------------------
(* The window's accounts.                                                  *)

LEMMA GroupSums ==
    \A S \in SUBSET RowGroups :
        /\ IsFiniteSet(S) /\ SumOver(Bytes, S) \in Nat /\ SumOver(Bytes, S) \in Int
        /\ \A g \in S : SumOver(Bytes, S) = Bytes[g] + SumOver(Bytes, S \ {g})
        /\ \A g \in RowGroups \ S : SumOver(Bytes, S \cup {g}) = SumOver(Bytes, S) + Bytes[g]
        /\ SumOver(Bytes, S) = 0 => S = {}
  <1> SUFFICES ASSUME NEW S \in SUBSET RowGroups
               PROVE  /\ IsFiniteSet(S) /\ SumOver(Bytes, S) \in Nat /\ SumOver(Bytes, S) \in Int
                      /\ \A g \in S : SumOver(Bytes, S) = Bytes[g] + SumOver(Bytes, S \ {g})
                      /\ \A g \in RowGroups \ S : SumOver(Bytes, S \cup {g}) = SumOver(Bytes, S) + Bytes[g]
                      /\ SumOver(Bytes, S) = 0 => S = {}
    OBVIOUS
  <1>1. \A g \in RowGroups : Bytes[g] \in Nat /\ Bytes[g] \in Int /\ Bytes[g] > 0
    BY WindowAssumption
  <1>2. IsFiniteSet(S)
    <2>1. NumRG \in Int /\ 1 \in Int
      BY RowGroupFacts
    <2>2. IsFiniteSet(1..NumRG)
      BY <2>1, FS_Interval
    <2> QED
      BY <2>2, FS_Subset DEF RowGroups
  <1>3. SumOver(Bytes, S) \in Nat
    BY <1>1, <1>2, SumNat
  <1>4. \A g \in S : SumOver(Bytes, S) = Bytes[g] + SumOver(Bytes, S \ {g})
    BY <1>1, <1>2, SumWithout
  <1>5. ASSUME NEW g \in RowGroups \ S
        PROVE  SumOver(Bytes, S \cup {g}) = SumOver(Bytes, S) + Bytes[g]
    <2>1. \A x \in S \cup {g} : Bytes[x] \in Int
      BY <1>1
    <2> QED
      BY <1>2, <2>1, SumWith
  <1>6. ASSUME SumOver(Bytes, S) = 0, NEW g \in S PROVE FALSE
    <2>1. SumOver(Bytes, S \ {g}) \in Nat
      BY <1>1, <1>2, SumNat, Without
    <2> QED
      BY <1>1, <1>4, <1>6, <2>1
  <1> QED
    BY <1>2, <1>3, <1>4, <1>5, <1>6

\* What gives a row group back, and what it was before.
LEMMA GivesBack ==
    ASSUME WindowInv, [Next]_vars
    PROVE  \/ UNCHANGED <<released, returns>>
           \/ \E g \in RowGroups :
                 /\ g \in admitted /\ returns[g] = 0 /\ Gone(g) /\ Gone(g)'
                 /\ state[g] \in {"ready", "dropped"} /\ UNCHANGED <<state, admitted, submitted>>
                 /\ returns' = [returns EXCEPT ![g] = 1] /\ released' = released + Bytes[g]
  <1> USE DEF WindowInv
  <1>0. ASSUME NEW g \in RowGroups, GiveCharge(g), Gone(g), g \in admitted, returns[g] = 0,
               state[g] \in {"ready", "dropped"}, UNCHANGED <<state, resident>>
        PROVE  /\ g \in admitted /\ returns[g] = 0 /\ Gone(g) /\ Gone(g)'
               /\ state[g] \in {"ready", "dropped"} /\ UNCHANGED <<state, admitted, submitted>>
               /\ returns' = [returns EXCEPT ![g] = 1] /\ released' = released + Bytes[g]
    BY <1>0 DEF GiveCharge, Gone, TypeOK
  <1>1. CASE FGive
    <2>1. /\ fpc = "give" /\ GiveCharge(at) /\ UNCHANGED <<state, resident>>
      BY <1>1 DEF FGive
    <2>2. PICK g \in RowGroups : g = at
      BY <2>1, FrontierFacts DEF TakingUp
    <2>3. Gone(g) /\ g \in admitted /\ returns[g] = 0 /\ state[g] = "dropped"
      BY <2>1, <2>2 DEF FetcherHolds, TakingUp, Unread
    <2> QED
      BY <1>0, <2>1, <2>2, <2>3
  <1>2. ASSUME NEW g \in RowGroups, LandedGive(g)
        PROVE  /\ g \in admitted /\ returns[g] = 0 /\ Gone(g) /\ Gone(g)'
               /\ state[g] \in {"ready", "dropped"} /\ UNCHANGED <<state, admitted, submitted>>
               /\ returns' = [returns EXCEPT ![g] = 1] /\ released' = released + Bytes[g]
    BY <1>0, <1>2 DEF LandedGive, RequestHolds, Unread
  <1>3. ASSUME NEW w \in Workers, WorkerGive(w)
        PROVE  \E g \in RowGroups :
                 /\ g \in admitted /\ returns[g] = 0 /\ Gone(g) /\ Gone(g)'
                 /\ state[g] \in {"ready", "dropped"} /\ UNCHANGED <<state, admitted, submitted>>
                 /\ returns' = [returns EXCEPT ![g] = 1] /\ released' = released + Bytes[g]
    <2>1. PICK g \in RowGroups : g = wrg[w]
      BY <1>3 DEF WorkerGive, TypeOK, WorkersTypeOK
    <2>2. state[g] = "ready" /\ returns[g] = 0 /\ Gone(g) /\ g \in admitted
      BY <1>3, <2>1 DEF WorkerGive, WorkerHolds, Returning, KeptIn
    <2> QED
      BY <1>0, <1>3, <2>1, <2>2 DEF WorkerGive
  <1> QED
    BY <1>1, <1>2, <1>3, FetcherFrames, RequestFrames, WorkerFrames, StopFrames
       DEF Next, account_vars

\* What is charged, and that nothing else moves the accounts.
LEMMA AccountsMove ==
    ASSUME WindowInv, [Next]_vars
    PROVE  \/ UNCHANGED account_vars /\ Outstanding' = Outstanding
           \/ /\ FAdmit /\ Fits(next) /\ next \in RowGroups /\ next \notin admitted
              /\ submitted' = submitted + Bytes[next] /\ admitted' = admitted \cup {next}
              /\ UNCHANGED <<released, returns, state, resident>>
              /\ Outstanding' = Outstanding \cup {next} /\ returns[next] = 0
           \/ \E g \in Outstanding :
                 /\ Gone(g) /\ Gone(g)'
                 /\ state[g] \in {"ready", "dropped"} /\ UNCHANGED <<state, admitted, submitted>>
                 /\ returns' = [returns EXCEPT ![g] = 1] /\ released' = released + Bytes[g]
                 /\ Outstanding' = Outstanding \ {g}
  <1> USE DEF WindowInv
  <1>0. \A g \in RowGroups : returns[g] \in Nat /\ (returns[g] > 0 <=> returns[g] # 0)
    BY DEF TypeOK
  <1>1. CASE FAdmit /\ Fits(next)
    <2>1. fpc = "admit" /\ next \in RowGroups /\ next \in Nat
      BY <1>1, RowGroupFacts DEF FAdmit, TypeOK, FetcherTypeOK
    <2>2. next \notin admitted
      BY <2>1 DEF InPlanOrder
    <2>3. returns[next] = 0
      BY <1>0, <2>1, <2>2 DEF Counted
    <2>4. /\ submitted' = submitted + Bytes[next] /\ admitted' = admitted \cup {next}
          /\ UNCHANGED <<released, returns, state, resident>>
      BY <1>1 DEF FAdmit
    <2>5. Outstanding' = Outstanding \cup {next}
      BY <1>0, <2>1, <2>3, <2>4 DEF Outstanding, Returned
    <2> QED
      BY <1>1, <2>1, <2>2, <2>3, <2>4, <2>5
  <1>2. CASE UNCHANGED <<admitted, submitted, released, returns>>
    BY <1>2 DEF account_vars, Outstanding, Returned
  <1>3. ASSUME NEW g \in RowGroups,
               g \in admitted /\ returns[g] = 0 /\ Gone(g) /\ Gone(g)',
               state[g] \in {"ready", "dropped"} /\ UNCHANGED <<state, admitted, submitted>>,
               returns' = [returns EXCEPT ![g] = 1] /\ released' = released + Bytes[g]
        PROVE  g \in Outstanding /\ Outstanding' = Outstanding \ {g}
    <2>1. \A h \in RowGroups : returns'[h] > 0 <=> h = g \/ returns[h] > 0
      BY <1>0, <1>3 DEF TypeOK
    <2>2. g \in Outstanding
      BY <1>0, <1>3 DEF Outstanding, Returned
    <2>3. Outstanding' = Outstanding \ {g}
      BY <1>3, <2>1 DEF Outstanding, Returned
    <2> QED
      BY <2>2, <2>3
  <1>4. FAdmit => Fits(next) \/ UNCHANGED <<admitted, submitted>>
    BY DEF FAdmit
  <1>5. (FAdmit /\ Fits(next)) \/ UNCHANGED <<admitted, submitted>>
    BY <1>4, FetcherFrames, RequestFrames, WorkerFrames, StopFrames DEF Next, account_vars
  <1> QED
    BY <1>1, <1>2, <1>3, <1>5, GivesBack

\* What comes into memory is an admitted row group's, not given back.
LEMMA ComesIn ==
    ASSUME WindowInv, [Next]_vars, NEW p \in resident', p \notin resident
    PROVE  p \in AllParts => p[1] \in Outstanding /\ UNCHANGED <<admitted, returns>>
  <1> USE DEF WindowInv
  <1> SUFFICES ASSUME p \in AllParts PROVE p[1] \in Outstanding /\ UNCHANGED <<admitted, returns>>
    OBVIOUS
  <1>0. PICK g \in RowGroups : g = p[1] /\ p \in Parts(g)
    BY PartFacts
  <1> SUFFICES g \in admitted /\ returns[g] = 0 /\ UNCHANGED <<admitted, returns>>
    BY <1>0 DEF Outstanding, Returned
  <1>1. CASE Fetcher
    <2>1. /\ FCollect /\ g = at /\ state[g] \notin {"dropped", "ready"}
          /\ returns[g] = 0 /\ g < next
      BY <1>0, <1>1, FetcherReaches DEF Gone
    <2> QED
      BY <2>1 DEF InPlanOrder, FCollect, account_vars
  <1>2. ASSUME NEW h \in RowGroups, Request(h)
        PROVE  g \in admitted /\ returns[g] = 0 /\ UNCHANGED <<admitted, returns>>
    <2>1. h = g
      BY <1>0, <1>2, RequestReaches
    <2>2. Unread(g)
      BY <1>2, <2>1, RequestReaches
    <2>3. ~LandedDrop(h) /\ ~LandedGive(h)
      BY DEF LandedDrop, LandedGive, DropPages
    <2> QED
      BY <1>2, <2>2, <2>3 DEF Request, JobLands, JobFails, Unread, account_vars
  <1>3. ASSUME NEW w \in Workers, Worker(w) PROVE FALSE
    BY <1>3, WorkerFrames DEF WorkerDrop, DropPages
  <1> QED
    BY <1>1, <1>2, <1>3, StopFrames DEF Next

LEMMA CountedKept ==
    ASSUME WindowInv, TypeOK', [Next]_vars
    PROVE  Counted'
  <1> USE DEF WindowInv
  <1>0. /\ \A g \in RowGroups : returns[g] \in Nat /\ Bytes[g] \in Nat
        /\ submitted \in Nat /\ released \in Nat
        /\ Outstanding \in SUBSET RowGroups /\ SumOver(Bytes, Outstanding) \in Nat
        /\ submitted = released + SumOver(Bytes, Outstanding)
    <2>1. \A g \in RowGroups : returns[g] \in Nat /\ Bytes[g] \in Nat
      BY WindowAssumption DEF TypeOK
    <2>2. Outstanding \in SUBSET RowGroups
      BY DEF Outstanding, TypeOK
    <2>3. SumOver(Bytes, Outstanding) \in Nat
      BY <2>2, GroupSums
    <2> QED
      BY <2>1, <2>2, <2>3 DEF TypeOK, Counted, SumOver
  <1>1. ASSUME UNCHANGED account_vars, Outstanding' = Outstanding
        PROVE  /\ submitted' = released' + SumOver(Bytes, Outstanding')
               /\ \A g \in RowGroups : returns'[g] <= (IF g \in admitted' THEN 1 ELSE 0)
    <2>1. submitted' = released' + SumOver(Bytes, Outstanding')
      BY <1>0, <1>1 DEF account_vars
    <2>2. \A g \in RowGroups : returns'[g] <= (IF g \in admitted' THEN 1 ELSE 0)
      BY <1>1 DEF account_vars, Counted
    <2> QED
      BY <2>1, <2>2
  <1>2. ASSUME FAdmit /\ next \in RowGroups /\ next \notin admitted,
               submitted' = submitted + Bytes[next] /\ admitted' = admitted \cup {next},
               UNCHANGED <<released, returns, state, resident>>,
               Outstanding' = Outstanding \cup {next} /\ returns[next] = 0
        PROVE  /\ submitted' = released' + SumOver(Bytes, Outstanding')
               /\ \A g \in RowGroups : returns'[g] <= (IF g \in admitted' THEN 1 ELSE 0)
    <2>1. next \notin Outstanding
      BY <1>2 DEF Outstanding
    <2>2. SumOver(Bytes, Outstanding \cup {next}) = SumOver(Bytes, Outstanding) + Bytes[next]
      BY <1>0, <1>2, <2>1, GroupSums
    <2>3. submitted' = released' + SumOver(Bytes, Outstanding')
      BY <1>0, <1>2, <2>2
    <2>4. \A g \in RowGroups : returns'[g] <= (IF g \in admitted' THEN 1 ELSE 0)
      BY <1>0, <1>2 DEF Counted
    <2> QED
      BY <2>3, <2>4
  <1>3. ASSUME NEW g \in Outstanding, UNCHANGED <<state, admitted, submitted>>,
               returns' = [returns EXCEPT ![g] = 1] /\ released' = released + Bytes[g],
               Outstanding' = Outstanding \ {g}
        PROVE  /\ submitted' = released' + SumOver(Bytes, Outstanding')
               /\ \A h \in RowGroups : returns'[h] <= (IF h \in admitted' THEN 1 ELSE 0)
    <2>1. SumOver(Bytes, Outstanding) = Bytes[g] + SumOver(Bytes, Outstanding \ {g})
      BY <1>0, GroupSums
    <2>2. SumOver(Bytes, Outstanding \ {g}) \in Nat /\ Bytes[g] \in Nat
      <3>1. Outstanding \ {g} \in SUBSET RowGroups
        BY <1>0
      <3> QED
        BY <1>0, <3>1, GroupSums
    <2>3. submitted' = released' + SumOver(Bytes, Outstanding')
      BY <1>0, <1>3, <2>1, <2>2
    <2>4. g \in admitted
      BY DEF Outstanding
    <2>5. \A h \in RowGroups : returns'[h] <= (IF h \in admitted' THEN 1 ELSE 0)
      BY <1>0, <1>3, <2>4 DEF Counted, TypeOK
    <2> QED
      BY <2>3, <2>5
  <1>4. /\ submitted' = released' + SumOver(Bytes, Outstanding')
        /\ \A g \in RowGroups : returns'[g] <= (IF g \in admitted' THEN 1 ELSE 0)
    BY <1>1, <1>2, <1>3, AccountsMove
  <1>5. ASSUME NEW p \in resident' PROVE p[1] \in Outstanding'
    <2>1. p \in AllParts
      BY DEF TypeOK
    <2>2. p \in resident => p[1] \in Outstanding
      BY DEF Counted
    <2>3. \A g \in RowGroups : Gone(g)' => p[1] # g
      BY <2>1, PartFacts DEF Gone
    <2>4. p \notin resident => p[1] \in Outstanding /\ UNCHANGED <<admitted, returns>>
      BY <2>1, ComesIn
    <2>5. p[1] \in Outstanding
      BY <2>2, <2>4
    <2> QED
      BY <1>0, <2>3, <2>5, AccountsMove
  <1>6. stopped' => ScanOver'
    <2>1. ASSUME NEW w \in Workers, Worker(w) PROVE ~stopped'
      <3>1. wpc[w] # "exit" /\ stopped' = stopped
        BY <2>1, WorkerFrames DEF Worker, WorkerClaim, WorkerQuit, WorkerWait, WorkerScan, WorkerProbe,
                                  GateDone, WorkerDrop, WorkerGive
      <3> QED
        BY <3>1 DEF Counted, ScanOver
    <2>2. Fetcher \/ (\E g \in RowGroups : Request(g)) => UNCHANGED <<wpc, stopped>>
      BY FetcherFrames, RequestFrames DEF worker_vars
    <2>3. Stop \/ Joined \/ Done \/ UNCHANGED vars => wpc' = wpc /\ (stopped' => stopped \/ ScanOver)
      BY DEF Stop, Joined, Done, vars, worker_vars
    <2> QED
      BY <2>1, <2>2, <2>3 DEF Next, Counted, ScanOver
  <1> QED
    BY <1>4, <1>5, <1>6 DEF Counted, SumOver

-----------------------------------------------------------------------------
LEMMA InitWindow == Init => WindowInv
  <1> SUFFICES ASSUME Init PROVE WindowInv
    OBVIOUS
  <1>1. TypeOK
    BY InitType
  <1>2. ItemsOnce
    <2> SUFFICES ASSUME NEW g \in RowGroups
                 PROVE  items_done[g] + Cardinality(AtItem(g)) <= Cardinality(Claimed(g))
      BY DEF ItemsOnce
    <2>1. AtItem(g) = {} /\ items_done[g] = 0
      BY DEF Init, AtItem
    <2> QED
      BY <2>1, ItemCounts, FS_EmptySet
  <1>3. InPlanOrder
    <2>1. \A g \in RowGroups : g >= 1 /\ g \in Nat
      BY RowGroupFacts
    <2> QED
      BY <2>1 DEF Init, InPlanOrder, Gone
  <1>4. RequestsPending /\ FetcherHolds /\ RequestHolds
    BY DEF Init, RequestsPending, FetcherHolds, RequestHolds, TakingUp
  <1>5. WorkerHolds /\ KeptIn
    BY ParameterAssumption DEF Init, WorkerHolds, KeptIn, Returning
  <1>6. Counted
    <2>1. Outstanding = {}
      BY DEF Init, Outstanding
    <2>2. SumOver(Bytes, {}) = 0
      BY SumEmpty
    <2>3. submitted = released + SumOver(Bytes, Outstanding)
      BY <2>1, <2>2 DEF Init
    <2>4. \A g \in RowGroups : returns[g] = 0
      BY DEF Init
    <2> QED
      BY <2>3, <2>4 DEF Init, Counted, SumOver
  <1> QED
    BY <1>1, <1>2, <1>3, <1>4, <1>5, <1>6 DEF WindowInv

LEMMA WindowInvHolds == Spec => []WindowInv
  <1>1. ASSUME WindowInv, [Next]_vars PROVE WindowInv'
    <2>1. TypeOK'
      BY <1>1, NextType DEF WindowInv
    <2>2. ItemsOnce'
      BY <1>1, <2>1, ItemsOnceKept DEF WindowInv
    <2>3. InPlanOrder' /\ RequestsPending' /\ FetcherHolds' /\ RequestHolds'
      BY <1>1, <2>1, PlanKept, RequestsPendingKept, FetcherHoldsKept, RequestHoldsKept
    <2>4. WorkerHolds' /\ KeptIn' /\ Counted'
      BY <1>1, <2>1, WorkerHoldsKept, KeptInKept, CountedKept
    <2> QED
      BY <2>1, <2>2, <2>3, <2>4 DEF WindowInv
  <1> QED
    BY <1>1, InitWindow, PTL DEF Spec

\* The fetcher, the requests and the scan's threads stay in the states the window's
\* types name: a batch is part of the plan, and no part of another row group lands.
THEOREM WindowTypes == Spec => []TypeOK
  <1>1. WindowInv => TypeOK
    BY DEF WindowInv
  <1> QED
    BY <1>1, WindowInvHolds, PTL

\* Whoever is past a row group's gate has all its bytes, fetched and copied, for
\* every batch, window and race: gateWait lets a thread through on `ready` alone,
\* and the three who give a row group back (gateDone, landed, runErr) never do it
\* under one of its scans, the second look at a failed one included.
THEOREM BytesAreThere == Spec => []BytesBeforeUse
  <1>1. WindowInv => BytesBeforeUse
    <2> SUFFICES ASSUME WindowInv, NEW w \in Workers, wpc[w] \in {"scan", "probe"}
                 PROVE  Parts(wrg[w]) \subseteq resident
      BY DEF BytesBeforeUse
    <2>1. items_done[wrg[w]] < Items /\ wrg[w] \in RowGroups
      BY LastItem DEF WindowInv, AtStages
    <2>2. state[wrg[w]] = "ready"
      BY DEF WindowInv, KeptIn
    <2> QED
      BY <2>1, <2>2 DEF WindowInv, KeptIn, In
  <1> QED
    BY <1>1, WindowInvHolds, PTL

\* The charge of a row group comes back once, whichever of the three it falls to,
\* what is in memory is charged, and a scan that read everything gives all back.
THEOREM ChargesComeBack == Spec => []ChargedWhileResident
  <1>1. WindowInv => ChargedWhileResident
    <2> SUFFICES ASSUME WindowInv PROVE ChargedWhileResident
      OBVIOUS
    <2>1. ASSUME stopped, Scanned PROVE submitted = released /\ resident = {}
      <3>1. \A w \in Workers : ~Returning(w)
        BY <2>1 DEF WindowInv, Counted, ScanOver, Returning
      <3>2. Items \in Nat /\ Items >= Items
        BY ParameterAssumption
      <3>3. \A g \in RowGroups : returns[g] = 1
        BY <2>1, <3>1, <3>2 DEF WindowInv, KeptIn, Scanned
      <3>4. Outstanding = {}
        BY <3>3 DEF Outstanding, Returned, WindowInv, TypeOK
      <3>5. SumOver(Bytes, {}) = 0
        BY SumEmpty
      <3>6. submitted = released + SumOver(Bytes, Outstanding) /\ released \in Nat
        BY DEF WindowInv, Counted, SumOver, TypeOK
      <3>7. \A p \in resident : p[1] \in Outstanding
        BY DEF WindowInv, Counted
      <3> QED
        BY <3>4, <3>5, <3>6, <3>7
    <2> QED
      BY <2>1 DEF WindowInv, Counted, ChargedWhileResident
  <1> QED
    BY <1>1, WindowInvHolds, PTL

-----------------------------------------------------------------------------
(* It is the abstract window.                                              *)

LEMMA WindowBytes ==
    /\ RGW!Outstanding = Outstanding
    /\ RGW!OutstandingBytes = SumOver(Bytes, Outstanding)
  <1>1. RGW!Outstanding = Outstanding
    BY DEF RGW!Outstanding, Outstanding
  <1>2. RGW!OutstandingBytes = PartialSums(Bytes, RGW!Outstanding)[RGW!Outstanding]
    BY DEF RGW!OutstandingBytes, RGW!SumFunctionOnSet, RGW!FoldFunctionOnSet,
           RGW!MapThenFoldSet, PartialSums, SumStep, Pick
  <1> QED
    BY <1>1, <1>2, SumIsPartial

Arrived == {g \in RowGroups : state[g] = "ready"}
Dropped == {g \in RowGroups : state[g] = "dropped"}

\* One row group at most comes in or is dropped by a step, and it was waiting.
LEMMA StatesMove ==
    ASSUME WindowInv, [Next]_vars
    PROVE  \/ Arrived' = Arrived /\ Dropped' = Dropped
           \/ \E g \in RowGroups :
                 /\ state[g] = "waiting" /\ state'[g] \in {"ready", "dropped"}
                 /\ \A h \in RowGroups \ {g} : state'[h] = state[h]
  <1> USE DEF WindowInv
  <1>1. CASE state' = state
    BY <1>1 DEF Arrived, Dropped
  <1>2. ASSUME Fetcher, state' # state
        PROVE  \/ Arrived' = Arrived /\ Dropped' = Dropped
               \/ \E g \in RowGroups :
                     /\ state[g] = "waiting" /\ state'[g] = "ready"
                     /\ \A h \in RowGroups \ {g} : state'[h] = state[h]
    <2>1. FReady \/ FFailOne
      BY <1>2, FetcherFrames
    <2>2. CASE FFailOne
      <3>1. fpc = "failing"
        BY <2>2 DEF FFailOne
      <3>2. \A g \in RowGroups :
               state'[g] = state[g] \/ (state[g] = "waiting" /\ state'[g] = "failed")
        BY <1>2, <3>1, FetcherStates
      <3> QED
        BY <3>2 DEF Arrived, Dropped
    <2>3. CASE FReady
      <3>1. fpc = "ready" /\ state[at] = "waiting" /\ state' = [state EXCEPT ![at] = "ready"]
        BY <1>2, <2>3 DEF FReady
      <3>2. at \in RowGroups
        BY <3>1, RowGroupFacts DEF TypeOK, FetcherTypeOK, TakingUp
      <3> QED
        BY <3>1, <3>2 DEF TypeOK
    <2> QED
      BY <2>1, <2>2, <2>3
  <1>3. ASSUME NEW g \in RowGroups, Request(g), state' # state
        PROVE  /\ state[g] = "waiting" /\ state'[g] = "ready"
               /\ \A h \in RowGroups \ {g} : state'[h] = state[h]
    <2>1. \A h \in RowGroups \ {g} : state'[h] = state[h]
      BY <1>3, RequestReaches
    <2>2. state'[g] # state[g]
      BY <1>3, <2>1, NextType DEF TypeOK
    <2> QED
      BY <1>3, <2>1, <2>2, RequestReaches
  <1>4. ASSUME NEW w \in Workers, Worker(w), state' # state
        PROVE  \E g \in RowGroups :
                  /\ state[g] = "waiting" /\ state'[g] = "dropped"
                  /\ \A h \in RowGroups \ {g} : state'[h] = state[h]
    <2>1. GateDone(w) /\ wrg[w] \in RowGroups
      BY <1>4, WorkerFrames DEF GateDone, TypeOK, WorkersTypeOK
    <2>2. \A h \in RowGroups : state'[h] = state[h] \/
             (state[h] = "waiting" /\ state'[h] = "dropped" /\ h = wrg[w])
      BY <1>4, WorkerReaches
    <2>3. \A h \in RowGroups \ {wrg[w]} : state'[h] = state[h]
      BY <2>2
    <2>4. state'[wrg[w]] # state[wrg[w]]
      BY <1>4, <2>3, NextType DEF TypeOK
    <2> QED
      BY <2>1, <2>2, <2>3, <2>4
  <1> QED
    BY <1>1, <1>2, <1>3, <1>4, StopFrames DEF Next

\* The charge admits the row group whose turn it is: it fits, or is alone.
LEMMA AdmitStep ==
    ASSUME WindowInv, FAdmit, Fits(next), next \in RowGroups, next \notin admitted,
           admitted' = admitted \cup {next}, UNCHANGED <<returns, state>>
    PROVE  RGW!Admit(next)
  <1>1. \A h \in RowGroups : h < next => h \in admitted \cup Dropped
    BY DEF WindowInv, InPlanOrder, Dropped
  <1>2. /\ submitted = released + SumOver(Bytes, Outstanding) /\ released \in Nat
        /\ Outstanding \in SUBSET RowGroups
    BY DEF WindowInv, Counted, SumOver, TypeOK, Outstanding
  <1>3. /\ SumOver(Bytes, Outstanding) \in Nat
        /\ SumOver(Bytes, Outstanding) = 0 => Outstanding = {}
    BY <1>2, GroupSums
  <1>4. Out = SumOver(Bytes, Outstanding)
    <2> HIDE DEF Outstanding
    <2>1. submitted >= released
      BY <1>2, <1>3
    <2> QED
      BY <1>2, <1>3, <2>1 DEF Out
  <1>5. Outstanding = {} \/ SumOver(Bytes, Outstanding) + Bytes[next] <= Limit
    BY <1>3, <1>4 DEF Fits
  <1>6. Arrived' = Arrived /\ Dropped' = Dropped /\ Returned' = Returned
    BY DEF Arrived, Dropped, Returned
  <1> QED
    BY <1>1, <1>5, <1>6, WindowBytes DEF RGW!Admit, Arrived, Dropped

\* Whoever gives a row group back returns one that is in, or was dropped.
LEMMA ReturnStep ==
    ASSUME WindowInv, NEW g \in Outstanding, state[g] \in {"ready", "dropped"},
           UNCHANGED <<state, admitted>>, returns' = [returns EXCEPT ![g] = 1]
    PROVE  RGW!Return(g)
  <1>1. g \in RowGroups
    BY DEF Outstanding, WindowInv, TypeOK
  <1>2. Returned' = Returned \cup {g}
    BY <1>1 DEF Returned, WindowInv, TypeOK
  <1>3. Arrived' = Arrived /\ Dropped' = Dropped /\ g \in Arrived \cup Dropped
    BY <1>1 DEF Arrived, Dropped
  <1> QED
    BY <1>2, <1>3, WindowBytes DEF RGW!Return, Arrived, Dropped

\* A row group comes in once admitted, and one still waiting may be dropped.
LEMMA StateStep ==
    ASSUME WindowInv, WindowInv', UNCHANGED <<admitted, Returned>>, NEW g \in RowGroups,
           state[g] = "waiting", state'[g] \in {"ready", "dropped"},
           \A h \in RowGroups \ {g} : state'[h] = state[h]
    PROVE  RGW!Arrive(g) \/ RGW!Skip(g)
  <1>1. CASE state'[g] = "ready"
    <2>1. Arrived' = Arrived \cup {g} /\ Dropped' = Dropped /\ g \notin Arrived
      BY <1>1 DEF Arrived, Dropped
    <2>2. g \in admitted
      BY <1>1 DEF WindowInv, KeptIn
    <2> QED
      BY <2>1, <2>2 DEF RGW!Arrive, Arrived, Dropped
  <1>2. CASE state'[g] = "dropped"
    <2>1. Dropped' = Dropped \cup {g} /\ Arrived' = Arrived /\ g \notin Arrived \cup Dropped
      BY <1>2 DEF Arrived, Dropped
    <2> QED
      BY <2>1 DEF RGW!Skip, Arrived, Dropped
  <1> QED
    BY <1>1, <1>2

LEMMA WindowStep ==
    ASSUME WindowInv, WindowInv', [Next]_vars
    PROVE  [RGW!Next]_(RGW!vars)
  <1>1. ASSUME UNCHANGED account_vars PROVE [RGW!Next]_(RGW!vars)
    <2>1. UNCHANGED <<admitted, Returned>>
      BY <1>1 DEF account_vars, Returned
    <2>2. CASE Arrived' = Arrived /\ Dropped' = Dropped
      BY <2>1, <2>2 DEF RGW!vars, Arrived, Dropped
    <2>3. ASSUME NEW g \in RowGroups, state[g] = "waiting", state'[g] \in {"ready", "dropped"},
                 \A h \in RowGroups \ {g} : state'[h] = state[h]
          PROVE  [RGW!Next]_(RGW!vars)
      BY <2>1, <2>3, StateStep DEF RGW!Next
    <2> QED
      BY <2>2, <2>3, StatesMove
  <1>2. ASSUME FAdmit, Fits(next), next \in RowGroups, next \notin admitted,
               admitted' = admitted \cup {next}, UNCHANGED <<returns, state>>
        PROVE  [RGW!Next]_(RGW!vars)
    BY <1>2, AdmitStep DEF RGW!Next
  <1>3. ASSUME NEW g \in Outstanding, state[g] \in {"ready", "dropped"},
               UNCHANGED <<state, admitted>>, returns' = [returns EXCEPT ![g] = 1]
        PROVE  [RGW!Next]_(RGW!vars)
    <2>1. g \in RowGroups
      BY DEF Outstanding, WindowInv, TypeOK
    <2> QED
      BY <1>3, <2>1, ReturnStep DEF RGW!Next
  <1> QED
    BY <1>1, <1>2, <1>3, AccountsMove

\* Every charge of runErr, every row group that lands, is copied whole or is passed
\* over by the scan, and every release is, for all batches, limits and cuts, one
\* step of the abstract window or none: in plan order, within the limit unless it
\* is alone, and back once, when it is in or was dropped.
THEOREM S3KeepsToTheWindow == Spec => ImplementsWindow
  <1>1. Init => RGW!Init
    BY DEF Init, RGW!Init, Returned
  <1>2. WindowInv /\ WindowInv' /\ [Next]_vars => [RGW!Next]_(RGW!vars)
    BY WindowStep
  <1> QED
    BY <1>1, <1>2, WindowInvHolds, PTL DEF Spec, ImplementsWindow, RGW!Spec
=============================================================================
