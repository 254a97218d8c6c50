------------------------- MODULE ZpqContext_proofs -------------------------
(***************************************************************************)
(* For any number of threads, readers, closers and budgets: no call is in  *)
(* the library, or on its way there, once a closer starts to free the      *)
(* context, and only one closer ever does.  The invariant counts: inflight *)
(* is the number of calls between their counting in and their counting     *)
(* out, a reader is counted out by at most one of those that close it, and *)
(* the context is taken only when the count is zero and no call can start. *)
(* And what the calls have reserved of the budget is a sum that a grant    *)
(* never takes past the limit, in the order that the calls asked.          *)
(***************************************************************************)
EXTENDS ZpqContext, DataLemmas, SequenceTheorems

Held == {c \in Calls : pc[c] # "out"}

PCs == Inside \cup {"out", "counted", "back", "ended"}

CallTypes ==
    /\ pc \in [Calls -> PCs]
    /\ owner \in [Readers -> {"none", "opening", "held"}]
    /\ joining \in [Readers -> SUBSET Finishers]
    /\ cpc \in [Closers -> {"idle", "refuse", "wake queue", "check", "wait",
                            "free", "closed"}]
    /\ closing \in BOOLEAN /\ ctx \in BOOLEAN /\ freed \in BOOLEAN

Counted == inflight = Cardinality(Held)

(* A reader is closed by one finisher, and only while its call is held.    *)
OneFinisher ==
    \A r \in Readers :
        /\ owner[r] # "none" => joining[r] = {}
        /\ owner[r] # "none" \/ joining[r] # {} =>
              pc[r] \notin {"out", "counted", "back"}
        /\ \A f, g \in joining[r] : f = g

(* The context is taken once, with nothing in flight and closing set.      *)
TakenWhenIdle ==
    /\ \A k \in Closers : cpc[k] \notin {"idle", "closed"} => closing
    /\ ~ctx => closing /\ inflight = 0
    /\ \A k \in Closers : cpc[k] = "free" => ~ctx /\ ~freed
    /\ freed => ~ctx
    /\ \A k, l \in Closers : cpc[k] = "free" /\ cpc[l] = "free" => k = l

ContextInv == CallTypes /\ Counted /\ OneFinisher /\ TakenWhenIdle

-----------------------------------------------------------------------------
(* The calls are finitely many, and so are those in flight.                *)
LEMMA HeldFinite ==
    CallTypes => IsFiniteSet(Held) /\ Cardinality(Held) \in Nat
<1>1. IsFiniteSet(Calls)
  BY ContextAssumption, FS_Union DEF Calls
<1>2. Held \subseteq Calls
  BY DEF Held
<1> QED
  BY <1>1, <1>2, FS_Subset, FS_CardinalityType

(* A call that comes in, or goes out, changes the number in flight by one; *)
(* one that moves between other places does not.                           *)
LEMMA CountIn ==
    ASSUME CallTypes, NEW c \in Calls, pc[c] = "out",
           NEW to \in PCs \ {"out"}, pc' = [pc EXCEPT ![c] = to]
    PROVE  Cardinality(Held') = Cardinality(Held) + 1
<1>1. c \notin Held /\ Held' = Held \cup {c}
  BY DEF Held, CallTypes
<1> QED
  BY <1>1, HeldFinite, FS_AddElement

LEMMA CountOut ==
    ASSUME CallTypes, NEW c \in Calls, pc[c] # "out",
           pc' = [pc EXCEPT ![c] = "out"]
    PROVE  Cardinality(Held') = Cardinality(Held) - 1
<1>1. c \in Held /\ Held' = Held \ {c}
  BY DEF Held, CallTypes
<1> QED
  BY <1>1, HeldFinite, FS_RemoveElement

LEMMA CountSame ==
    ASSUME CallTypes, NEW c \in Calls, pc[c] # "out",
           NEW to \in PCs \ {"out"}, pc' = [pc EXCEPT ![c] = to]
    PROVE  Held' = Held
BY DEF Held, CallTypes

-----------------------------------------------------------------------------
LEMMA ContextInitInv == ContextInit => ContextInv
<1> SUFFICES ASSUME ContextInit PROVE ContextInv
  OBVIOUS
<1>1. CallTypes
  BY DEF ContextInit, CallTypes, PCs, Inside
<1>2. Held = {}
  BY DEF ContextInit, Held
<1>3. Counted
  BY <1>2, FS_EmptySet DEF ContextInit, Counted
<1>4. OneFinisher
  BY DEF ContextInit, OneFinisher
<1>5. TakenWhenIdle
  BY DEF ContextInit, TakenWhenIdle
<1> QED
  BY <1>1, <1>3, <1>4, <1>5 DEF ContextInv

(* A step that moves one call inside the library leaves the counts alone.  *)
LEMMA MoveInside ==
    ASSUME ContextInv, NEW c \in Calls,
           pc[c] \notin {"out", "back"},
           NEW to \in Inside \cup {"ended", "back"},
           to = "back" => c \in Callers \/ pc[c] = "counted",
           pc' = [pc EXCEPT ![c] = to],
           UNCHANGED <<closing, inflight, ctx, cpc, freed, joining>>,
           \/ owner' = owner
           \/ c \in Readers /\ to # "back" /\ joining[c] = {}
              /\ owner' = [owner EXCEPT ![c] = "opening"]
    PROVE  ContextInv'
<1>1. CallTypes'
  BY DEF ContextInv, CallTypes, PCs
<1>2. Held' = Held
  BY CountSame DEF ContextInv, PCs, Inside
<1>3. Counted'
  BY <1>2 DEF ContextInv, Counted
<1>4. OneFinisher'
  BY ContextAssumption DEF ContextInv, OneFinisher, CallTypes, Calls, Inside
<1>5. TakenWhenIdle'
  BY DEF ContextInv, TakenWhenIdle
<1> QED
  BY <1>1, <1>3, <1>4, <1>5 DEF ContextInv

(* A call that is counted out, by run_raw or by what closes a reader.      *)
LEMMA GoesOut ==
    ASSUME ContextInv, NEW c \in Calls, pc[c] # "out",
           pc' = [pc EXCEPT ![c] = "out"], inflight' = inflight - 1,
           UNCHANGED <<closing, ctx, cpc, freed>>,
           owner' \in [Readers -> {"none", "opening", "held"}],
           joining' \in [Readers -> SUBSET Finishers],
           \A r \in Readers \ {c} :
              owner'[r] = owner[r] /\ joining'[r] = joining[r],
           c \in Readers => owner'[c] = "none" /\ joining'[c] = {}
    PROVE  ContextInv'
<1>1. CallTypes'
  BY DEF ContextInv, CallTypes, PCs
<1>2. Counted'
  BY CountOut DEF ContextInv, Counted
<1>3. OneFinisher'
  <2> SUFFICES ASSUME NEW r \in Readers
               PROVE  /\ owner'[r] # "none" => joining'[r] = {}
                      /\ owner'[r] # "none" \/ joining'[r] # {} =>
                            pc'[r] \notin {"out", "counted", "back"}
                      /\ \A f, g \in joining'[r] : f = g
    BY DEF OneFinisher
  <2>1. CASE r = c
    BY <2>1
  <2>2. CASE r # c
    <3>1. /\ owner'[r] = owner[r] /\ joining'[r] = joining[r]
          /\ pc'[r] = pc[r]
      BY <2>2 DEF ContextInv, CallTypes, Calls
    <3> QED
      BY <3>1 DEF ContextInv, OneFinisher
  <2> QED
    BY <2>1, <2>2
<1>4. inflight # 0
  <2>1. Held # {}
    BY DEF Held
  <2> QED
    BY <2>1, HeldFinite, FS_EmptySet DEF ContextInv, Counted
<1>5. TakenWhenIdle'
  BY <1>4 DEF ContextInv, TakenWhenIdle
<1> QED
  BY <1>1, <1>2, <1>3, <1>5 DEF ContextInv

LEMMA CallsKeepInv ==
    ASSUME ContextInv, NEW c \in Calls,
           Call(c) \/ CallStep(c) \/ TimeOut(c)
    PROVE  ContextInv'
<1> USE DEF context_vars, host_vars, lib_vars, call_vars, reader_vars,
            budget_vars, Goto, Ends
<1>1. CASE Call(c)
  <2>1. CASE closing
    <3>1. UNCHANGED <<pc, closing, inflight, ctx, cpc, freed, owner, joining>>
      BY <1>1, <2>1 DEF Call, MayCall
    <3> QED
      <4>1. CallTypes'
        BY <3>1 DEF ContextInv, CallTypes
      <4>2. Counted'
        BY <3>1 DEF ContextInv, Counted, Held
      <4>3. OneFinisher'
        BY <3>1 DEF ContextInv, OneFinisher
      <4>4. TakenWhenIdle'
        BY <3>1 DEF ContextInv, TakenWhenIdle
      <4> QED
        BY <4>1, <4>2, <4>3, <4>4 DEF ContextInv
  <2>2. CASE ~closing
    <3>1. /\ pc[c] = "out" /\ pc' = [pc EXCEPT ![c] = "counted"]
          /\ inflight' = inflight + 1
          /\ UNCHANGED <<closing, ctx, cpc, freed, owner, joining>>
      BY <1>1, <2>2 DEF Call, MayCall
    <3>2. CallTypes'
      BY <3>1 DEF ContextInv, CallTypes, PCs
    <3>3. Counted'
      <4>1. CallTypes /\ "counted" \in PCs \ {"out"}
        BY DEF ContextInv, PCs
      <4>2. Cardinality(Held') = Cardinality(Held) + 1
        BY <3>1, <4>1, CountIn
      <4> QED
        BY <3>1, <4>2 DEF ContextInv, Counted
    <3>4. OneFinisher'
      BY <3>1 DEF ContextInv, OneFinisher, CallTypes, Calls
    <3>5. TakenWhenIdle'
      BY <2>2, <3>1 DEF ContextInv, TakenWhenIdle
    <3> QED
      BY <3>2, <3>3, <3>4, <3>5 DEF ContextInv
  <2> QED
    BY <2>1, <2>2
<1>2. CASE Return(c)
  <2>1. c \notin Readers
    BY <1>2, ContextAssumption DEF Return
  <2> QED
    BY <1>2, <2>1, GoesOut DEF Return, ContextInv, CallTypes
<1>3. CASE FailOpen(c)
  <2>1. owner[c] = "none" /\ joining[c] = {}
    BY <1>3 DEF FailOpen, ContextInv, OneFinisher, CallTypes
  <2> QED
    BY <1>3, <2>1, GoesOut DEF FailOpen, ContextInv, CallTypes
<1>4. CASE Enter(c)
  <2>1. CASE lclosing
    BY <1>4, <2>1, MoveInside DEF Enter
  <2>2. CASE ~lclosing
    BY <1>4, <2>2, MoveInside DEF Enter, Inside
  <2> QED
    BY <2>1, <2>2
<1>5. CASE EnterArrow(c)
  <2>1. pc[c] = "counted" /\ c \in Readers /\ joining[c] = {}
    BY <1>5 DEF EnterArrow, ContextInv, OneFinisher
  <2>2. CASE pc' = [pc EXCEPT ![c] = "back"] /\ owner' = owner
    BY <1>5, <2>1, <2>2, MoveInside DEF EnterArrow
  <2>3. CASE /\ pc' = [pc EXCEPT ![c] = "acquire"]
             /\ owner' = [owner EXCEPT ![c] = "opening"]
    BY <1>5, <2>1, <2>3, MoveInside DEF EnterArrow, Inside
  <2> QED
    BY <1>5, <2>2, <2>3 DEF EnterArrow
<1>6. CASE Acquire(c)
  BY <1>6, MoveInside DEF Acquire, Inside
<1>7. CASE Grant(c)
  BY <1>7, MoveInside DEF Grant, Inside
<1>8. CASE Refused(c) \/ TimeOut(c)
  BY <1>8, MoveInside DEF Refused, TimeOut, LeaveQueue, Inside
<1>9. CASE EndQuery(c)
  BY <1>9, MoveInside DEF EndQuery, Finish, Inside
<1>10. CASE Produce(c)
  BY <1>10, MoveInside DEF Produce, Inside
<1>11. CASE Leave(c)
  <2>1. CASE c \in Readers
    BY <1>11, <2>1, MoveInside DEF Leave
  <2>2. CASE c \notin Readers
    BY <1>11, <2>2, MoveInside DEF Leave, Calls
  <2> QED
    BY <2>1, <2>2
<1> QED
  BY <1>1, <1>2, <1>3, <1>4, <1>5, <1>6, <1>7, <1>8, <1>9, <1>10, <1>11
     DEF CallStep

LEMMA ReadersKeepInv ==
    ASSUME ContextInv, NEW r \in Readers, ReaderStep(r) \/ Pull(r)
    PROVE  ContextInv'
<1> USE DEF context_vars, host_vars, lib_vars, call_vars, reader_vars,
            budget_vars, Goto, Ends
<1>0. r \in Calls
  BY DEF Calls
<1>1. CASE Push(r)
  BY <1>0, <1>1, MoveInside DEF Push, Inside
<1>2. CASE PushCancelled(r)
  BY <1>0, <1>2, MoveInside DEF PushCancelled, Finish, Inside
<1>3. CASE Imported(r)
  BY <1>3 DEF Imported, ContextInv, CallTypes, Counted, Held, OneFinisher,
              TakenWhenIdle
<1>4. CASE ImportFailed(r)
  <2>1. joining[r] = {}
    BY <1>4 DEF ImportFailed, ContextInv, OneFinisher
  <2> QED
    BY <1>0, <1>4, <2>1, GoesOut DEF ImportFailed, ContextInv, CallTypes
<1>5. CASE Pull(r)
  BY <1>5 DEF Pull, ContextInv, CallTypes, Counted, Held, OneFinisher,
              TakenWhenIdle
<1>6. ASSUME NEW f \in Finishers, CloseReader(r, f)
      PROVE  ContextInv'
  <2>1. /\ owner[r] = "held"
        /\ owner' = [owner EXCEPT ![r] = "none"]
        /\ joining' = [joining EXCEPT ![r] = @ \cup {f}]
        /\ UNCHANGED <<closing, inflight, ctx, cpc, freed, pc>>
    BY <1>6 DEF CloseReader, Taken
  <2>2. joining[r] = {} /\ pc[r] \notin {"out", "counted", "back"}
    BY <2>1 DEF ContextInv, OneFinisher
  <2>3. CallTypes'
    BY <2>1 DEF ContextInv, CallTypes
  <2>4. Counted'
    BY <2>1 DEF ContextInv, Counted, Held
  <2>5. OneFinisher'
    BY <2>1, <2>2 DEF ContextInv, OneFinisher, CallTypes
  <2>6. TakenWhenIdle'
    BY <2>1 DEF ContextInv, TakenWhenIdle
  <2> QED
    BY <2>3, <2>4, <2>5, <2>6 DEF ContextInv
<1>7. ASSUME NEW f \in Finishers, JoinProducer(r, f)
      PROVE  ContextInv'
  <2>1. /\ f \in joining[r]
        /\ joining' = [joining EXCEPT ![r] = @ \ {f}]
        /\ pc' = [pc EXCEPT ![r] = "out"] /\ inflight' = inflight - 1
        /\ UNCHANGED <<closing, ctx, cpc, freed, owner>>
    BY <1>7 DEF JoinProducer
  <2>2. pc[r] # "out" /\ joining[r] = {f} /\ owner[r] = "none"
    <3>1. joining[r] # {} /\ \A g \in joining[r] : g = f
      BY <2>1 DEF ContextInv, OneFinisher
    <3>2. joining[r] = {f}
      BY <2>1, <3>1
    <3>3. owner[r] = "none" /\ pc[r] # "out"
      BY <3>1 DEF ContextInv, OneFinisher
    <3> QED
      BY <3>2, <3>3
  <2>3. joining' \in [Readers -> SUBSET Finishers] /\ joining'[r] = {}
    BY <2>1, <2>2 DEF ContextInv, CallTypes
  <2> QED
    BY <1>0, <2>1, <2>2, <2>3, GoesOut DEF ContextInv, CallTypes
<1> QED
  BY <1>1, <1>2, <1>3, <1>4, <1>5, <1>6, <1>7 DEF ReaderStep

LEMMA ClosersKeepInv ==
    ASSUME ContextInv, NEW k \in Closers, BeginClose(k) \/ CloserStep(k)
    PROVE  ContextInv'
<1> USE DEF context_vars, host_vars, lib_vars, call_vars, reader_vars,
            budget_vars
<1>1. UNCHANGED <<pc, owner, joining, inflight>> /\ OneFinisher' /\ Counted'
  BY DEF BeginClose, CloserStep, RefuseCalls, CloseBudget, Check, Wake, Free,
         ContextInv, OneFinisher, Counted, Held
<1>2. CallTypes'
  BY <1>1 DEF BeginClose, CloserStep, RefuseCalls, CloseBudget, Check, Wake,
              Free, HandleAfter, ContextInv, CallTypes
<1>3. TakenWhenIdle'
  <2>1. CASE BeginClose(k)
    BY <1>1, <2>1 DEF BeginClose, ContextInv, TakenWhenIdle, CallTypes
  <2>2. CASE RefuseCalls(k)
    BY <1>1, <2>2 DEF RefuseCalls, ContextInv, TakenWhenIdle, CallTypes
  <2>3. CASE CloseBudget(k)
    BY <1>1, <2>3 DEF CloseBudget, ContextInv, TakenWhenIdle, CallTypes
  <2>4. CASE Wake(k)
    BY <1>1, <2>4 DEF Wake, ContextInv, TakenWhenIdle, CallTypes
  <2>5. CASE Free(k)
    BY <1>1, <2>5 DEF Free, ContextInv, TakenWhenIdle, CallTypes
  <2>6. CASE Check(k) /\ inflight # 0
    BY <1>1, <2>6 DEF Check, Drained, HandleAfter, ContextInv, TakenWhenIdle, CallTypes
  <2>7. CASE Check(k) /\ inflight = 0
    BY <1>1, <2>7 DEF Check, Drained, HandleAfter, ContextInv, TakenWhenIdle, CallTypes
  <2> QED
    BY <2>1, <2>2, <2>3, <2>4, <2>5, <2>6, <2>7 DEF CloserStep
<1> QED
  BY <1>1, <1>2, <1>3 DEF ContextInv

LEMMA ContextInvHolds == ContextSpec => []ContextInv
<1>1. ContextInv /\ [ContextNext]_context_vars => ContextInv'
  <2> SUFFICES ASSUME ContextInv, [ContextNext]_context_vars
               PROVE  ContextInv'
    OBVIOUS
  <2>1. CASE UNCHANGED context_vars
    BY <2>1 DEF context_vars, host_vars, lib_vars, call_vars, reader_vars,
                ContextInv, CallTypes, Counted, Held, OneFinisher,
                TakenWhenIdle
  <2>2. CASE ContextNext
    BY <2>2, CallsKeepInv, ReadersKeepInv, ClosersKeepInv DEF ContextNext
  <2> QED
    BY <2>1, <2>2
<1> QED
  BY <1>1, ContextInitInv, PTL DEF ContextSpec

-----------------------------------------------------------------------------
(* "a context is never freed under a running query" (zpq.py:11): no call   *)
(* is in the library, or counted and on its way there, once a closer has   *)
(* taken the context to free it.                                           *)
THEOREM NeverFreedUnderACall == ContextSpec => []NoCallOutlivesContext
<1>1. ContextInv => NoCallOutlivesContext
  <2> SUFFICES ASSUME ContextInv, freed \/ \E k \in Closers : cpc[k] = "free",
                      NEW c \in Calls
               PROVE  pc[c] \notin Inside \cup {"counted"}
    BY DEF NoCallOutlivesContext
  <2>1. inflight = 0
    BY DEF ContextInv, TakenWhenIdle
  <2>2. Held = {}
    BY <2>1, HeldFinite, FS_EmptySet DEF ContextInv, Counted
  <2> QED
    BY <2>2 DEF Held, Inside
<1> QED
  BY <1>1, ContextInvHolds, PTL

(* zpq_close is called at most once, however many threads close the        *)
(* context at a time.                                                      *)
THEOREM ClosedOnce == ContextSpec => []OneCloseEver
<1>1. ContextInv => OneCloseEver
  BY DEF ContextInv, TakenWhenIdle, OneCloseEver
<1> QED
  BY <1>1, ContextInvHolds, PTL

-----------------------------------------------------------------------------
(* The budget.  A call is in the queue once, from its arrival to its start *)
(* or its refusal, and what is reserved is what the running calls need.    *)

Queued ==
    /\ queue \in Seq(Calls)
    /\ \A i, j \in 1..Len(queue) : queue[i] = queue[j] => i = j
    /\ \A i \in 1..Len(queue) : pc[queue[i]] = "queued"

BudgetTypes == reserved \in Int /\ need \in [Calls -> Nat]

BudgetInv == BudgetTypes /\ BudgetKept /\ Queued

(* A place less in a queue: those behind it move up, and none stays.       *)
LEMMA OneLeaves ==
    ASSUME NEW S, NEW q \in Seq(S), NEW i \in 1..Len(q),
           \A j, k \in 1..Len(q) : q[j] = q[k] => j = k
    PROVE  /\ RemoveAt(q, i) \in Seq(S)
           /\ \A j \in 1..Len(RemoveAt(q, i)) :
                 \E k \in 1..Len(q) : k # i /\ RemoveAt(q, i)[j] = q[k]
           /\ \A j, k \in 1..Len(RemoveAt(q, i)) :
                 RemoveAt(q, i)[j] = RemoveAt(q, i)[k] => j = k
<1> DEFINE r == RemoveAt(q, i)  a == SubSeq(q, 1, i - 1)  b == SubSeq(q, i + 1, Len(q))
<1>1. Len(q) \in Nat /\ i \in Nat /\ i >= 1 /\ i <= Len(q)
  OBVIOUS
<1>2. a \in Seq(S) /\ Len(a) = i - 1 /\ \A j \in 1..i - 1 : a[j] = q[j]
  BY <1>1, SubSeqProperties
<1>3. b \in Seq(S) /\ Len(b) = Len(q) - i /\ \A j \in 1..Len(q) - i : b[j] = q[i + j]
  BY <1>1, SubSeqProperties
<1>4. r = a \o b
  BY DEF RemoveAt
<1> HIDE DEF r, a, b
<1>5. r \in Seq(S) /\ Len(r) = Len(q) - 1
  <2>1. a \o b \in Seq(S) /\ Len(a \o b) = Len(a) + Len(b)
    BY <1>2, <1>3, ConcatProperties
  <2>2. Len(a) + Len(b) = Len(q) - 1
    BY <1>1, <1>2, <1>3
  <2> QED
    BY <1>4, <2>1, <2>2
<1>6. \A j \in 1..Len(r) : r[j] = IF j < i THEN q[j] ELSE q[j + 1]
  <2> SUFFICES ASSUME NEW j \in 1..Len(r) PROVE r[j] = IF j < i THEN q[j] ELSE q[j + 1]
    OBVIOUS
  <2>1. r[j] = IF j <= Len(a) THEN a[j] ELSE b[j - Len(a)]
    BY <1>1, <1>2, <1>3, <1>4, <1>5, ConcatProperties
  <2>2. CASE j < i
    BY <1>1, <1>2, <2>1, <2>2
  <2>3. CASE ~ (j < i)
    <3>1. j - Len(a) \in 1..Len(q) - i /\ i + (j - Len(a)) = j + 1
      BY <1>1, <1>2, <1>5, <2>3
    <3> QED
      BY <1>1, <1>2, <1>3, <2>1, <2>3, <3>1
  <2> QED
    BY <2>2, <2>3
<1> DEFINE at(j) == IF j < i THEN j ELSE j + 1
<1>7. \A j \in 1..Len(r) : at(j) \in 1..Len(q) /\ at(j) # i /\ r[j] = q[at(j)]
  BY <1>1, <1>5, <1>6
<1>8. \A j, k \in 1..Len(r) : at(j) = at(k) => j = k
  BY <1>1, <1>5
<1> QED
  BY <1>5, <1>7, <1>8 DEF r

(* What is reserved stays while the same calls run on the same budgets.    *)
LEMMA SameRunning ==
    ASSUME BudgetInv, Running' = Running, reserved' = reserved,
           need' \in [Calls -> Nat], \A c \in Running : need'[c] = need[c]
    PROVE  BudgetTypes' /\ BudgetKept'
<1>1. IsFiniteSet(Running)
  BY ContextAssumption, FS_Union, FS_Subset DEF Running, Calls
<1>2. SumOver(need', Running) = SumOver(need, Running)
  BY <1>1, SumSame
<1> QED
  BY <1>2 DEF BudgetInv, BudgetTypes, BudgetKept, SumOver

LEMMA RunningFinite ==
    /\ IsFiniteSet(Running) /\ Running \subseteq Calls
    /\ BudgetTypes => \A c \in Running : need[c] \in Nat /\ need[c] \in Int
<1>1. IsFiniteSet(Calls) /\ Running \subseteq Calls
  BY ContextAssumption, FS_Union DEF Running, Calls
<1> QED
  BY <1>1, FS_Subset DEF BudgetTypes

(* A call that starts adds its budget, one that ends takes it away.        *)
LEMMA GrantKeeps ==
    ASSUME CallTypes, BudgetInv, NEW c \in Calls, Grant(c)
    PROVE  BudgetInv'
<1>1. /\ pc[c] = "queued" /\ queue # <<>> /\ Head(queue) = c
      /\ pc' = [pc EXCEPT ![c] = "running"] /\ queue' = Tail(queue)
      /\ reserved' = reserved + need[c] /\ need' = need
      /\ need[c] <= Ceiling - reserved
  BY DEF Grant, MayStart, Fits, Goto
<1>2. need[c] \in Nat /\ reserved \in Int /\ Ceiling \in Nat /\ need \in [Calls -> Nat]
  BY ContextAssumption DEF BudgetInv, BudgetTypes
<1>3. Running' = Running \cup {c} /\ c \notin Running
  BY <1>1 DEF Running, CallTypes
<1>4. \A d \in Running \cup {c} : need[d] \in Int
  BY <1>2, RunningFinite DEF BudgetInv
<1>5. SumOver(need, Running \cup {c}) = SumOver(need, Running) + need[c]
  BY <1>3, <1>4, RunningFinite, SumWith
<1>6. BudgetTypes' /\ BudgetKept'
  BY <1>1, <1>2, <1>3, <1>5 DEF BudgetInv, BudgetTypes, BudgetKept, SumOver
<1>7. Queued'
  <2>1. queue \in Seq(Calls) /\ Tail(queue) \in Seq(Calls) /\ Len(Tail(queue)) = Len(queue) - 1
    BY <1>1 DEF BudgetInv, Queued
  <2>2. \A i \in 1..Len(Tail(queue)) : i + 1 \in 1..Len(queue) /\ Tail(queue)[i] = queue[i + 1]
    BY <1>1, <2>1
  <2>3. queue[1] = c /\ 1 \in 1..Len(queue)
    BY <1>1, <2>1
  <2>4. \A i \in 1..Len(Tail(queue)) : Tail(queue)[i] # c
    BY <2>1, <2>2, <2>3 DEF BudgetInv, Queued
  <2>5. \A i \in 1..Len(Tail(queue)) : Tail(queue)[i] \in Calls /\ pc[Tail(queue)[i]] = "queued"
    BY <2>1, <2>2 DEF BudgetInv, Queued
  <2>6. \A i \in 1..Len(Tail(queue)) : pc'[Tail(queue)[i]] = "queued"
    BY <1>1, <2>4, <2>5 DEF CallTypes
  <2>7. \A i, j \in 1..Len(Tail(queue)) : Tail(queue)[i] = Tail(queue)[j] => i = j
    BY <2>1, <2>2 DEF BudgetInv, Queued
  <2> QED
    BY <1>1, <2>1, <2>6, <2>7 DEF Queued
<1> QED
  BY <1>6, <1>7 DEF BudgetInv

(* A call that is not queued may go anywhere: the queue does not hold it.  *)
LEMMA QueueStays ==
    ASSUME CallTypes, Queued, NEW c \in Calls, NEW to, pc[c] # "queued",
           pc' = [pc EXCEPT ![c] = to], queue' = queue
    PROVE  Queued'
<1>1. ASSUME NEW i \in 1..Len(queue) PROVE pc'[queue[i]] = "queued"
  <2>1. queue[i] \in Calls /\ pc[queue[i]] = "queued"
    BY DEF Queued
  <2>2. queue[i] # c
    BY <2>1
  <2> QED
    BY <2>1, <2>2 DEF CallTypes
<1> QED
  BY <1>1 DEF Queued

LEMMA FinishKeeps ==
    ASSUME CallTypes, BudgetInv, NEW c \in Calls, c \in Running, NEW how, Finish(c, how)
    PROVE  BudgetInv'
<1>1. /\ pc' = [pc EXCEPT ![c] = "leaving"] /\ queue' = queue
      /\ reserved' = reserved - need[c] /\ need' = [need EXCEPT ![c] = 0]
  BY DEF Finish, Released, Goto, host_vars
<1>2. need[c] \in Nat /\ reserved \in Int /\ Ceiling \in Nat /\ need \in [Calls -> Nat] /\ reserved <= Ceiling
  BY ContextAssumption DEF BudgetInv, BudgetTypes, BudgetKept
<1>3. Running' = Running \ {c}
  BY <1>1 DEF Running, CallTypes
<1>4. \A d \in Running : need[d] \in Int
  BY RunningFinite DEF BudgetInv
<1>5. SumOver(need, Running) = need[c] + SumOver(need, Running \ {c})
  BY <1>4, RunningFinite, SumWithout
<1>6. SumOver(need', Running \ {c}) = SumOver(need, Running \ {c}) /\ SumOver(need, Running \ {c}) \in Int
  <2>1. IsFiniteSet(Running \ {c}) /\ \A d \in Running \ {c} : need'[d] = need[d] /\ need[d] \in Int
    BY <1>1, <1>2, <1>4, RunningFinite, FS_Subset
  <2> QED
    BY <2>1, SumSame, SumInt
<1>7. reserved = SumOver(need, Running)
  BY DEF BudgetInv, BudgetKept, SumOver
<1>8. reserved' = SumOver(need', Running')
  BY <1>1, <1>2, <1>3, <1>5, <1>6, <1>7
<1>9. BudgetTypes' /\ BudgetKept'
  BY <1>1, <1>2, <1>8 DEF BudgetTypes, BudgetKept, SumOver
<1>10. Queued'
  BY <1>1, QueueStays DEF BudgetInv, Running
<1> QED
  BY <1>9, <1>10 DEF BudgetInv

(* A step that starts and ends no query, of a call that is not queued.     *)
LEMMA BudgetStays ==
    ASSUME CallTypes, BudgetInv, NEW c \in Calls, NEW to,
           pc[c] # "queued", pc' = [pc EXCEPT ![c] = to],
           c \in Running <=> to \in {"running", "pushing"},
           need' \in [Calls -> Nat], \A d \in Calls \ {c} : need'[d] = need[d],
           c \in Running => need'[c] = need[c],
           UNCHANGED <<reserved, queue>>
    PROVE  BudgetInv'
<1>1. Running' = Running
  BY DEF Running, CallTypes
<1>2. BudgetTypes' /\ BudgetKept'
  BY <1>1, RunningFinite, SameRunning
<1>3. Queued'
  BY QueueStays DEF BudgetInv
<1> QED
  BY <1>2, <1>3 DEF BudgetInv

(* One that leaves the calls and their budgets where they are.             *)
LEMMA BudgetAlone ==
    ASSUME BudgetInv, UNCHANGED <<pc, need, reserved, queue>>
    PROVE  BudgetInv'
BY DEF BudgetInv, BudgetTypes, BudgetKept, Running, Queued

LEMMA AcquireKeeps ==
    ASSUME CallTypes, BudgetInv, NEW c \in Calls, Acquire(c)
    PROVE  BudgetInv'
<1>1. pc[c] = "acquire" /\ c \notin Running /\ reserved' = reserved /\ need \in [Calls -> Nat]
  BY DEF Acquire, Running, BudgetInv, BudgetTypes
<1>2. CASE queue' = queue
  BY <1>1, <1>2, BudgetStays DEF Acquire, Goto
<1>3. CASE queue' = Append(queue, c) /\ pc' = [pc EXCEPT ![c] = "queued"] /\ need' = need
  <2>1. Running' = Running
    BY <1>1, <1>3 DEF Running, CallTypes
  <2>2. BudgetTypes' /\ BudgetKept'
    BY <1>1, <1>3, <2>1, SameRunning
  <2>3. queue \in Seq(Calls) /\ \A i \in 1..Len(queue) : queue[i] # c /\ queue[i] \in Calls
    BY <1>1 DEF BudgetInv, Queued
  <2>4. queue' \in Seq(Calls) /\ Len(queue') = Len(queue) + 1 /\ queue'[Len(queue) + 1] = c
    BY <1>3, <2>3
  <2>5. \A i \in 1..Len(queue) : queue'[i] = queue[i]
    BY <1>3, <2>3
  <2>6. \A i, j \in 1..Len(queue') : queue'[i] = queue'[j] => i = j
    BY <2>3, <2>4, <2>5 DEF BudgetInv, Queued
  <2>7. ASSUME NEW i \in 1..Len(queue') PROVE pc'[queue'[i]] = "queued"
    <3>1. CASE i \in 1..Len(queue)
      <4>1. pc[queue[i]] = "queued" /\ queue[i] \in Calls
        BY <2>3, <3>1 DEF BudgetInv, Queued
      <4> QED
        BY <1>3, <2>3, <2>5, <3>1, <4>1 DEF CallTypes
    <3>2. CASE i = Len(queue) + 1
      BY <1>3, <2>4, <3>2 DEF CallTypes
    <3> QED
      BY <2>3, <2>4, <3>1, <3>2
  <2> QED
    BY <2>2, <2>4, <2>6, <2>7 DEF BudgetInv, Queued
<1> QED
  BY <1>2, <1>3 DEF Acquire, Goto

LEMMA LeaveKeeps ==
    ASSUME CallTypes, BudgetInv, NEW c \in Calls, NEW how, LeaveQueue(c, how)
    PROVE  BudgetInv'
<1>1. /\ pc[c] = "queued" /\ pc' = [pc EXCEPT ![c] = "leaving"] /\ reserved' = reserved
      /\ need' = [need EXCEPT ![c] = 0]
  BY DEF LeaveQueue, Goto
<1>2. PICK i \in 1..Len(queue) : queue[i] = c /\ queue' = RemoveAt(queue, i)
  BY DEF LeaveQueue
<1>3. Running' = Running /\ c \notin Running
  BY <1>1 DEF Running, CallTypes
<1>4. need' \in [Calls -> Nat] /\ \A d \in Running : need'[d] = need[d]
  BY <1>1, <1>3, RunningFinite DEF BudgetInv, BudgetTypes
<1>5. BudgetTypes' /\ BudgetKept'
  BY <1>1, <1>3, <1>4, SameRunning
<1>6. queue \in Seq(Calls) /\ \A j, k \in 1..Len(queue) : queue[j] = queue[k] => j = k
  BY DEF BudgetInv, Queued
<1>7. /\ queue' \in Seq(Calls)
      /\ \A j \in 1..Len(queue') : \E k \in 1..Len(queue) : k # i /\ queue'[j] = queue[k]
      /\ \A j, k \in 1..Len(queue') : queue'[j] = queue'[k] => j = k
  BY <1>2, <1>6, OneLeaves
<1>8. ASSUME NEW j \in 1..Len(queue') PROVE pc'[queue'[j]] = "queued"
  <2>1. PICK k \in 1..Len(queue) : k # i /\ queue'[j] = queue[k]
    BY <1>7
  <2>2. queue[k] # c /\ queue[k] \in Calls /\ pc[queue[k]] = "queued"
    BY <1>2, <1>6, <2>1 DEF BudgetInv, Queued
  <2> QED
    BY <1>1, <2>1, <2>2 DEF CallTypes
<1> QED
  BY <1>5, <1>7, <1>8 DEF BudgetInv, Queued

LEMMA BudgetInitInv == ContextInit => BudgetInv
<1> SUFFICES ASSUME ContextInit PROVE BudgetInv
  OBVIOUS
<1>1. Running = {} /\ reserved = 0 /\ queue = <<>> /\ need \in [Calls -> Nat]
  BY DEF ContextInit, Running
<1>2. SumOver(need, {}) = 0
  BY SumEmpty
<1>3. BudgetKept
  BY <1>1, <1>2, ContextAssumption DEF BudgetKept, SumOver
<1> QED
  BY <1>1, <1>3 DEF BudgetInv, BudgetTypes, Queued

LEMMA CallsKeepBudget ==
    ASSUME ContextInv, BudgetInv, NEW c \in Calls,
           Call(c) \/ CallStep(c) \/ TimeOut(c)
    PROVE  BudgetInv'
<1> USE DEF host_vars, lib_vars, call_vars, reader_vars, budget_vars, Goto,
            Ends
<1>0. CallTypes /\ need \in [Calls -> Nat] /\ Sizes \subseteq Nat
  BY ContextAssumption DEF ContextInv, BudgetInv, BudgetTypes
<1>1. CASE Call(c)
  <2>1. CASE pc' = pc
    BY <1>1, <2>1, BudgetAlone DEF Call
  <2>2. CASE pc' = [pc EXCEPT ![c] = "counted"]
    BY <1>0, <1>1, <2>2, BudgetStays DEF Call, Running
  <2> QED
    BY <1>1, <2>1, <2>2 DEF Call
<1>2. CASE Return(c)
  BY <1>0, <1>2, BudgetStays DEF Return, Running
<1>3. CASE FailOpen(c)
  BY <1>0, <1>3, BudgetStays DEF FailOpen, Running
<1>4. CASE Enter(c)
  <2>1. pc[c] = "counted" /\ UNCHANGED <<reserved, queue>>
    BY <1>4 DEF Enter
  <2>2. CASE pc' = [pc EXCEPT ![c] = "back"] /\ need' = need
    BY <1>0, <2>1, <2>2, BudgetStays DEF Running
  <2>3. ASSUME NEW b \in Sizes, need' = [need EXCEPT ![c] = b],
               pc' = [pc EXCEPT ![c] = "acquire"]
        PROVE  BudgetInv'
    <3>1. need' \in [Calls -> Nat] /\ \A d \in Calls \ {c} : need'[d] = need[d]
      BY <1>0, <2>3
    <3> QED
      BY <1>0, <2>1, <2>3, <3>1, BudgetStays DEF Running
  <2> QED
    BY <1>4, <2>2, <2>3 DEF Enter
<1>5. CASE EnterArrow(c)
  <2>1. pc[c] = "counted" /\ UNCHANGED <<reserved, queue>>
    BY <1>5 DEF EnterArrow
  <2>2. CASE pc' = [pc EXCEPT ![c] = "back"] /\ need' = need
    BY <1>0, <2>1, <2>2, BudgetStays DEF Running
  <2>3. ASSUME NEW b \in Sizes, need' = [need EXCEPT ![c] = b],
               pc' = [pc EXCEPT ![c] = "acquire"]
        PROVE  BudgetInv'
    <3>1. need' \in [Calls -> Nat] /\ \A d \in Calls \ {c} : need'[d] = need[d]
      BY <1>0, <2>3
    <3> QED
      BY <1>0, <2>1, <2>3, <3>1, BudgetStays DEF Running
  <2> QED
    BY <1>5, <2>2, <2>3 DEF EnterArrow
<1>6. CASE Acquire(c)
  BY <1>0, <1>6, AcquireKeeps
<1>7. CASE Grant(c)
  BY <1>0, <1>7, GrantKeeps
<1>8. CASE Refused(c) \/ TimeOut(c)
  BY <1>0, <1>8, LeaveKeeps DEF Refused, TimeOut
<1>9. CASE EndQuery(c)
  BY <1>0, <1>9, FinishKeeps DEF EndQuery, Running
<1>10. CASE Produce(c)
  BY <1>0, <1>10, BudgetStays DEF Produce, Running
<1>11. CASE Leave(c)
  BY <1>0, <1>11, BudgetStays DEF Leave, Running
<1> QED
  BY <1>1, <1>2, <1>3, <1>4, <1>5, <1>6, <1>7, <1>8, <1>9, <1>10, <1>11
     DEF CallStep

LEMMA ReadersKeepBudget ==
    ASSUME ContextInv, BudgetInv, NEW r \in Readers, ReaderStep(r) \/ Pull(r)
    PROVE  BudgetInv'
<1> USE DEF host_vars, lib_vars, call_vars, reader_vars, budget_vars, Goto,
            Ends
<1>0. CallTypes /\ need \in [Calls -> Nat] /\ r \in Calls
  BY DEF ContextInv, BudgetInv, BudgetTypes, Calls
<1>1. CASE Push(r)
  BY <1>0, <1>1, BudgetStays DEF Push, Running
<1>2. CASE PushCancelled(r)
  BY <1>0, <1>2, FinishKeeps DEF PushCancelled, Running
<1>3. CASE Imported(r) \/ Pull(r)
  BY <1>3, BudgetAlone DEF Imported, Pull
<1>4. CASE ImportFailed(r)
  BY <1>0, <1>4, BudgetStays DEF ImportFailed, Running
<1>5. ASSUME NEW f \in Finishers, CloseReader(r, f)
      PROVE  BudgetInv'
  BY <1>5, BudgetAlone DEF CloseReader
<1>6. ASSUME NEW f \in Finishers, JoinProducer(r, f)
      PROVE  BudgetInv'
  BY <1>0, <1>6, BudgetStays DEF JoinProducer, Running
<1> QED
  BY <1>1, <1>2, <1>3, <1>4, <1>5, <1>6 DEF ReaderStep

LEMMA ClosersKeepBudget ==
    ASSUME BudgetInv, NEW k \in Closers, BeginClose(k) \/ CloserStep(k)
    PROVE  BudgetInv'
BY BudgetAlone
   DEF BeginClose, CloserStep, RefuseCalls, CloseBudget, Check, Wake, Free,
       host_vars, lib_vars, call_vars, reader_vars, budget_vars

LEMMA BudgetInvHolds == ContextSpec => []BudgetInv
<1>1. ContextInv /\ BudgetInv /\ [ContextNext]_context_vars => BudgetInv'
  <2> SUFFICES ASSUME ContextInv, BudgetInv, [ContextNext]_context_vars
               PROVE  BudgetInv'
    OBVIOUS
  <2>1. CASE UNCHANGED context_vars
    BY <2>1, BudgetAlone DEF context_vars, call_vars, budget_vars
  <2>2. CASE ContextNext
    BY <2>2, CallsKeepBudget, ReadersKeepBudget, ClosersKeepBudget
       DEF ContextNext
  <2> QED
    BY <2>1, <2>2
<1> QED
  BY <1>1, BudgetInitInv, ContextInvHolds, PTL DEF ContextSpec

(* The budgets of the queries that run add up to what is reserved, within  *)
(* the ceiling (budget.zig): acquire adds what release takes away, however *)
(* the query ends, and a query that is refused or times out adds nothing.  *)
THEOREM ReservedIsWhatRuns == ContextSpec => []BudgetKept
<1>1. BudgetInv => BudgetKept
  BY DEF BudgetInv
<1> QED
  BY <1>1, BudgetInvHolds, PTL

(* "Reservations are granted in arrival order" (budget.zig), none of them  *)
(* after shutdown: only Grant starts a query, the one at the head of the   *)
(* queue, which is nowhere else in it.                                     *)
LEMMA OnlyGrantStarts ==
    ASSUME ContextInv, BudgetInv, ContextNext, NEW c \in Calls,
           pc[c] = "queued", pc'[c] = "running"
    PROVE  Grant(c)
<1> USE DEF Goto
<1>0. pc \in [Calls -> PCs]
  BY DEF ContextInv, CallTypes
<1>1. ASSUME NEW d \in Calls, Call(d) \/ CallStep(d) \/ TimeOut(d)
      PROVE  Grant(c)
  BY <1>0, <1>1
     DEF Call, CallStep, TimeOut, Return, FailOpen, Enter, EnterArrow,
         Acquire, Grant, Refused, LeaveQueue, EndQuery, Finish, Produce,
         Leave
<1>2. ASSUME NEW r \in Readers, ReaderStep(r) \/ Pull(r)
      PROVE  Grant(c)
  <2>1. r \in Calls
    BY DEF Calls
  <2> QED
    BY <1>0, <1>2, <2>1
       DEF ReaderStep, Push, PushCancelled, Finish, Imported, ImportFailed,
           CloseReader, JoinProducer, Pull, call_vars
<1>3. ASSUME NEW k \in Closers, BeginClose(k) \/ CloserStep(k)
      PROVE  Grant(c)
  BY <1>3 DEF BeginClose, CloserStep, RefuseCalls, CloseBudget, Check, Wake,
              Free, call_vars
<1> QED
  BY <1>1, <1>2, <1>3 DEF ContextNext

THEOREM GrantsInOrder == ContextSpec => StartsInOrder
<1> DEFINE Fair(c) == pc[c] = "queued" /\ pc'[c] = "running" =>
                        /\ ~bclosed
                        /\ \A i \in 1..Len(queue') : queue'[i] # c
                        /\ \A i \in 1..Len(queue) : queue[i] = c => i = 1
<1>1. ASSUME ContextInv, BudgetInv, [ContextNext]_context_vars
      PROVE  \A c \in Calls : Fair(c)
  <2> SUFFICES ASSUME NEW c \in Calls, pc[c] = "queued", pc'[c] = "running"
               PROVE  /\ ~bclosed
                      /\ \A i \in 1..Len(queue') : queue'[i] # c
                      /\ \A i \in 1..Len(queue) : queue[i] = c => i = 1
    OBVIOUS
  <2>1. ContextNext
    BY <1>1 DEF context_vars, call_vars
  <2>2. Grant(c)
    BY <1>1, <2>1, OnlyGrantStarts
  <2>3. ~bclosed /\ queue # <<>> /\ Head(queue) = c /\ queue' = Tail(queue)
    BY <2>2 DEF Grant, MayStart
  <2>4. queue \in Seq(Calls) /\ \A i, j \in 1..Len(queue) : queue[i] = queue[j] => i = j
    BY <1>1 DEF BudgetInv, Queued
  <2>5. queue[1] = c /\ 1 \in 1..Len(queue)
    BY <2>3, <2>4
  <2>6. \A i \in 1..Len(queue) : queue[i] = c => i = 1
    BY <2>4, <2>5
  <2>7. \A i \in 1..Len(queue') : i + 1 \in 1..Len(queue) /\ queue'[i] = queue[i + 1] /\ i + 1 # 1
    BY <2>3, <2>4
  <2>8. \A i \in 1..Len(queue') : queue'[i] # c
    BY <2>6, <2>7
  <2> QED
    BY <2>3, <2>6, <2>8
<1> QED
  BY <1>1, ContextInvHolds, BudgetInvHolds, PTL DEF ContextSpec, StartsInOrder
=============================================================================
