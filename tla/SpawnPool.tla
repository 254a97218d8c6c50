------------------------------ MODULE SpawnPool ------------------------------
(***************************************************************************)
(* core/spawn.zig: the process-wide pool of threads that parallel regions  *)
(* run on.  runTree takes the pool's idle threads and starts the rest as a *)
(* binary tree of new ones; any start may fail, which cancels the jobs of  *)
(* the whole subtree.  The caller leaves when the region's count is zero,  *)
(* while the threads are still on their way back to the idle list.  The    *)
(* last of the contexts that hold the pool stops and joins every thread.   *)
(*                                                                         *)
(* A user is a thread that opens a context, runs regions and closes it.    *)
(* Slots are names for the memory of a Pool.Slot; a destroyed one's may be *)
(* used again.  Sections under Pool.lock are one action each.  A futex     *)
(* wait is the guard it waits for: the kernel compares the word and sleeps *)
(* in one step, and every store another thread may wait on is followed by  *)
(* a wake.  An operator named D_X is a mutant of the D defined after it.   *)
(***************************************************************************)
EXTENDS Integers, Sequences, FiniteSets, SequencesExt

CONSTANTS
    Users,          \* the threads that call retainPool, runTree, releasePool
    Size,           \* Size[u]: the contexts of u's regions
    NumSlots,       \* bound on slots that exist at one time
    Opens,          \* bound on how often a user opens a context
    Regions,        \* Regions[u]: bound on the regions u runs on each
    CanFail         \* whether a thread or a slot may fail to be made

Slots == 1..NumSlots

ASSUME SpawnAssumption ==
    /\ IsFiniteSet(Users) /\ Users # {}
    /\ Size \in [Users -> Nat \ {0}]
    /\ NumSlots \in Nat
    /\ Opens \in Nat
    /\ Regions \in [Users -> Nat]
    /\ CanFail \in BOOLEAN

VARIABLES
    upc, opens, regions,
    pending, next,          \* Group.pending and Group.next of u's region
    warm, grown, fresh,     \* runTree's locals
    ran,                    \* history: how often each context of it ran
    spc,                    \* where a slot's thread is; "none": no such slot
    state,                  \* Slot.state: idle, posted or exit
    user,                   \* Slot.arg: the region of its job
    place, kid,             \* boot's i, and how many children it went through
    idle, all, holders,     \* Pool.idle, Pool.all, Pool.holders
    joins,                  \* releasePool's list
    closes                  \* history: how the pool has been closed so far,
                            \* "quiet", "early" or "reopened"

user_vars == <<upc, opens, regions>>
region_vars == <<pending, next, warm, grown, fresh, ran>>
slot_vars == <<spc, state, user, place, kid>>
pool_vars == <<idle, all, holders>>
vars == <<user_vars, region_vars, slot_vars, pool_vars, joins, closes>>

Init ==
    /\ upc = [u \in Users |-> "out"]
    /\ opens = [u \in Users |-> 0]
    /\ regions = [u \in Users |-> 0]
    /\ pending = [u \in Users |-> 0]
    /\ next = [u \in Users |-> 0]
    /\ warm = [u \in Users |-> 0]
    /\ grown = [u \in Users |-> FALSE]
    /\ fresh = [u \in Users |-> <<>>]
    /\ ran = [u \in Users |-> [c \in 1..Size[u] |-> 0]]
    /\ spc = [s \in Slots |-> "none"]
    /\ state = [s \in Slots |-> "idle"]
    /\ user = [s \in Slots |-> CHOOSE u \in Users : TRUE]
    /\ place = [s \in Slots |-> 1]
    /\ kid = [s \in Slots |-> 0]
    /\ idle = <<>>
    /\ all = <<>>
    /\ holders = 0
    /\ joins = [u \in Users |-> <<>>]
    /\ closes = "quiet"

-----------------------------------------------------------------------------
(* runTree, on the caller's thread.                                        *)

Goto(u, pc) == upc' = [upc EXCEPT ![u] = pc]

Enter(u) ==
    /\ upc[u] = "in"
    /\ regions[u] < Regions[u]
    /\ regions' = [regions EXCEPT ![u] = @ + 1]
    /\ pending' = [pending EXCEPT ![u] = Size[u]]
    /\ Goto(u, "take")
    /\ UNCHANGED <<opens, next, warm, grown, fresh, ran, slot_vars, pool_vars, joins, closes>>

\* takeIdle and post: between the two the slot is the caller's alone.
TakeIdle(u) ==
    /\ upc[u] = "take"
    /\ warm[u] < Size[u]
    /\ idle # <<>>
    /\ LET s == Head(idle) IN
         /\ spc[s] # "none"     \* posting to freed memory has no defined result
         /\ state' = [state EXCEPT ![s] = "posted"]
         /\ user' = [user EXCEPT ![s] = u]
    /\ idle' = Tail(idle)
    /\ warm' = [warm EXCEPT ![u] = @ + 1]
    /\ UNCHANGED <<user_vars, pending, next, grown, fresh, ran, spc, place, kid, all,
                   holders, joins, closes>>

TakenAll(u) ==
    /\ upc[u] = "take"
    /\ warm[u] = Size[u] \/ idle = <<>>
    /\ Goto(u, IF warm[u] = Size[u] THEN "wait" ELSE "grow")
    /\ UNCHANGED <<opens, regions, region_vars, slot_vars, pool_vars, joins, closes>>

Unused == {s \in Slots : spc[s] = "none"}

\* How many of n slots grow could make: a failure stops at the first one.
\* Where slots may fail to be made, running out of them is such a failure.
Makes(n) == {m \in (IF CanFail THEN 0..n ELSE {n}) : m <= Cardinality(Unused)}

\* The m lowest names not in use: which memory a slot gets makes no difference.
NewSlots(m) ==
    {f \in [1..m -> Unused] : \A i \in 1..m : Cardinality({s \in Unused : s < f[i]}) = i - 1}

\* grow, up to the root's start.  The slots it could not make are cancelled.
Grow(u) ==
    /\ upc[u] = "grow"
    /\ LET n == Size[u] - warm[u] IN
         /\ \E made \in Makes(n) : \E slots \in NewSlots(made) :
              LET In(s) == s \in ToSet(slots)
              IN /\ fresh' = [fresh EXCEPT ![u] = slots]
                 /\ pending' = [pending EXCEPT ![u] = @ - (n - made)]
                 /\ spc' = [s \in Slots |-> IF In(s) THEN "made" ELSE spc[s]]
                 /\ state' = [s \in Slots |-> IF In(s) THEN "posted" ELSE state[s]]
                 /\ user' = [s \in Slots |-> IF In(s) THEN u ELSE user[s]]
                 /\ Goto(u, IF made = 0 THEN "wait" ELSE "root")
    /\ UNCHANGED <<opens, regions, next, warm, grown, ran, place, kid, pool_vars, joins, closes>>

\* The places below c in a tree of n, c included, each node's children
\* being 2i and 2i + 1 (counting from one): the least set that has them.
Closed(S, n) == \A i \in S : {2 * i, 2 * i + 1} \cap 1..n \subseteq S
Subtree(c, n) ==
    {i \in c..n : \A S \in SUBSET (c..n) : c \in S /\ Closed(S, n) => i \in S}

\* A new thread at place c of u's tree, in boot.
Booted(u, c) ==
    LET s == fresh[u][c] IN
    /\ spc[s] = "made"
    /\ spc' = [spc EXCEPT ![s] = "boot"]
    /\ place' = [place EXCEPT ![s] = c]
    /\ kid' = [kid EXCEPT ![s] = 0]

\* cancelSubtree.  Its counts reach zero only when it was the root's.
Cancelled(u, c) ==
    LET gone == Subtree(c, Len(fresh[u])) IN
    /\ CanFail
    /\ pending' = [pending EXCEPT ![u] = @ - Cardinality(gone)]
    /\ spc' = [s \in Slots |-> IF \E i \in gone : fresh[u][i] = s
                                THEN "none" ELSE spc[s]]

StartRoot(u) ==
    /\ upc[u] = "root"
    /\ \/ /\ Booted(u, 1)
          /\ grown' = [grown EXCEPT ![u] = TRUE]
          /\ Goto(u, "list")
          /\ UNCHANGED pending
       \/ /\ Cancelled(u, 1)
          /\ Goto(u, "wait")
          /\ UNCHANGED <<grown, place, kid>>
    /\ UNCHANGED <<opens, regions, next, warm, fresh, ran, state, user, pool_vars, joins, closes>>

\* The rest of start, under the lock.
ListRoot(u) ==
    /\ upc[u] = "list"
    /\ all' = <<fresh[u][1]>> \o all
    /\ Goto(u, "wait")
    /\ UNCHANGED <<opens, regions, region_vars, slot_vars, idle, holders, joins, closes>>

\* Not one thread started: runTree returns false and waits for nobody.
Declines_NotGrown(u) == ~grown[u]
Declines(u) == warm[u] = 0 /\ ~grown[u]

\* The locals end with the call.
Leave(u) ==
    /\ upc[u] = "wait"
    /\ Declines(u) \/ pending[u] = 0
    /\ pending' = [pending EXCEPT ![u] = 0]
    /\ next' = [next EXCEPT ![u] = 0]
    /\ warm' = [warm EXCEPT ![u] = 0]
    /\ grown' = [grown EXCEPT ![u] = FALSE]
    /\ fresh' = [fresh EXCEPT ![u] = <<>>]
    /\ ran' = [ran EXCEPT ![u] = [c \in 1..Size[u] |-> 0]]
    /\ Goto(u, "in")
    /\ UNCHANGED <<opens, regions, slot_vars, pool_vars, joins, closes>>

-----------------------------------------------------------------------------
(* A pooled thread: boot, then main.                                       *)

Child(s) == 2 * place[s] + kid[s]
HasChild_OffByOne(s) == kid[s] < 2 /\ Child(s) < Len(fresh[user[s]])
HasChild(s) == kid[s] < 2 /\ Child(s) <= Len(fresh[user[s]])

StartKid(s) ==
    /\ spc[s] = "boot"
    /\ HasChild(s)
    /\ LET u == user[s]
           k == fresh[u][Child(s)]
       IN \/ /\ spc[k] = "made"
             /\ spc' = [spc EXCEPT ![k] = "boot", ![s] = "list"]
             /\ place' = [place EXCEPT ![k] = Child(s)]
             /\ kid' = [kid EXCEPT ![k] = 0]
             /\ UNCHANGED pending
          \/ /\ Cancelled(u, Child(s))
             /\ kid' = [kid EXCEPT ![s] = @ + 1]
             /\ UNCHANGED place
    /\ UNCHANGED <<user_vars, next, warm, grown, fresh, ran, state, user, pool_vars, joins, closes>>

ListKid(s) ==
    /\ spc[s] = "list"
    /\ all' = <<fresh[user[s]][Child(s)]>> \o all
    /\ kid' = [kid EXCEPT ![s] = @ + 1]
    /\ spc' = [spc EXCEPT ![s] = "boot"]
    /\ UNCHANGED <<user_vars, region_vars, state, user, place, idle, holders, joins, closes>>

Step(s, from, to) == spc[s] = from /\ spc' = [spc EXCEPT ![s] = to]

\* boot calls main, and its i and c are of no more use.
BootDone(s) ==
    /\ ~HasChild(s)
    /\ Step(s, "boot", "look")
    /\ place' = [place EXCEPT ![s] = 1]
    /\ kid' = [kid EXCEPT ![s] = 0]
    /\ UNCHANGED <<user_vars, region_vars, state, user, pool_vars, joins, closes>>

\* What wakes a thread that waits in main.
Woken(s) == state[s] # "idle"

Look(s) ==
    /\ Woken(s)
    /\ Step(s, "look", IF state[s] = "exit" THEN "exited" ELSE "job")
    /\ UNCHANGED <<user_vars, region_vars, state, user, place, kid, pool_vars, joins, closes>>

\* runOne claims the next context.
Claim(s) ==
    /\ Step(s, "job", "run")
    /\ LET u == user[s] IN
         /\ next' = [next EXCEPT ![u] = @ + 1]
         /\ ran' = [ran EXCEPT ![u][next[u] + 1] = @ + 1]
    /\ UNCHANGED <<user_vars, pending, warm, grown, fresh, state, user, place, kid,
                   pool_vars, joins, closes>>

JobDone(s) ==
    /\ Step(s, "run", "park")
    /\ pending' = [pending EXCEPT ![user[s]] = @ - 1]
    /\ UNCHANGED <<user_vars, next, warm, grown, fresh, ran, state, user, place, kid,
                   pool_vars, joins, closes>>

\* Whatever state holds by now, main stores idle over it.
Parked(s) == [state EXCEPT ![s] = "idle"]

Park(s) ==
    /\ Step(s, "park", "push")
    /\ state' = Parked(s)
    /\ UNCHANGED <<user_vars, region_vars, user, place, kid, pool_vars, joins, closes>>

\* release(s)
Push(s) ==
    /\ Step(s, "push", "look")
    /\ idle' = <<s>> \o idle
    /\ UNCHANGED <<user_vars, region_vars, state, user, place, kid, all, holders, joins, closes>>

-----------------------------------------------------------------------------
(* retainPool and releasePool.                                             *)

Retain(u) ==
    /\ upc[u] = "out"
    /\ opens[u] < Opens
    /\ opens' = [opens EXCEPT ![u] = @ + 1]
    /\ regions' = [regions EXCEPT ![u] = 0]
    /\ holders' = holders + 1
    /\ closes' = (IF closes = "early" THEN "reopened" ELSE closes)
    /\ Goto(u, "in")
    /\ UNCHANGED <<region_vars, slot_vars, idle, all, joins>>

\* The threads of the regions that ended are idle again.  A last release that
\* comes before is early: its exit may be stored over, and a thread it joins may
\* still put itself on the idle list, so that a context opened after it may post
\* to memory that was freed.
Settled == \A s \in ToSet(all) : spc[s] = "look" /\ state[s] = "idle"

LastHold_OffByOne == holders = 0
LastHold == holders = 1

ReleasePool(u) ==
    /\ upc[u] = "in"
    /\ holders' = holders - 1
    /\ IF LastHold
       THEN /\ joins' = [joins EXCEPT ![u] = all]
            /\ all' = <<>>
            /\ idle' = <<>>
            /\ closes' = (IF closes = "quiet" /\ ~Settled THEN "early" ELSE closes)
            /\ Goto(u, "tell")
       ELSE /\ Goto(u, "out")
            /\ UNCHANGED <<joins, all, idle, closes>>
    /\ UNCHANGED <<opens, regions, region_vars, slot_vars>>

TellExit(u) ==
    /\ upc[u] = "tell"
    /\ joins[u] # <<>>
    /\ state' = [state EXCEPT ![Head(joins[u])] = "exit"]
    /\ Goto(u, "join")
    /\ UNCHANGED <<opens, regions, region_vars, spc, user, place, kid, pool_vars, joins, closes>>

\* join, then destroy.
Join(u) ==
    /\ upc[u] = "join"
    /\ Step(Head(joins[u]), "exited", "none")
    /\ joins' = [joins EXCEPT ![u] = Tail(@)]
    /\ Goto(u, "tell")
    /\ UNCHANGED <<opens, regions, region_vars, state, user, place, kid, pool_vars, closes>>

Joined(u) ==
    /\ upc[u] = "tell"
    /\ joins[u] = <<>>
    /\ Goto(u, "out")
    /\ UNCHANGED <<opens, regions, region_vars, slot_vars, pool_vars, joins, closes>>

\* Every user closed its last context; what is left of the pool sleeps.
Finished ==
    /\ \A u \in Users : upc[u] = "out" /\ opens[u] = Opens
    /\ \A s \in Slots : spc[s] = "none" \/ (spc[s] = "look" /\ state[s] = "idle")
    /\ UNCHANGED vars

Region(u) ==
    \/ TakeIdle(u) \/ TakenAll(u) \/ Grow(u) \/ StartRoot(u) \/ ListRoot(u) \/ Leave(u)
Close(u) == TellExit(u) \/ Join(u) \/ Joined(u)
Thread(s) ==
    \/ StartKid(s) \/ ListKid(s) \/ BootDone(s) \/ Look(s)
    \/ Claim(s) \/ JobDone(s) \/ Park(s) \/ Push(s)

Next ==
    \/ \E u \in Users : Retain(u) \/ Enter(u) \/ Region(u) \/ ReleasePool(u) \/ Close(u)
    \/ \E s \in Slots : Thread(s)
    \/ Finished

Spec == Init /\ [][Next]_vars

\* A job ends (contexts wait only on contexts that have a thread), and every
\* thread that can run does.
Fairness ==
    /\ \A u \in Users : WF_vars(Region(u)) /\ WF_vars(Close(u))
    /\ \A s \in Slots : WF_vars(Thread(s))
FairSpec == Spec /\ Fairness

-----------------------------------------------------------------------------
InRegion(u) == upc[u] \in {"take", "grow", "root", "list", "wait"}
Booting(s) == spc[s] \in {"boot", "list"}
Live(s) == spc[s] # "none"

\* Slot s holds a job of u that has not been counted done.
Holds(s, u) ==
    /\ user[s] = u
    /\ \/ spc[s] \in {"made", "boot", "list", "job", "run"}
       \/ spc[s] = "look" /\ state[s] = "posted"

\* No thread runs a job of a region whose caller has left it, or is still
\* walking the caller's array of new slots ("fresh is the caller's, and must
\* outlive the region", spawn.zig:200): both are memory of the caller's stack
\* or freed on return.  For the count the caller waits on is the number of its
\* jobs still out, those it has yet to hand out and those a thread holds:
\* cancelling a subtree and finishing a job each take off exactly what they end
\* (spawn.zig:92-98, 242-252).  And a job claims a context that is there, once:
\* next never passes the end of ctxs, which runOne does not look at.  All this
\* until a context is opened on what an early close left.
RegionOutlivesItsThreads ==
  closes # "reopened" =>
    /\ \A s \in Slots :
          (Booting(s) \/ \E u \in Users : Holds(s, u)) => InRegion(user[s])
    /\ \A u \in Users :
          /\ pending[u] = (IF upc[u] \in {"take", "grow"} THEN Size[u] - warm[u] ELSE 0)
                            + Cardinality({s \in Slots : Holds(s, u)})
          /\ next[u] <= Size[u]
          /\ \A k \in DOMAIN ran[u] : ran[u][k] <= 1

\* start made the thread and is about to put it on Pool.all.
BeingListed(s) ==
    \/ \E u \in Users : upc[u] = "list" /\ s = fresh[u][1]
    \/ \E p \in Slots : spc[p] = "list" /\ s = fresh[user[p]][Child(p)]

\* A slot on the idle list is a thread of the pool, once, that sleeps in main or
\* is about to: takeIdle's caller may post to it (spawn.zig:181-197).  That much
\* ends with an early close.  And when its last holder joins the pool every
\* thread is on the list it joins, so none runs on in a process that closed its
\* contexts (spawn.zig:292): also the threads an early close finds on their way.
ListsHoldTheThreads ==
    /\ closes = "quiet" =>
          \A s \in ToSet(idle) :
              /\ s \in ToSet(all) \/ BeingListed(s)
              /\ spc[s] = "look"
              /\ state[s] = "idle"
    /\ closes # "reopened" => IsInjective(idle)
    /\ closes # "reopened" /\ holders = 0 =>
          \A s \in Slots : Live(s) => \E u \in Users : s \in ToSet(joins[u])

\* Every parallel region ends, whichever threads could not be started; and every
\* closing context gets through its joins, if the threads were idle when it
\* began: a later close that is early does not take that from it.
CallersReturn ==
    \A u \in Users :
        /\ InRegion(u) /\ closes = "quiet" ~> upc[u] = "in"
        /\ upc[u] = "tell" /\ closes = "quiet" ~> upc[u] = "out"

\* "the last one joins every pooled thread and returns true" (spawn.zig:292):
\* releasePool, and so zpq_close, returns.
ReleaseReturns == \A u \in Users : upc[u] = "tell" ~> upc[u] = "out"
=============================================================================
