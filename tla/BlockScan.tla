------------------------------- MODULE BlockScan -------------------------------
(***************************************************************************)
(* The scan workers of an ordered GROUP BY (core/scan/worker.zig over       *)
(* block_merge.zig and consumer/budget.zig): a worker claims a block of the *)
(* work list, waits until it is less than Ahead blocks past the first one   *)
(* not merged, decodes its items on a budget shared by all, and merges its  *)
(* table behind every earlier one.  Blocks and items count from 1.          *)
(***************************************************************************)
EXTENDS Integers, Sequences, FiniteSets, FiniteSetsExt

CONSTANTS
    Workers,        \* the scan's threads
    NumBlocks,
    Ends,           \* the last item of each block
    Items,          \* what each item takes: [needs, scratch, bad]
    Ahead,          \* n_workers
    Limit,          \* of the decode budget
    CanRefuse,      \* whether the query's ledger may refuse a decode or a merge
    Nobody

Blocks == 1..NumBlocks
StartOf(b) == IF b = 1 THEN 1 ELSE Ends[b - 1] + 1

ASSUME ScanAssumption ==
    /\ NumBlocks \in Nat \ {0} /\ Ahead \in Nat \ {0} /\ Limit \in Nat
    /\ Items \in Seq([needs : Seq(Nat \ {0}), scratch : Nat, bad : BOOLEAN])
    /\ Ends \in [Blocks -> 0..Len(Items)]
    /\ \A a, b \in Blocks : a < b => Ends[a] <= Ends[b]
    /\ \A i \in DOMAIN Items : \E b \in Blocks : i \in StartOf(b)..Ends[b]
    /\ CanRefuse \in BOOLEAN
    /\ IsFiniteSet(Workers) /\ Workers # {} /\ Nobody \notin Workers

VARIABLES
    used, released, waiters,            \* DecodeBudget
    next, done, lock, failed, failedFrom, moved,    \* BlockMerge
    n,                                  \* finish's own: the block to merge now
    merged,                             \* the blocks in the merged table, as they came
    cursor,                             \* block_cursor
    pc, block, at, part,                \* where a worker is: its block, item, and try at it
    held, scratch,                      \* what it reserved, and for optional scratch
    seen,                               \* the word it is about to sleep on, as it read it
    failure                             \* failure_work; Unlocated for a merge's refusal

budget_vars == <<used, released, waiters>>
merge_vars == <<next, done, lock, n, merged>>
fail_vars == <<failed, failedFrom>>
place_vars == <<block, at, part>>
hold_vars == <<held, scratch>>
vars == <<budget_vars, merge_vars, fail_vars, moved, cursor, pc, place_vars, hold_vars, seen, failure>>

None == -1
Unlocated == 0
Never == NumBlocks + 1      \* of failed_from: maxInt

Init ==
    /\ used = 0 /\ released = 0 /\ waiters = 0
    /\ next = 1 /\ done = [b \in Blocks |-> FALSE] /\ lock = Nobody /\ n = [w \in Workers |-> 0] /\ merged = <<>>
    /\ failed = FALSE /\ failedFrom = Never /\ moved = 0
    /\ cursor = 1
    /\ pc = [w \in Workers |-> "claim"]
    /\ block = [w \in Workers |-> 0] /\ at = [w \in Workers |-> 0] /\ part = [w \in Workers |-> 0]
    /\ held = [w \in Workers |-> 0] /\ scratch = [w \in Workers |-> 0]
    /\ seen = [w \in Workers |-> 0]
    /\ failure = [w \in Workers |-> None]

Goes(w, there) == pc' = [pc EXCEPT ![w] = there]

\* A futex wake of everyone asleep on a word: they look at it again.
Woken(asleep, again) == [w \in Workers |-> IF pc[w] = asleep THEN again ELSE pc[w]]

-----------------------------------------------------------------------------
(* A block and its turn: BlockMerge.awaitTurn.                             *)

ClaimBlock(w) ==
    /\ pc[w] = "claim"
    /\ cursor' = cursor + 1
    /\ IF cursor > NumBlocks
       THEN Goes(w, "over") /\ UNCHANGED block
       ELSE Goes(w, "turn") /\ block' = [block EXCEPT ![w] = cursor]
    /\ UNCHANGED <<budget_vars, merge_vars, fail_vars, moved, at, part, hold_vars, seen, failure>>

SeeMoved(w) ==
    /\ pc[w] = "turn"
    /\ seen' = [seen EXCEPT ![w] = moved]
    /\ Goes(w, "cancelled?")
    /\ UNCHANGED <<budget_vars, merge_vars, fail_vars, moved, cursor, place_vars, hold_vars, failure>>

Cancelled_Any(b) == failed
Cancelled(b) == failed /\ b >= failedFrom

SeeFailed(w) ==
    /\ pc[w] = "cancelled?"
    /\ Goes(w, IF Cancelled(block[w]) THEN "over" ELSE "near?")
    /\ UNCHANGED <<budget_vars, merge_vars, fail_vars, moved, cursor, place_vars, hold_vars, seen, failure>>

Near_OneMore(b) == b <= next + Ahead
Near(b) == b < next + Ahead

SeeNext(w) ==
    /\ pc[w] = "near?"
    /\ IF Near(block[w])
       THEN Goes(w, "item") /\ at' = [at EXCEPT ![w] = StartOf(block[w])]
       ELSE Goes(w, "sleep") /\ UNCHANGED at
    /\ UNCHANGED <<budget_vars, merge_vars, fail_vars, moved, cursor, block, part, hold_vars, seen, failure>>

SleepForTurn(w) ==
    /\ pc[w] = "sleep"
    /\ Goes(w, IF moved = seen[w] THEN "asleep" ELSE "turn")
    /\ UNCHANGED <<budget_vars, merge_vars, fail_vars, moved, cursor, place_vars, hold_vars, seen, failure>>

-----------------------------------------------------------------------------
(* An item: DecodeBudget.acquire, the decode, DecodeBudget.release.  An     *)
(* item has no need when it is skipped or answered by its statistics, and   *)
(* two when its whole decode gives way to one in slices (whose last release *)
(* is of nothing, and left out).                                            *)

TakeItem(w) ==
    /\ pc[w] = "item"
    /\ IF at[w] > Ends[block[w]]
       THEN Goes(w, "done") /\ UNCHANGED <<at, part>>
       ELSE IF Items[at[w]].needs = <<>>
       THEN at' = [at EXCEPT ![w] = @ + 1] /\ UNCHANGED <<pc, part>>
       ELSE Goes(w, "try") /\ part' = [part EXCEPT ![w] = 1] /\ UNCHANGED at
    /\ UNCHANGED <<budget_vars, merge_vars, fail_vars, moved, cursor, block, hold_vars, seen, failure>>

Need(w) == Items[at[w]].needs[part[w]]
Fits_BeforeAdding(bytes) == used < Limit
Fits(bytes) == used + bytes <= Limit

\* tryAcquire, and where to after it.
Try(w, got, refused) ==
    IF Fits(Need(w))
    THEN /\ used' = used + Need(w)
         /\ held' = [held EXCEPT ![w] = Need(w)]
         /\ Goes(w, got)
    ELSE Goes(w, refused) /\ UNCHANGED <<used, held>>

TryFirst(w) ==
    /\ pc[w] = "try"
    /\ IF Need(w) > Limit       \* RowGroupTooLarge
       THEN /\ failure' = [failure EXCEPT ![w] = at[w]]
            /\ Goes(w, "fail")
            /\ UNCHANGED <<used, held>>
       ELSE Try(w, "decode", "enlist") /\ UNCHANGED failure
    /\ UNCHANGED <<released, waiters, merge_vars, fail_vars, moved, cursor, place_vars, scratch, seen>>

Enlist(w) ==
    /\ pc[w] = "enlist"
    /\ waiters' = waiters + 1
    /\ Goes(w, "look")
    /\ UNCHANGED <<used, released, merge_vars, fail_vars, moved, cursor, place_vars, hold_vars, seen, failure>>

SeeReleased(w) ==
    /\ pc[w] = "look"
    /\ seen' = [seen EXCEPT ![w] = released]
    /\ Goes(w, "try again")
    /\ UNCHANGED <<budget_vars, merge_vars, fail_vars, moved, cursor, place_vars, hold_vars, failure>>

TryAgain(w) ==
    /\ pc[w] = "try again"
    /\ Try(w, "delist", "doze")
    /\ UNCHANGED <<released, waiters, merge_vars, fail_vars, moved, cursor, place_vars, scratch, seen, failure>>

SleepForRoom_Regardless(w) ==
    /\ pc[w] = "doze"
    /\ Goes(w, "dozing")
    /\ UNCHANGED <<budget_vars, merge_vars, fail_vars, moved, cursor, place_vars, hold_vars, seen, failure>>

SleepForRoom(w) ==
    /\ pc[w] = "doze"
    /\ Goes(w, IF released = seen[w] THEN "dozing" ELSE "look")
    /\ UNCHANGED <<budget_vars, merge_vars, fail_vars, moved, cursor, place_vars, hold_vars, seen, failure>>

Delist(w) ==
    /\ pc[w] = "delist"
    /\ waiters' = waiters - 1
    /\ Goes(w, "decode")
    /\ UNCHANGED <<used, released, merge_vars, fail_vars, moved, cursor, place_vars, hold_vars, seen, failure>>

LastPart(w) == part[w] = Len(Items[at[w]].needs)

\* What a decode comes to: an error if the item is bad, or if the ledger refuses;
\* with scratch (agg_coded.zig), which nobody waits for.
Decode(w) ==
    /\ pc[w] = "decode"
    /\ \/ failure' = [failure EXCEPT ![w] = IF LastPart(w) /\ Items[at[w]].bad THEN at[w] ELSE None]
       \/ CanRefuse /\ failure' = [failure EXCEPT ![w] = at[w]]
    /\ LET more == Items[at[w]].scratch
       IN  IF LastPart(w) /\ more > 0 /\ Fits(more)
           THEN scratch' = [scratch EXCEPT ![w] = more] /\ used' = used + more
           ELSE UNCHANGED <<scratch, used>>
    /\ Goes(w, "give")
    /\ UNCHANGED <<released, waiters, merge_vars, fail_vars, moved, cursor, place_vars, held, seen>>

\* release: of the scratch first, then of the reservation.
Give(w) ==
    /\ pc[w] = "give"
    /\ IF scratch[w] > 0
       THEN used' = used - scratch[w] /\ scratch' = [scratch EXCEPT ![w] = 0] /\ UNCHANGED held
       ELSE used' = used - held[w] /\ held' = [held EXCEPT ![w] = 0] /\ UNCHANGED scratch
    /\ Goes(w, "bump")
    /\ UNCHANGED <<released, waiters, merge_vars, fail_vars, moved, cursor, place_vars, seen, failure>>

Bump(w) ==
    /\ pc[w] = "bump"
    /\ released' = released + 1
    /\ Goes(w, "rouse")
    /\ UNCHANGED <<used, waiters, merge_vars, fail_vars, moved, cursor, place_vars, hold_vars, seen, failure>>

\* The wake, and on: to the reservation's release, the failure, the decode in
\* slices, or the next item.
Rouse(w) ==
    /\ pc[w] = "rouse"
    /\ LET there == IF held[w] > 0 THEN "give"
                    ELSE IF failure[w] # None THEN "fail"
                    ELSE IF LastPart(w) THEN "item" ELSE "try"
       IN  pc' = [(IF waiters > 0 THEN Woken("dozing", "look") ELSE pc) EXCEPT ![w] = there]
    /\ IF held[w] > 0 \/ failure[w] # None THEN UNCHANGED <<at, part>>
       ELSE IF LastPart(w) THEN at' = [at EXCEPT ![w] = @ + 1] /\ UNCHANGED part
       ELSE part' = [part EXCEPT ![w] = @ + 1] /\ UNCHANGED at
    /\ UNCHANGED <<budget_vars, merge_vars, fail_vars, moved, cursor, block, hold_vars, seen, failure>>

-----------------------------------------------------------------------------
(* BlockMerge.finish, fail and failFrom.                                   *)

StoreDone(w) ==
    /\ pc[w] = "done"
    /\ done' = [done EXCEPT ![block[w]] = TRUE]
    /\ Goes(w, "lock")
    /\ UNCHANGED <<budget_vars, next, lock, n, merged, fail_vars, moved, cursor, place_vars, hold_vars, seen, failure>>

Lock_Shared(w) ==
    /\ pc[w] = "lock"
    /\ lock' = w /\ n' = [n EXCEPT ![w] = next]
    /\ Goes(w, "merge")
    /\ UNCHANGED <<budget_vars, next, done, merged, fail_vars, moved, cursor, place_vars, hold_vars, seen, failure>>

Lock(w) ==
    /\ pc[w] = "lock" /\ lock = Nobody
    /\ lock' = w /\ n' = [n EXCEPT ![w] = next]
    /\ Goes(w, "merge")
    /\ UNCHANGED <<budget_vars, next, done, merged, fail_vars, moved, cursor, place_vars, hold_vars, seen, failure>>

Ready(b) == b <= NumBlocks /\ done[b]

\* The block's table, into the merged one, and next's store.
MergeNext(w) ==
    /\ pc[w] = "merge" /\ Ready(n[w])
    /\ merged' = Append(merged, n[w])
    /\ next' = n[w] + 1 /\ n' = [n EXCEPT ![w] = @ + 1]
    /\ Goes(w, "moved")
    /\ UNCHANGED <<budget_vars, done, lock, fail_vars, moved, cursor, place_vars, hold_vars, seen, failure>>

TellMoved(w) ==
    /\ pc[w] = "moved"
    /\ moved' = moved + 1
    /\ pc' = [Woken("asleep", "turn") EXCEPT ![w] = "merge"]
    /\ UNCHANGED <<budget_vars, merge_vars, fail_vars, cursor, place_vars, hold_vars, seen, failure>>

NothingReady(w) ==
    /\ pc[w] = "merge" /\ ~ Ready(n[w])
    /\ lock' = Nobody
    /\ block' = [block EXCEPT ![w] = 0]
    /\ Goes(w, "claim")
    /\ UNCHANGED <<budget_vars, next, done, n, merged, fail_vars, moved, cursor, at, part, hold_vars, seen, failure>>

\* The merged table's growth refused, some of the block's groups in it.
MergeRefused(w) ==
    /\ pc[w] = "merge" /\ Ready(n[w]) /\ CanRefuse
    /\ lock' = Nobody
    /\ failure' = [failure EXCEPT ![w] = Unlocated]
    /\ Goes(w, "fail")
    /\ UNCHANGED <<budget_vars, next, done, n, merged, fail_vars, moved, cursor, place_vars, hold_vars, seen>>

\* The block of an item, as workerRun finds it: the first that ends behind it.
BlockOf(i) == Min({b \in Blocks : i <= Ends[b]})
FailsFrom(w) == IF failure[w] = Unlocated THEN 1 ELSE BlockOf(failure[w])

FailFrom(w) ==
    /\ pc[w] = "fail"
    /\ failedFrom' = IF FailsFrom(w) < failedFrom THEN FailsFrom(w) ELSE failedFrom
    /\ Goes(w, "store failed")
    /\ UNCHANGED <<budget_vars, merge_vars, failed, moved, cursor, place_vars, hold_vars, seen, failure>>

StoreFailed(w) ==
    /\ pc[w] = "store failed"
    /\ failed' = TRUE
    /\ Goes(w, "tell failed")
    /\ UNCHANGED <<budget_vars, merge_vars, failedFrom, moved, cursor, place_vars, hold_vars, seen, failure>>

TellFailed(w) ==
    /\ pc[w] = "tell failed"
    /\ moved' = moved + 1
    /\ pc' = [Woken("asleep", "turn") EXCEPT ![w] = "over"]
    /\ UNCHANGED <<budget_vars, merge_vars, fail_vars, cursor, place_vars, hold_vars, seen, failure>>

-----------------------------------------------------------------------------
Worker(w) ==
    \/ ClaimBlock(w) \/ SeeMoved(w) \/ SeeFailed(w) \/ SeeNext(w) \/ SleepForTurn(w)
    \/ TakeItem(w) \/ TryFirst(w) \/ Enlist(w) \/ SeeReleased(w) \/ TryAgain(w) \/ SleepForRoom(w) \/ Delist(w)
    \/ Decode(w) \/ Give(w) \/ Bump(w) \/ Rouse(w)
    \/ StoreDone(w) \/ Lock(w) \/ MergeNext(w) \/ TellMoved(w) \/ NothingReady(w) \/ MergeRefused(w)
    \/ FailFrom(w) \/ StoreFailed(w) \/ TellFailed(w)

AllOver == \A w \in Workers : pc[w] = "over"
Joined == AllOver /\ UNCHANGED vars

Next == Joined \/ \E w \in Workers : Worker(w)

Spec == Init /\ [][Next]_vars

\* Every thread that can run does; nobody is woken who was not told.
FairSpec == Spec /\ \A w \in Workers : WF_vars(Worker(w))

-----------------------------------------------------------------------------
(* Properties.                                                             *)

\* Tables merge strictly in block order, each once, however the workers race for
\* the lock (block_merge.zig:6-7 "strictly in block order").
MergedInOrder == Len(merged) = next - 1 /\ \A i \in 1..next - 1 : merged[i] = i

Turning == {"claim", "turn", "cancelled?", "near?", "sleep", "asleep"}
AtWork(w) == pc[w] \notin Turning /\ (pc[w] = "over" => failure[w] # None)
Started(b) == done[b] \/ \E w \in Workers : block[w] = b /\ AtWork(w)

\* Of the blocks started and not merged, at most Ahead have a table
\* (block_merge.zig:8-9 "at most `ahead` block tables are alive").
FewTables == \A b \in Blocks : Started(b) => b < next + Ahead

\* The decode budget counts what the workers hold, and never passes its limit,
\* through restarts in slices, scratch and errors (budget.zig:8-12).
DecodeKept == used = SumFunctionOnSet([w \in Workers |-> held[w] + scratch[w]], Workers) /\ used <= Limit

\* The items no decode can come through.
Bad == {i \in 1..Len(Items) :
           \/ Items[i].needs # <<>> /\ Items[i].bad
           \/ \E p \in 1..Len(Items[i].needs) : Items[i].needs[p] > Limit}

\* firstWorkerFailure: the least failure is the query's.
Failures == {failure[w] : w \in Workers} \ {None}

\* Once the workers are over, the query is answered from all the blocks, or it
\* fails where the first bad item is or before: no later failure hides an earlier
\* one (worker.zig:182-184).
FirstFailureTold ==
    AllOver =>
        /\ Failures = {} => Bad = {} /\ next = NumBlocks + 1
        /\ \A i \in Bad : \E f \in Failures : f <= i

\* Every worker comes to its end: none sleeps through the room, the turn or the
\* failure it waits for.
WorkersEnd == <>AllOver
=============================================================================
