--------------------------- MODULE BlockScan_proofs ---------------------------
(***************************************************************************)
(* Of BlockScan, for any number of workers, blocks and items: tables merge *)
(* in block order, few are alive, the decode budget is what the workers    *)
(* hold, and no later failure hides an earlier.                            *)
(***************************************************************************)
EXTENDS BlockScan, DataLemmas

Waiting == {"turn", "cancelled?", "near?", "sleep", "asleep"}
Reserving == {"try", "enlist", "look", "try again", "doze", "dozing"}
Giving == {"give", "bump", "rouse"}
Decoding == Reserving \cup {"delist", "decode"} \cup Giving
Merging == {"lock", "merge", "moved"}
Finishing == {"done"} \cup Merging
Failing == {"fail", "store failed", "tell failed"}
PCs == {"claim", "item", "over"} \cup Waiting \cup Decoding \cup Finishing \cup Failing

ScanTypes ==
    /\ next \in 1..NumBlocks + 1 /\ done \in [Blocks -> BOOLEAN]
    /\ n \in [Workers -> Int] /\ merged \in Seq(Int)
    /\ failed \in BOOLEAN /\ failedFrom \in 1..NumBlocks + 1
    /\ cursor \in Nat \ {0}
    /\ pc \in [Workers -> PCs]
    /\ block \in [Workers -> 0..NumBlocks] /\ at \in [Workers -> Int] /\ part \in [Workers -> Int]
    /\ failure \in [Workers -> Int]

\* A block is one worker's, from its claim to its merge.
Owned ==
    /\ \A w \in Workers : block[w] < cursor
    /\ \A w \in Workers : pc[w] = "claim" => block[w] = 0
    /\ \A w \in Workers : pc[w] \notin {"claim", "over"} => block[w] # 0
    /\ \A v, w \in Workers : block[v] = block[w] /\ block[v] # 0 => v = w

\* Whoever merges has the lock, and next's value.
OneMerger ==
    \A w \in Workers : pc[w] \in {"merge", "moved"} => lock = w /\ n[w] = next

\* Nothing ready to merge is left behind without someone to merge it, but by a
\* merge that was refused.
Drained ==
    Ready(next) => \E w \in Workers : pc[w] \in Merging \/ failure[w] = Unlocated

Turned ==
    /\ \A w \in Workers : AtWork(w) => block[w] # 0 /\ block[w] < next + Ahead
    /\ \A b \in Blocks : done[b] => b < next + Ahead

GoodBefore(b, i) == \A j \in StartOf(b)..i - 1 : j \notin Bad
Tried(w) == IF pc[w] = "try" THEN part[w] - 1 ELSE part[w]

\* Where a worker is in its block: what it has left behind it was good.
Placed(w) ==
    /\ AtWork(w) /\ pc[w] \notin Finishing /\ failure[w] # Unlocated =>
          StartOf(block[w]) <= at[w] /\ GoodBefore(block[w], at[w])
    /\ pc[w] = "item" => at[w] <= Ends[block[w]] + 1
    /\ pc[w] \in Decoding =>
          /\ at[w] <= Ends[block[w]] /\ part[w] \in 1..Len(Items[at[w]].needs)
          /\ \A p \in 1..Tried(w) : Items[at[w]].needs[p] <= Limit
    /\ pc[w] \in Giving /\ failure[w] = None /\ LastPart(w) => ~ Items[at[w]].bad
    /\ pc[w] \in Finishing => GoodBefore(block[w], Ends[block[w]] + 1)

\* A failure is of the item the worker was at, or a refused merge's.
Located(w) ==
    /\ failure[w] # None => pc[w] \in Giving \cup Failing \cup {"over"} /\ block[w] # 0
    /\ pc[w] \in Failing => failure[w] # None
    /\ pc[w] \in Giving => failure[w] # Unlocated
    /\ failure[w] \notin {None, Unlocated} =>
          failure[w] = at[w] /\ at[w] \in StartOf(block[w])..Ends[block[w]]

InPlace == \A w \in Workers : Placed(w) /\ Located(w)

DoneGood == \A b \in Blocks : done[b] => GoodBefore(b, Ends[b] + 1)

\* What failed_from holds is some worker's failure.
Told ==
    /\ failedFrom # Never => \E w \in Workers : failure[w] # None /\ FailsFrom(w) = failedFrom
    /\ failed => failedFrom # Never
    /\ \A w \in Workers : pc[w] = "store failed" => failedFrom # Never

\* Every block claimed is done, in work, or given up after a failure; a worker is
\* over for no other reason, or because the blocks are all claimed.
Accounted ==
    /\ \A b \in Blocks : b < cursor =>
          \/ done[b]
          \/ \E w \in Workers : block[w] = b /\ (pc[w] # "over" \/ failure[w] # None \/ Cancelled(b))
    /\ \A w \in Workers : pc[w] \in Merging => done[block[w]]
    /\ \A w \in Workers : pc[w] = "over" =>
          cursor > NumBlocks \/ failure[w] # None \/ (block[w] # 0 /\ Cancelled(block[w]))

ScanInv ==
    /\ ScanTypes /\ Owned /\ OneMerger /\ MergedInOrder /\ Drained /\ Turned
    /\ InPlace /\ DoneGood /\ Told /\ Accounted

-----------------------------------------------------------------------------
(* The constants.                                                          *)

\* How many there are.
LEMMA Sizes == NumBlocks \in Nat \ {0} /\ Len(Items) \in Nat
  BY ScanAssumption

\* A merge's refusal is a failure.
LEMMA NoneIsNot == None # Unlocated
  BY DEF None, Unlocated

\* Blocks cover the items in order.
LEMMA Bounds ==
    /\ NumBlocks \in Nat \ {0} /\ Ahead \in Nat \ {0} /\ Limit \in Nat
    /\ \A b \in Blocks : Ends[b] \in Nat /\ Ends[b] <= Len(Items) /\ StartOf(b) \in Nat \ {0}
    /\ \A b \in Blocks : StartOf(b) <= Ends[b] + 1
    /\ \A a, b \in Blocks : a < b => Ends[a] < StartOf(b)
  <1>1. NumBlocks \in Nat \ {0} /\ Ahead \in Nat \ {0} /\ Limit \in Nat
    BY ScanAssumption
  <1>2. /\ Len(Items) \in Nat /\ Ends \in [Blocks -> 0..Len(Items)]
        /\ \A a, b \in Blocks : a < b => Ends[a] <= Ends[b]
    BY ScanAssumption
  <1>3. \A b \in Blocks : Ends[b] \in Nat /\ Ends[b] <= Len(Items) /\ StartOf(b) \in Nat \ {0}
    BY <1>1, <1>2 DEF Blocks, StartOf
  <1>4. ASSUME NEW a \in Blocks, NEW b \in Blocks, a < b PROVE Ends[a] < StartOf(b)
    <2>1. b - 1 \in Blocks /\ b # 1 /\ (a = b - 1 \/ a < b - 1)
      BY <1>1, <1>4 DEF Blocks
    <2>2. Ends[a] <= Ends[b - 1]
      BY <1>2, <1>3, <2>1
    <2> QED
      BY <1>3, <2>1, <2>2 DEF StartOf
  <1>5. ASSUME NEW b \in Blocks PROVE StartOf(b) <= Ends[b] + 1
    <2>1. CASE b = 1
      BY <1>3, <2>1 DEF StartOf
    <2>2. CASE b # 1
      <3>1. b - 1 \in Blocks /\ b - 1 < b
        BY <1>1, <2>2 DEF Blocks
      <3>2. Ends[b - 1] <= Ends[b]
        BY <1>2, <3>1
      <3> QED
        BY <1>3, <2>2, <3>1, <3>2 DEF StartOf
    <2> QED
      BY <2>1, <2>2
  <1> QED
    BY <1>1, <1>3, <1>4, <1>5

\* What an item needs.
LEMMA ItemTypes ==
    ASSUME NEW i \in 1..Len(Items)
    PROVE  /\ Len(Items[i].needs) \in Nat /\ Items[i].bad \in BOOLEAN
           /\ Items[i].needs = <<>> <=> Len(Items[i].needs) = 0
           /\ \A p \in 1..Len(Items[i].needs) : Items[i].needs[p] \in Nat
  <1> DEFINE R == [needs : Seq(Nat \ {0}), scratch : Nat, bad : BOOLEAN]
  <1>0. Items \in Seq(R)
    BY ScanAssumption
  <1> HIDE DEF R
  <1>1. Items[i] \in R
    BY <1>0
  <1> USE DEF R
  <1>2. Items[i].needs \in Seq(Nat \ {0}) /\ Items[i].bad \in BOOLEAN
    BY <1>1
  <1> QED
    BY <1>2

\* The block that workerRun finds is the one the item is in.
LEMMA BlockOfItem ==
    ASSUME NEW b \in Blocks, NEW i \in StartOf(b)..Ends[b]
    PROVE  BlockOf(i) = b
  <1> DEFINE S == {a \in Blocks : i <= Ends[a]}
  <1>1. b \in S /\ i \in Nat
    BY Bounds
  <1>2. \A a \in S : b <= a
    BY Bounds, <1>1 DEF Blocks
  <1>3. Min(S) = CHOOSE x \in S : \A y \in S : x <= y
    BY DEF Min
  <1>4. \A x \in S : (\A y \in S : x <= y) => x = b
    BY Bounds, <1>1, <1>2 DEF Blocks
  <1> HIDE DEF S
  <1>5. Min(S) = b
    BY <1>1, <1>2, <1>3, <1>4
  <1> QED
    BY <1>5 DEF BlockOf, S

-----------------------------------------------------------------------------
(* What each part of a worker changes, and what all of them leave alone.   *)

TurnStep(w) == ClaimBlock(w) \/ SeeMoved(w) \/ SeeFailed(w) \/ SeeNext(w) \/ SleepForTurn(w)
DecodeStep(w) ==
    \/ TakeItem(w) \/ TryFirst(w) \/ Enlist(w) \/ SeeReleased(w) \/ TryAgain(w) \/ SleepForRoom(w) \/ Delist(w)
    \/ Decode(w) \/ Give(w) \/ Bump(w) \/ Rouse(w)
MergeStep(w) ==
    StoreDone(w) \/ Lock(w) \/ MergeNext(w) \/ TellMoved(w) \/ NothingReady(w) \/ MergeRefused(w)
FailStep(w) == FailFrom(w) \/ StoreFailed(w) \/ TellFailed(w)

\* A step of a worker is of one of its parts.
LEMMA WorkerSteps ==
    ASSUME NEW w, Worker(w)
    PROVE  TurnStep(w) \/ DecodeStep(w) \/ MergeStep(w) \/ FailStep(w)
  BY DEF Worker, TurnStep, DecodeStep, MergeStep, FailStep

TurnFrame(w) ==
    /\ pc[w] \in {"claim"} \cup Waiting /\ pc'[w] \in {"item", "over"} \cup Waiting
    /\ UNCHANGED <<next, done, lock, n, merged, failed, failedFrom, part, failure>>

DecodeFrame(w) ==
    /\ pc[w] \in {"item"} \cup Decoding /\ pc'[w] \in {"item", "done", "fail"} \cup Decoding
    /\ UNCHANGED <<next, done, lock, n, merged, failed, failedFrom, cursor, block>>

MergeFrame(w) ==
    /\ pc[w] \in Finishing /\ pc'[w] \in {"claim", "fail"} \cup Merging
    /\ UNCHANGED <<failed, failedFrom, cursor, at, part>>

FailFrame(w) ==
    /\ pc[w] \in Failing /\ pc'[w] \in {"store failed", "tell failed", "over"}
    /\ UNCHANGED <<next, done, lock, n, merged, cursor, block, at, part, failure>>

\* The other workers: at most woken.
Others(w) ==
    \A v \in Workers \ {w} :
        /\ \/ pc'[v] = pc[v]
           \/ pc[v] = "asleep" /\ pc'[v] = "turn"
           \/ pc[v] = "dozing" /\ pc'[v] = "look"
        /\ block'[v] = block[v] /\ at'[v] = at[v] /\ part'[v] = part[v] /\ failure'[v] = failure[v]

\* Waiting for a turn, a worker fails at nothing and merges nothing.
LEMMA TurnFrames ==
    ASSUME ScanTypes, NEW w \in Workers, TurnStep(w)
    PROVE  TurnFrame(w) /\ Others(w) /\ pc' \in [Workers -> PCs]
  <1> USE DEF TurnFrame, Others, ScanTypes, PCs, Waiting, Decoding, Reserving, Giving, Finishing, Merging, Failing,
          Goes, budget_vars, merge_vars, fail_vars, place_vars, hold_vars
  <1>1. CASE ClaimBlock(w)
    BY <1>1 DEF ClaimBlock
  <1>2. CASE SeeMoved(w)
    BY <1>2 DEF SeeMoved
  <1>3. CASE SeeFailed(w)
    BY <1>3 DEF SeeFailed
  <1>4. CASE SeeNext(w)
    BY <1>4 DEF SeeNext
  <1>5. CASE SleepForTurn(w)
    BY <1>5 DEF SleepForTurn
  <1> QED
    BY <1>1, <1>2, <1>3, <1>4, <1>5 DEF TurnStep

\* Decoding, it keeps its block and leaves the merge alone.
LEMMA DecodeFrames ==
    ASSUME ScanTypes, NEW w \in Workers, DecodeStep(w)
    PROVE  DecodeFrame(w) /\ Others(w) /\ pc' \in [Workers -> PCs]
  <1> USE DEF DecodeFrame, Others, ScanTypes, PCs, Waiting, Decoding, Reserving, Giving, Finishing, Merging, Failing,
          Goes, budget_vars, merge_vars, fail_vars, place_vars, hold_vars
  <1>1. CASE TakeItem(w)
    BY <1>1 DEF TakeItem
  <1>2. CASE TryFirst(w)
    BY <1>2 DEF TryFirst, Try
  <1>3. CASE Enlist(w)
    BY <1>3 DEF Enlist
  <1>4. CASE SeeReleased(w)
    BY <1>4 DEF SeeReleased
  <1>5. CASE TryAgain(w)
    BY <1>5 DEF TryAgain, Try
  <1>6. CASE SleepForRoom(w)
    BY <1>6 DEF SleepForRoom
  <1>7. CASE Delist(w)
    BY <1>7 DEF Delist
  <1>8. CASE Decode(w)
    BY <1>8 DEF Decode
  <1>9. CASE Give(w)
    BY <1>9 DEF Give
  <1>10. CASE Bump(w)
    BY <1>10 DEF Bump
  <1>11. CASE Rouse(w)
    BY <1>11 DEF Rouse, Woken
  <1> QED
    BY <1>1, <1>2, <1>3, <1>4, <1>5, <1>6, <1>7, <1>8, <1>9, <1>10, <1>11 DEF DecodeStep

\* Merging, it keeps to its items.
LEMMA MergeFrames ==
    ASSUME ScanTypes, NEW w \in Workers, MergeStep(w)
    PROVE  MergeFrame(w) /\ Others(w) /\ pc' \in [Workers -> PCs]
  <1> USE DEF MergeFrame, Others, ScanTypes, PCs, Waiting, Decoding, Reserving, Giving, Finishing, Merging, Failing,
          Goes, budget_vars, merge_vars, fail_vars, place_vars, hold_vars
  <1>1. CASE StoreDone(w)
    BY <1>1 DEF StoreDone
  <1>2. CASE Lock(w)
    BY <1>2 DEF Lock
  <1>3. CASE MergeNext(w)
    BY <1>3 DEF MergeNext
  <1>4. CASE TellMoved(w)
    BY <1>4 DEF TellMoved, Woken
  <1>5. CASE NothingReady(w)
    BY <1>5 DEF NothingReady
  <1>6. CASE MergeRefused(w)
    BY <1>6 DEF MergeRefused
  <1> QED
    BY <1>1, <1>2, <1>3, <1>4, <1>5, <1>6 DEF MergeStep

\* Failing, it tells what it found.
LEMMA FailFrames ==
    ASSUME ScanTypes, NEW w \in Workers, FailStep(w)
    PROVE  FailFrame(w) /\ Others(w) /\ pc' \in [Workers -> PCs]
  <1> USE DEF FailFrame, Others, ScanTypes, PCs, Waiting, Decoding, Reserving, Giving, Finishing, Merging, Failing,
          Goes, budget_vars, merge_vars, fail_vars, place_vars, hold_vars
  <1>1. CASE FailFrom(w)
    BY <1>1 DEF FailFrom
  <1>2. CASE StoreFailed(w)
    BY <1>2 DEF StoreFailed
  <1>3. CASE TellFailed(w)
    BY <1>3 DEF TellFailed, Woken
  <1> QED
    BY <1>1, <1>2, <1>3 DEF FailStep
Frames(w) == (TurnFrame(w) \/ DecodeFrame(w) \/ MergeFrame(w) \/ FailFrame(w)) /\ Others(w)

\* Every step is of one part, and leaves the other workers alone.
LEMMA WorkerFrames ==
    ASSUME ScanTypes, NEW w \in Workers, Worker(w)
    PROVE  Frames(w) /\ pc' \in [Workers -> PCs]
  BY WorkerSteps, TurnFrames, DecodeFrames, MergeFrames, FailFrames DEF Frames

\* Where block and cursor change.
LEMMA BlockChange ==
    ASSUME ScanTypes, NEW w \in Workers, Worker(w)
    PROVE  \/ /\ pc[w] = "claim" /\ pc'[w] \in {"turn", "over"}
              /\ cursor' = cursor + 1
              /\ IF cursor > NumBlocks THEN pc'[w] = "over" /\ block' = block
                 ELSE pc'[w] = "turn" /\ block' = [block EXCEPT ![w] = cursor]
           \/ /\ pc[w] = "merge" /\ pc'[w] = "claim"
              /\ cursor' = cursor /\ block' = [block EXCEPT ![w] = 0]
           \/ /\ pc[w] # "claim" /\ pc'[w] # "claim"
              /\ UNCHANGED <<cursor, block>>
  <1> USE DEF ScanTypes, Goes, place_vars, PCs, Waiting, Decoding, Reserving, Giving, Finishing, Merging, Failing
  <1>1. CASE ClaimBlock(w)
    BY <1>1 DEF ClaimBlock
  <1>2. CASE TurnStep(w) /\ ~ ClaimBlock(w)
    BY <1>2 DEF TurnStep, SeeMoved, SeeFailed, SeeNext, SleepForTurn
  <1>3. CASE DecodeStep(w) \/ FailStep(w)
    BY <1>3, DecodeFrames, FailFrames DEF DecodeFrame, FailFrame
  <1>4. CASE NothingReady(w)
    BY <1>4 DEF NothingReady
  <1>5. CASE MergeStep(w) /\ ~ NothingReady(w)
    BY <1>5 DEF MergeStep, StoreDone, Lock, MergeNext, TellMoved, MergeRefused, Woken
  <1> QED
    BY <1>1, <1>2, <1>3, <1>4, <1>5, WorkerSteps

\* Where the merge's state changes.
LEMMA MergeChange ==
    ASSUME ScanTypes, NEW w \in Workers, Worker(w)
    PROVE  \/ /\ pc[w] \notin Finishing /\ pc'[w] \notin Merging
              /\ UNCHANGED <<next, done, lock, n, merged>>
           \/ StoreDone(w) \/ Lock(w) \/ MergeNext(w) \/ TellMoved(w) \/ NothingReady(w) \/ MergeRefused(w)
  <1> USE DEF PCs, Waiting, Decoding, Reserving, Giving, Finishing, Merging, Failing
  <1>1. CASE TurnStep(w) \/ DecodeStep(w) \/ FailStep(w)
    BY <1>1, TurnFrames, DecodeFrames, FailFrames DEF TurnFrame, DecodeFrame, FailFrame
  <1>2. CASE MergeStep(w)
    BY <1>2 DEF MergeStep
  <1> QED
    BY <1>1, <1>2, WorkerSteps

\* A failure once told stays, and so does what was cancelled by it.
LEMMA FailureChange ==
    ASSUME ScanTypes, InPlace, NEW w \in Workers, Worker(w)
    PROVE  /\ failure[w] # None => failure'[w] = failure[w]
           /\ failure[w] = None /\ failure'[w] # None =>
                 TryFirst(w) \/ Decode(w) \/ MergeRefused(w)
  <1>0. Located(w) /\ pc[w] \in PCs
    BY DEF InPlace, ScanTypes
  <1> USE <1>0 DEF Located, PCs, Waiting, Decoding, Reserving, Giving, Finishing, Merging, Failing
  <1>1. CASE TurnStep(w) \/ FailStep(w)
    BY <1>1, TurnFrames, FailFrames DEF TurnFrame, FailFrame
  <1>2. CASE TryFirst(w) \/ Decode(w) \/ MergeRefused(w)
    BY <1>2 DEF TryFirst, Decode, MergeRefused
  <1>3. CASE DecodeStep(w) /\ ~ TryFirst(w) /\ ~ Decode(w)
    BY <1>3 DEF DecodeStep, TakeItem, Enlist, SeeReleased, TryAgain, SleepForRoom, Delist, Give, Bump, Rouse
  <1>4. CASE MergeStep(w) /\ ~ MergeRefused(w)
    BY <1>4 DEF MergeStep, StoreDone, Lock, MergeNext, TellMoved, NothingReady
  <1> QED
    BY <1>1, <1>2, <1>3, <1>4, WorkerSteps

-----------------------------------------------------------------------------
(* Each part of the invariant, kept by each worker's step.                 *)

\* The types, and that failed_from is of a block.
LEMMA TypesKept ==
    ASSUME ScanTypes, Owned, OneMerger, InPlace, NEW w \in Workers, Worker(w)
    PROVE  ScanTypes'
  <1>0. NumBlocks \in Nat \ {0}
    BY Bounds
  <1>1. pc' \in [Workers -> PCs]
    BY WorkerFrames
  <1>2. block' \in [Workers -> 0..NumBlocks] /\ cursor' \in Nat \ {0}
    <2>1. cursor \in Nat \ {0} /\ block \in [Workers -> 0..NumBlocks]
      BY DEF ScanTypes
    <2>2. \/ cursor' \in {cursor, cursor + 1} /\ block' = block
          \/ cursor' = cursor + 1 /\ cursor \in 0..NumBlocks /\ block' = [block EXCEPT ![w] = cursor]
          \/ cursor' = cursor /\ block' = [block EXCEPT ![w] = 0]
      BY <1>0, <2>1, BlockChange
    <2> QED
      BY <1>0, <2>1, <2>2
  <1>3. /\ next' \in 1..NumBlocks + 1 /\ done' \in [Blocks -> BOOLEAN]
        /\ n' \in [Workers -> Int] /\ merged' \in Seq(Int)
    <2> USE DEF ScanTypes, merge_vars
    <2>1. CASE StoreDone(w)
      BY <2>1 DEF StoreDone
    <2>2. CASE Lock(w)
      BY <2>2 DEF Lock
    <2>3. CASE MergeNext(w)
      BY <1>0, <2>3 DEF MergeNext, Ready, OneMerger
    <2>4. CASE TellMoved(w) \/ NothingReady(w) \/ MergeRefused(w)
      BY <2>4 DEF TellMoved, NothingReady, MergeRefused
    <2> QED
      BY <2>1, <2>2, <2>3, <2>4, MergeChange
  <1>4. failed' \in BOOLEAN /\ failedFrom' \in 1..NumBlocks + 1
    <2> USE DEF ScanTypes, fail_vars
    <2>1. CASE FailFrom(w)
      <3>1. pc[w] = "fail" /\ Located(w) /\ block[w] \in 0..NumBlocks
        BY <2>1 DEF FailFrom, InPlace
      <3>2. block[w] \in Blocks
        BY <1>0, <3>1 DEF Located, Failing, Blocks
      <3>3. FailsFrom(w) \in 1..NumBlocks
        <4>1. CASE failure[w] = Unlocated
          BY <1>0, <4>1 DEF FailsFrom
        <4>2. CASE failure[w] # Unlocated
          <5>1. failure[w] \in StartOf(block[w])..Ends[block[w]]
            BY <3>1, <4>2 DEF Located, Failing
          <5>2. BlockOf(failure[w]) = block[w]
            BY <3>2, <5>1, BlockOfItem
          <5> QED
            BY <3>2, <4>2, <5>2 DEF FailsFrom, Blocks
        <4> QED
          BY <4>1, <4>2
      <3>4. failed' = failed /\ failedFrom' \in {FailsFrom(w), failedFrom}
        BY <2>1 DEF FailFrom
      <3> QED
        BY <1>0, <3>3, <3>4
    <2>2. CASE ~ FailFrom(w)
      <3>1. TurnStep(w) \/ DecodeStep(w) \/ MergeStep(w) => UNCHANGED <<failed, failedFrom>>
        BY TurnFrames, DecodeFrames, MergeFrames DEF TurnFrame, DecodeFrame, MergeFrame
      <3> QED
        BY <2>2, <3>1, WorkerSteps DEF FailStep, StoreFailed, TellFailed
    <2> QED
      BY <2>1, <2>2
  <1>5. at' \in [Workers -> Int]
    <2> USE DEF ScanTypes, place_vars
    <2>1. CASE SeeNext(w)
      <3>1. block[w] \in Blocks
        <4>1. block[w] # 0
          BY <2>1 DEF SeeNext, Owned
        <4> QED
          BY <1>0, <4>1 DEF Blocks
      <3> QED
        BY <2>1, <3>1, Bounds DEF SeeNext
    <2>2. CASE TurnStep(w) /\ ~ SeeNext(w)
      BY <2>2 DEF TurnStep, ClaimBlock, SeeMoved, SeeFailed, SleepForTurn
    <2>3. CASE TakeItem(w)
      BY <2>3 DEF TakeItem
    <2>4. CASE Rouse(w)
      BY <2>4 DEF Rouse
    <2>5. CASE DecodeStep(w) /\ ~ TakeItem(w) /\ ~ Rouse(w)
      BY <2>5 DEF DecodeStep, TryFirst, Enlist, SeeReleased, TryAgain, SleepForRoom, Delist, Decode, Give, Bump
    <2> QED
      BY <2>1, <2>2, <2>3, <2>4, <2>5, WorkerSteps, MergeFrames, FailFrames DEF MergeFrame, FailFrame
  <1>6. part' \in [Workers -> Int]
    <2> USE DEF ScanTypes, place_vars
    <2>1. CASE TakeItem(w)
      BY <2>1 DEF TakeItem
    <2>2. CASE Rouse(w)
      BY <2>2 DEF Rouse
    <2>3. CASE DecodeStep(w) /\ ~ TakeItem(w) /\ ~ Rouse(w)
      BY <2>3 DEF DecodeStep, TryFirst, Enlist, SeeReleased, TryAgain, SleepForRoom, Delist, Decode, Give, Bump
    <2> QED
      BY <2>1, <2>2, <2>3, WorkerSteps, TurnFrames, MergeFrames, FailFrames DEF TurnFrame, MergeFrame, FailFrame
  <1>7. failure' \in [Workers -> Int]
    <2> USE DEF ScanTypes, None, Unlocated
    <2>1. CASE TryFirst(w)
      BY <2>1 DEF TryFirst
    <2>2. CASE Decode(w)
      <3>1. failure' \in {[failure EXCEPT ![w] = None], [failure EXCEPT ![w] = at[w]]}
        BY <2>2 DEF Decode
      <3> QED
        BY <3>1
    <2>3. CASE MergeRefused(w)
      BY <2>3 DEF MergeRefused
    <2>4. CASE DecodeStep(w) /\ ~ TryFirst(w) /\ ~ Decode(w)
      BY <2>4 DEF DecodeStep, TakeItem, Enlist, SeeReleased, TryAgain, SleepForRoom, Delist, Give, Bump, Rouse
    <2>5. CASE MergeStep(w) /\ ~ MergeRefused(w)
      BY <2>5 DEF MergeStep, StoreDone, Lock, MergeNext, TellMoved, NothingReady
    <2> QED
      BY <2>1, <2>2, <2>3, <2>4, <2>5, WorkerSteps, TurnFrames, FailFrames DEF TurnFrame, FailFrame
  <1> QED
    BY <1>1, <1>2, <1>3, <1>4, <1>5, <1>6, <1>7 DEF ScanTypes

\* fetchAdd gives each block to one worker.
LEMMA OwnedKept ==
    ASSUME ScanTypes, Owned, NEW w \in Workers, Worker(w)
    PROVE  Owned'
  <1>1. \A v \in Workers \ {w} : pc'[v] = "claim" => pc[v] = "claim"
    BY WorkerFrames DEF Frames, Others
  <1>2. \A v \in Workers \ {w} : pc'[v] \notin {"claim", "over"} => pc[v] \notin {"claim", "over"}
    BY WorkerFrames DEF Frames, Others
  <1>3. \/ cursor' = cursor /\ block' = block
        \/ cursor' = cursor + 1 /\ cursor <= NumBlocks /\ block' = [block EXCEPT ![w] = cursor]
        \/ cursor' = cursor + 1 /\ block' = block
        \/ cursor' = cursor /\ block' = [block EXCEPT ![w] = 0]
    BY BlockChange, Bounds DEF ScanTypes
  <1>4. \A v \in Workers : block'[v] < cursor'
    BY <1>3, Bounds DEF Owned, ScanTypes
  <1>5. \A u, v \in Workers : block'[u] = block'[v] /\ block'[u] # 0 => u = v
    <2>1. block \in [Workers -> 0..NumBlocks]
      BY DEF ScanTypes
    <2>2. CASE block' = block
      BY <2>2 DEF Owned
    <2>3. CASE block' = [block EXCEPT ![w] = 0]
      BY <2>1, <2>3 DEF Owned
    <2>4. CASE block' = [block EXCEPT ![w] = cursor]
      <3>1. \A v \in Workers : block[v] < cursor /\ block[v] \in Int /\ cursor \in Int
        BY <2>1, Bounds DEF Owned, ScanTypes
      <3>2. \A v \in Workers : block[v] # cursor
        BY <3>1
      <3> QED
        BY <2>1, <2>4, <3>2 DEF Owned
    <2> QED
      BY <1>3, <2>2, <2>3, <2>4
  <1>6. /\ pc'[w] = "claim" => block'[w] = 0
        /\ pc'[w] \notin {"claim", "over"} => block'[w] # 0
    <2>1. pc[w] = "over" => FALSE
      BY WorkerFrames DEF Frames, TurnFrame, DecodeFrame, MergeFrame, FailFrame, Waiting, Decoding,
                          Reserving, Giving, Finishing, Merging, Failing
    <2> QED
      BY <2>1, BlockChange, Bounds DEF Owned, ScanTypes
  <1>7. \A v \in Workers \ {w} : block'[v] = block[v]
    BY WorkerFrames DEF Frames, Others
  <1> QED
    BY <1>1, <1>2, <1>4, <1>5, <1>6, <1>7 DEF Owned

\* The lock is one worker's from its load of next to its release.
LEMMA OneMergerKept ==
    ASSUME ScanTypes, OneMerger, NEW w \in Workers, Worker(w)
    PROVE  OneMerger'
  <1>1. \A v \in Workers \ {w} : pc'[v] \in {"merge", "moved"} => pc[v] \in {"merge", "moved"}
    BY WorkerFrames DEF Frames, Others
  <1>0. Nobody \notin Workers
    BY ScanAssumption
  <1> USE <1>0 DEF OneMerger, ScanTypes, Goes, merge_vars
  <1>2. CASE StoreDone(w)
    BY <1>1, <1>2 DEF StoreDone
  <1>3. CASE Lock(w)
    BY <1>1, <1>3 DEF Lock
  <1>4. CASE MergeNext(w)
    BY <1>1, <1>4 DEF MergeNext
  <1>5. CASE TellMoved(w)
    BY <1>1, <1>5 DEF TellMoved
  <1>6. CASE NothingReady(w) \/ MergeRefused(w)
    BY <1>1, <1>6 DEF NothingReady, MergeRefused
  <1> QED
    BY <1>1, <1>2, <1>3, <1>4, <1>5, <1>6, MergeChange DEF Merging, Finishing

\* finish appends next's block.
LEMMA OrderKept ==
    ASSUME ScanTypes, OneMerger, MergedInOrder, NEW w \in Workers, Worker(w)
    PROVE  MergedInOrder'
  <1>1. CASE MergeNext(w)
    <2>1. n[w] = next /\ next \in Int /\ merged \in Seq(Int) /\ Len(merged) = next - 1
      BY <1>1 DEF MergeNext, OneMerger, ScanTypes, MergedInOrder
    <2>2. merged' = Append(merged, next) /\ next' = next + 1
      BY <1>1, <2>1 DEF MergeNext
    <2>3. Len(merged') = next' - 1 /\ merged'[next] = next
      BY <2>1, <2>2
    <2>4. \A i \in 1..next - 1 : merged'[i] = i
      BY <2>1, <2>2 DEF MergedInOrder
    <2> QED
      BY <2>1, <2>2, <2>3, <2>4 DEF MergedInOrder
  <1>2. CASE ~ MergeNext(w)
    <2>1. UNCHANGED <<next, merged>>
      BY <1>2, MergeChange DEF StoreDone, Lock, TellMoved, NothingReady, MergeRefused, merge_vars
    <2> QED
      BY <2>1 DEF MergedInOrder
  <1> QED
    BY <1>1, <1>2

\* A block done is merged by its worker, or by who has the lock before it.
LEMMA DrainedKept ==
    ASSUME ScanTypes, OneMerger, InPlace, Drained, NEW w \in Workers, Worker(w)
    PROVE  Drained'
  <1>1. \A v \in Workers \ {w} :
           pc[v] \in Merging \/ failure[v] = Unlocated => (pc[v] \in Merging \/ failure[v] = Unlocated)'
    BY WorkerFrames DEF Frames, Others, Merging
  <1>2. failure[w] = Unlocated => failure'[w] = Unlocated
    BY FailureChange DEF Unlocated, None
  <1>3. CASE pc[w] \notin Finishing /\ UNCHANGED <<next, done, lock, n, merged>>
    BY <1>1, <1>2, <1>3 DEF Drained, Ready, Finishing
  <1>4. CASE StoreDone(w)
    <2>1. pc'[w] \in Merging
      BY <1>4 DEF StoreDone, Goes, ScanTypes, Merging
    <2> QED
      BY <2>1 DEF Drained
  <1>5. CASE Lock(w) \/ MergeNext(w) \/ TellMoved(w)
    <2>1. pc'[w] \in Merging
      <3>1. CASE Lock(w) \/ MergeNext(w)
        BY <3>1 DEF Lock, MergeNext, Goes, ScanTypes, Merging
      <3>2. CASE TellMoved(w)
        BY <3>2 DEF TellMoved, Woken, Merging
      <3> QED
        BY <1>5, <3>1, <3>2
    <2> QED
      BY <2>1 DEF Drained
  <1>6. CASE NothingReady(w)
    <2>1. ~ Ready(next) /\ UNCHANGED <<next, done>>
      BY <1>6 DEF NothingReady, OneMerger
    <2> QED
      BY <2>1 DEF Drained, Ready
  <1>7. CASE MergeRefused(w)
    <2>1. failure'[w] = Unlocated
      BY <1>7 DEF MergeRefused, ScanTypes
    <2> QED
      BY <2>1 DEF Drained
  <1> QED
    BY <1>3, <1>4, <1>5, <1>6, <1>7, MergeChange

\* The window moves one way.
LEMMA Further ==
    ASSUME NEW a \in Int, NEW x \in Int, NEW y \in Int, NEW k \in Int, y >= x, a < x + k
    PROVE  a < y + k
  OBVIOUS

\* awaitTurn looks at next, which only grows.
LEMMA TurnedKept ==
    ASSUME ScanTypes, Owned, OneMerger, InPlace, Turned, NEW w \in Workers, Worker(w)
    PROVE  Turned'
  <1>0. Ahead \in Nat /\ NumBlocks \in Nat
    BY Bounds
  <1> USE <1>0
  <1>1. next' \in Int /\ next' >= next
    <2>1. CASE MergeNext(w)
      <3>1. next \in Int /\ next' = next + 1
        BY <2>1 DEF MergeNext, OneMerger, ScanTypes
      <3> QED
        BY <3>1
    <2>2. CASE ~ MergeNext(w)
      <3>1. next' = next
        BY <2>2, MergeChange DEF StoreDone, Lock, TellMoved, NothingReady, MergeRefused, merge_vars
      <3> QED
        BY <3>1 DEF ScanTypes
    <2> QED
      BY <2>1, <2>2
  <1>2. ASSUME NEW v \in Workers \ {w}, AtWork(v)' PROVE block'[v] # 0 /\ block'[v] < next' + Ahead
    <2>1. AtWork(v) /\ block'[v] = block[v]
      BY <1>2, WorkerFrames DEF Frames, Others, AtWork, Turning
    <2> QED
      BY <1>1, <2>1 DEF Turned, ScanTypes
  <1>3. ASSUME AtWork(w)' PROVE block'[w] # 0 /\ block'[w] < next' + Ahead
    <2>1. CASE SeeNext(w)
      BY <1>3, <2>1 DEF SeeNext, Near, Goes, AtWork, Turning, merge_vars, Owned, ScanTypes
    <2>2. CASE TurnStep(w) /\ ~ SeeNext(w)
      <3>1. failure'[w] = None
        <4>1. pc[w] \in {"claim"} \cup Waiting /\ failure'[w] = failure[w]
          BY <2>2, TurnFrames DEF TurnFrame
        <4> QED
          BY <4>1 DEF InPlace, Located, Waiting, Giving, Failing
      <3>2. pc'[w] \in {"over"} \cup Waiting
        BY <2>2, TurnFrames DEF TurnStep, ClaimBlock, SeeMoved, SeeFailed, SleepForTurn, Goes, ScanTypes, Waiting
      <3> QED
        BY <1>3, <3>1, <3>2 DEF AtWork, Turning, Waiting
    <2>3. CASE ~ TurnStep(w)
      <3>1. AtWork(w) /\ pc[w] # "claim"
        BY <2>3, WorkerSteps, DecodeFrames, MergeFrames, FailFrames
           DEF DecodeFrame, MergeFrame, FailFrame, AtWork, Turning, Decoding, Reserving, Giving, Finishing, Merging, Failing
      <3>2. block' = block \/ pc'[w] = "claim"
        BY <3>1, BlockChange
      <3> QED
        BY <1>1, <1>3, <3>1, <3>2 DEF Turned, ScanTypes, AtWork, Turning
    <2> QED
      BY <2>1, <2>2, <2>3
  <1>4. ASSUME NEW b \in Blocks, done'[b] PROVE b < next' + Ahead
    <2>1. done[b] \/ (StoreDone(w) /\ b = block[w])
      BY <1>4, MergeChange DEF StoreDone, Lock, MergeNext, TellMoved, NothingReady, MergeRefused, merge_vars, ScanTypes
    <2>2. StoreDone(w) => AtWork(w)
      BY DEF StoreDone, AtWork, Turning
    <2> QED
      <3>1. b \in Int /\ next \in Int /\ next' \in Int /\ Ahead \in Int
        BY <1>1 DEF ScanTypes, Blocks
      <3>2. b < next + Ahead
        BY <2>1, <2>2 DEF Turned, ScanTypes, Blocks
      <3> QED
        BY <1>1, <3>1, <3>2, Further
  <1> QED
    BY <1>2, <1>3, <1>4 DEF Turned

\* A block is done when all its items were good.
LEMMA DoneGoodKept ==
    ASSUME ScanTypes, InPlace, DoneGood, NEW w \in Workers, Worker(w)
    PROVE  DoneGood'
  <1>1. ASSUME NEW b \in Blocks, done'[b] PROVE GoodBefore(b, Ends[b] + 1)
    <2>1. done[b] \/ (StoreDone(w) /\ b = block[w])
      BY <1>1, MergeChange DEF StoreDone, Lock, MergeNext, TellMoved, NothingReady, MergeRefused, merge_vars, ScanTypes
    <2>2. StoreDone(w) => GoodBefore(block[w], Ends[block[w]] + 1)
      BY DEF StoreDone, InPlace, Placed, Finishing
    <2> QED
      BY <2>1, <2>2 DEF DoneGood
  <1> QED
    BY <1>1 DEF DoneGood, GoodBefore, Bad, StartOf

\* failFrom's fetchMin, and failed behind it.
LEMMA ToldKept ==
    ASSUME ScanTypes, ScanTypes', InPlace, InPlace', Told, NEW w \in Workers, Worker(w)
    PROVE  Told'
  <1>1. \A v \in Workers : failure[v] # None => failure'[v] = failure[v] /\ FailsFrom(v)' = FailsFrom(v)
    BY FailureChange, WorkerFrames DEF Frames, Others, FailsFrom, BlockOf
  <1>2. \A v \in Workers \ {w} : pc'[v] = "store failed" => pc[v] = "store failed"
    BY WorkerFrames DEF Frames, Others
  <1>3. CASE FailFrom(w)
    <2>1. pc[w] = "fail" /\ failure[w] # None /\ failure' = failure
      BY <1>3 DEF FailFrom, InPlace, Located, Failing
    <2>2. FailsFrom(w) # Never
      <3>1. CASE failure[w] = Unlocated
        BY <3>1, Bounds DEF FailsFrom, Never
      <3>2. CASE failure[w] # Unlocated
        <4>1. block[w] \in Blocks /\ failure[w] \in StartOf(block[w])..Ends[block[w]]
          BY <2>1, <3>2, Bounds DEF InPlace, Located, ScanTypes, Blocks
        <4> QED
          BY <3>2, <4>1, BlockOfItem, Bounds DEF FailsFrom, Never, Blocks
      <3> QED
        BY <3>1, <3>2
    <2>3. \/ failedFrom' = FailsFrom(w)
          \/ failedFrom' = failedFrom /\ (FailsFrom(w) < failedFrom => FALSE)
      BY <1>3 DEF FailFrom
    <2>4. FailsFrom(w) \in Blocks
      <3>1. CASE failure[w] = Unlocated
        BY <3>1, Bounds DEF FailsFrom, Blocks
      <3>2. CASE failure[w] # Unlocated
        <4>1. block[w] \in Blocks /\ failure[w] \in StartOf(block[w])..Ends[block[w]]
          BY <2>1, <3>2, Bounds DEF InPlace, Located, ScanTypes, Blocks
        <4> QED
          BY <3>2, <4>1, BlockOfItem DEF FailsFrom
      <3> QED
        BY <3>1, <3>2
    <2>5. failedFrom' # Never
      <3>1. CASE failedFrom' = FailsFrom(w)
        BY <2>2, <3>1 DEF Never
      <3>2. CASE failedFrom' = failedFrom /\ ~ (FailsFrom(w) < failedFrom)
        <4>1. PICK b \in Blocks : b = FailsFrom(w)
          BY <2>4
        <4>2. failedFrom \in Nat /\ NumBlocks \in Nat /\ b \in Nat /\ b <= NumBlocks
          BY Bounds DEF ScanTypes, Blocks
        <4>3. failedFrom <= b
          BY <3>2, <4>1, <4>2
        <4> QED
          BY <3>2, <4>2, <4>3 DEF Never
      <3> QED
        BY <2>3, <3>1, <3>2
    <2>6. \E v \in Workers : failure'[v] # None /\ FailsFrom(v)' = failedFrom'
      <3>1. CASE failedFrom' = FailsFrom(w)
        BY <1>1, <2>1, <3>1
      <3>2. CASE failedFrom' = failedFrom
        BY <1>1, <2>5, <3>2 DEF Told
      <3> QED
        BY <2>3, <3>1, <3>2
    <2> QED
      BY <2>5, <2>6 DEF Told
  <1>4. CASE ~ FailFrom(w)
    <2>1. failedFrom' = failedFrom /\ (failed' => failed \/ StoreFailed(w)) /\ pc'[w] # "store failed"
      <3>1. CASE TurnStep(w) \/ DecodeStep(w) \/ MergeStep(w)
        BY <3>1, TurnFrames, DecodeFrames, MergeFrames
           DEF TurnFrame, DecodeFrame, MergeFrame, Waiting, Decoding, Reserving, Giving, Merging
      <3>2. CASE StoreFailed(w) \/ TellFailed(w)
        BY <3>2 DEF StoreFailed, TellFailed, Goes, fail_vars, ScanTypes
      <3> QED
        BY <1>4, <3>1, <3>2, WorkerSteps DEF FailStep
    <2>2. failedFrom # Never => \E v \in Workers : failure'[v] # None /\ FailsFrom(v)' = failedFrom
      BY <1>1 DEF Told
    <2>3. StoreFailed(w) => failedFrom # Never
      BY DEF StoreFailed, Told
    <2>4. Never' = Never
      BY DEF Never
    <2> QED
      BY <1>2, <2>1, <2>2, <2>3, <2>4 DEF Told
  <1> QED
    BY <1>3, <1>4

\* What is cancelled stays so.
LEMMA CancelledStays ==
    ASSUME ScanTypes, ScanTypes', NEW w \in Workers, Worker(w), NEW b \in Blocks
    PROVE  Cancelled(b) => Cancelled(b)'
  <1>1. CASE TurnStep(w) \/ DecodeStep(w) \/ MergeStep(w)
    BY <1>1, TurnFrames, DecodeFrames, MergeFrames DEF TurnFrame, DecodeFrame, MergeFrame, Cancelled
  <1>2. CASE FailFrom(w)
    <2>1. failedFrom \in Int /\ failedFrom' \in Int /\ b \in Int
      BY Bounds DEF ScanTypes, Blocks
    <2>2. failed' = failed
      BY <1>2 DEF FailFrom
    <2>3. failedFrom' = failedFrom \/ (FailsFrom(w) < failedFrom /\ failedFrom' = FailsFrom(w))
      BY <1>2 DEF FailFrom
    <2>4. failedFrom' <= failedFrom
      BY <2>1, <2>3
    <2> QED
      BY <2>1, <2>2, <2>4 DEF Cancelled
  <1>3. CASE StoreFailed(w) \/ TellFailed(w)
    BY <1>3 DEF StoreFailed, TellFailed, fail_vars, Cancelled
  <1> QED
    BY <1>1, <1>2, <1>3, WorkerSteps DEF FailStep

\* Nobody drops a block, but for a failure.
LEMMA AccountedKept ==
    ASSUME ScanTypes, ScanTypes', Owned, OneMerger, InPlace, Accounted, NEW w \in Workers, Worker(w)
    PROVE  Accounted'
  <1>0. NumBlocks \in Nat \ {0}
    BY Bounds
  <1>1. \A v \in Workers : failure[v] # None => failure'[v] # None
    BY FailureChange, WorkerFrames DEF Frames, Others
  <1>2. \A b \in Blocks : done[b] => done'[b]
    BY MergeChange DEF StoreDone, Lock, MergeNext, TellMoved, NothingReady, MergeRefused, merge_vars, ScanTypes
  <1>3. pc'[w] = "over" =>
           cursor' > NumBlocks \/ failure'[w] # None \/ (block'[w] # 0 /\ Cancelled(block[w])')
    <2> SUFFICES ASSUME pc'[w] = "over"
                 PROVE  cursor' > NumBlocks \/ failure'[w] # None \/ (block'[w] # 0 /\ Cancelled(block[w])')
      OBVIOUS
    <2>1. CASE ClaimBlock(w)
      BY <1>0, <2>1 DEF ClaimBlock, Goes, ScanTypes
    <2>2. CASE SeeFailed(w)
      <3>1. pc[w] = "cancelled?" /\ Cancelled(block[w]) /\ UNCHANGED <<failed, failedFrom, block>>
        BY <2>2 DEF SeeFailed, Goes, ScanTypes, fail_vars, place_vars
      <3>2. block[w] # 0
        BY <3>1 DEF Owned
      <3> QED
        BY <3>1, <3>2 DEF Cancelled
    <2>3. CASE SeeMoved(w) \/ SeeNext(w) \/ SleepForTurn(w)
      BY <2>3 DEF SeeMoved, SeeNext, SleepForTurn, Goes, ScanTypes
    <2>4. CASE DecodeStep(w) \/ MergeStep(w)
      BY <2>4, DecodeFrames, MergeFrames DEF DecodeFrame, MergeFrame, Decoding, Reserving, Giving, Merging
    <2>5. CASE FailStep(w)
      BY <1>1, <2>5, FailFrames DEF FailFrame, InPlace, Located
    <2> QED
      BY <2>1, <2>2, <2>3, <2>4, <2>5, WorkerSteps DEF TurnStep
  <1>4. cursor' >= cursor /\ cursor \in Int /\ cursor' \in Int
    <2>1. cursor \in Int
      BY DEF ScanTypes
    <2>2. cursor' = cursor + 1 \/ cursor' = cursor
      BY BlockChange
    <2> QED
      BY <2>1, <2>2
  <1>5. ASSUME NEW v \in Workers, pc'[v] = "over"
        PROVE  cursor' > NumBlocks \/ failure'[v] # None \/ (block'[v] # 0 /\ Cancelled(block[v])')
    <2>1. CASE v = w
      BY <1>3, <1>5, <2>1
    <2>2. CASE v # w
      <3>1. pc[v] = "over" /\ block'[v] = block[v] /\ block[v] \in 0..NumBlocks
        BY <1>5, <2>2, WorkerFrames DEF Frames, Others, ScanTypes
      <3>2. block[v] # 0 => block[v] \in Blocks
        BY <1>0, <3>1 DEF Blocks
      <3>3. cursor > NumBlocks \/ failure[v] # None \/ (block[v] # 0 /\ Cancelled(block[v]))
        BY <3>1 DEF Accounted
      <3>4. cursor > NumBlocks => cursor' > NumBlocks
        BY <1>0, <1>4
      <3>5. block[v] # 0 /\ Cancelled(block[v]) => Cancelled(block[v])'
        BY <3>1, <3>2, CancelledStays DEF Cancelled
      <3> QED
        BY <1>1, <3>1, <3>3, <3>4, <3>5
    <2> QED
      BY <2>1, <2>2
  <1>6. ASSUME NEW v \in Workers, pc'[v] \in Merging PROVE done'[block'[v]]
    <2>1. CASE pc[v] \in Merging /\ block'[v] = block[v]
      <3>1. block[v] \in Blocks
        <4>1. block[v] \in 0..NumBlocks
          BY DEF ScanTypes
        <4>2. block[v] # 0
          BY <2>1 DEF Owned, Merging
        <4> QED
          BY <1>0, <4>1, <4>2 DEF Blocks
      <3> QED
        BY <1>2, <2>1, <3>1 DEF Accounted
    <2>2. CASE v # w
      BY <1>6, <2>1, <2>2, WorkerFrames DEF Frames, Others, Merging
    <2>3. CASE v = w /\ ~ (pc[w] \in Merging /\ block'[w] = block[w])
      <3>1. StoreDone(w)
        BY <1>6, <2>3, MergeChange
           DEF Lock, MergeNext, TellMoved, NothingReady, MergeRefused, Goes, ScanTypes, Merging, place_vars
      <3>2. block[w] \in Blocks
        BY <1>0, <3>1 DEF StoreDone, Owned, ScanTypes, Blocks
      <3> QED
        BY <2>3, <3>1, <3>2 DEF StoreDone, ScanTypes, place_vars
    <2> QED
      BY <2>1, <2>2, <2>3
  <1>7. ASSUME NEW b \in Blocks, b < cursor', ~ done'[b]
        PROVE  \E v \in Workers : block'[v] = b /\ (pc'[v] # "over" \/ failure'[v] # None \/ Cancelled(b)')
    <2>1. CASE b = cursor
      <3>1. pc'[w] = "turn" /\ block' = [block EXCEPT ![w] = cursor]
        <4>1. cursor \in Int /\ cursor <= NumBlocks /\ ~ (cursor > NumBlocks)
          BY <1>0, <2>1 DEF Blocks
        <4>2. cursor' # cursor
          BY <1>4, <1>7, <2>1
        <4> QED
          BY <4>1, <4>2, BlockChange
      <3> QED
        BY <2>1, <3>1 DEF ScanTypes
    <2>2. CASE b # cursor
      <3>1. b < cursor
        BY <1>0, <1>4, <1>7, <2>2, BlockChange DEF Blocks
      <3>2. PICK v \in Workers : block[v] = b /\ (pc[v] # "over" \/ failure[v] # None \/ Cancelled(b))
        BY <1>2, <1>7, <3>1 DEF Accounted
      <3>3. block'[v] = b
        <4>1. CASE v # w
          BY <3>2, <4>1, WorkerFrames DEF Frames, Others
        <4>2. CASE v = w
          <5>1. pc[w] # "claim"
            BY <1>0, <3>2, <4>2 DEF Owned, Blocks
          <5>2. pc[w] # "merge" \/ pc'[w] # "claim"
            BY <1>2, <1>7, <3>2, <4>2 DEF Accounted, Merging
          <5> QED
            BY <3>2, <4>2, <5>1, <5>2, BlockChange
        <4> QED
          BY <4>1, <4>2
      <3>4. pc'[v] # "over" \/ failure'[v] # None \/ Cancelled(b)'
        <4>1. CASE failure[v] # None \/ Cancelled(b)
          BY <1>1, <4>1, CancelledStays
        <4>2. CASE v # w /\ pc[v] # "over"
          BY <4>2, WorkerFrames DEF Frames, Others
        <4>3. CASE v = w /\ pc[w] # "over" /\ pc'[w] = "over"
          <5>1. \/ cursor > NumBlocks /\ pc[w] = "claim"
                \/ failure'[w] # None \/ Cancelled(block[w])'
            <6>1. CASE ClaimBlock(w)
              BY <1>0, <4>3, <6>1 DEF ClaimBlock, Goes, ScanTypes
            <6>2. CASE SeeFailed(w)
              <7>1. Cancelled(block[w]) /\ UNCHANGED <<failed, failedFrom, block>>
                BY <4>3, <6>2 DEF SeeFailed, Goes, ScanTypes, fail_vars, place_vars
              <7> QED
                BY <7>1 DEF Cancelled
            <6>3. CASE SeeMoved(w) \/ SeeNext(w) \/ SleepForTurn(w)
              BY <4>3, <6>3 DEF SeeMoved, SeeNext, SleepForTurn, Goes, ScanTypes
            <6>4. CASE DecodeStep(w) \/ MergeStep(w)
              BY <4>3, <6>4, DecodeFrames, MergeFrames DEF DecodeFrame, MergeFrame, Decoding, Reserving, Giving, Merging
            <6>5. CASE FailStep(w)
              BY <1>1, <6>5, FailFrames DEF FailFrame, InPlace, Located
            <6> QED
              BY <6>1, <6>2, <6>3, <6>4, <6>5, WorkerSteps DEF TurnStep
          <5>2. pc[w] # "claim"
            BY <1>0, <3>2, <4>3 DEF Owned, Blocks
          <5>3. Cancelled(block[w])' => Cancelled(b)'
            BY <3>3, <4>3 DEF Cancelled
          <5> QED
            BY <5>1, <5>2, <5>3, <4>3
        <4> QED
          BY <3>2, <4>1, <4>2, <4>3
      <3> QED
        BY <3>3, <3>4
    <2> QED
      BY <2>1, <2>2
  <1>8. Blocks' = Blocks
    BY DEF Blocks
  <1> QED
    BY <1>5, <1>6, <1>7 DEF Accounted, Merging, Blocks

\* The other workers stay where they were.
LEMMA OthersInPlace ==
    ASSUME ScanTypes, InPlace, NEW w \in Workers, Worker(w), NEW v \in Workers \ {w}
    PROVE  Placed(v)' /\ Located(v)'
  <1>1. /\ \/ pc'[v] = pc[v]
           \/ pc[v] = "asleep" /\ pc'[v] = "turn"
           \/ pc[v] = "dozing" /\ pc'[v] = "look"
        /\ block'[v] = block[v] /\ at'[v] = at[v] /\ part'[v] = part[v] /\ failure'[v] = failure[v]
    BY WorkerFrames DEF Frames, Others
  <1>2. Placed(v) /\ Located(v)
    BY DEF InPlace
  <1>3. CASE pc'[v] = pc[v]
    BY <1>1, <1>2, <1>3 DEF Placed, Located, AtWork, LastPart, Tried, GoodBefore
  <1>4. CASE pc[v] = "asleep" /\ pc'[v] = "turn"
    BY <1>1, <1>2, <1>4
       DEF Placed, Located, AtWork, Turning, Decoding, Reserving, Giving, Finishing, Merging, Failing
  <1>5. CASE pc[v] = "dozing" /\ pc'[v] = "look"
    BY <1>1, <1>2, <1>5
       DEF Placed, Located, AtWork, Turning, Decoding, Reserving, Giving, Finishing, Merging, Failing, Tried, GoodBefore
  <1> QED
    BY <1>1, <1>3, <1>4, <1>5

\* A worker starts where its block does.
LEMMA TurnInPlace ==
    ASSUME ScanTypes, ScanTypes', Owned, InPlace, NEW w \in Workers, TurnStep(w)
    PROVE  Placed(w)' /\ Located(w)'
  <1> USE DEF Waiting, Decoding, Reserving, Giving, Finishing, Merging, Failing, Turning
  <1>1. failure'[w] = None
    <2>1. pc[w] \in {"claim"} \cup Waiting /\ failure'[w] = failure[w]
      BY TurnFrames DEF TurnFrame
    <2> QED
      BY <2>1 DEF InPlace, Located
  <1>2. Located(w)'
    <2>1. pc'[w] \in {"item", "over"} \cup Waiting
      BY TurnFrames DEF TurnFrame
    <2> QED
      BY <1>1, <2>1 DEF Located
  <1>3. CASE pc'[w] = "item"
    <2>1. SeeNext(w)
      BY <1>3 DEF TurnStep, ClaimBlock, SeeMoved, SeeFailed, SleepForTurn, Goes, ScanTypes
    <2>2. at'[w] = StartOf(block[w]) /\ block'[w] = block[w]
      BY <1>3, <2>1 DEF SeeNext, Goes, ScanTypes
    <2>3. block[w] \in Blocks
      <3>1. block[w] # 0 /\ block[w] \in 0..NumBlocks
        BY <2>1 DEF SeeNext, Owned, ScanTypes
      <3> QED
        BY <3>1, Bounds DEF Blocks
    <2>4. StartOf(block[w]) \in Int /\ StartOf(block[w]) <= Ends[block[w]] + 1
      BY <2>3, Bounds
    <2>5. GoodBefore(block[w], StartOf(block[w]))
      BY <2>4 DEF GoodBefore
    <2> QED
      BY <1>2, <1>3, <2>2, <2>4, <2>5 DEF Placed, GoodBefore
  <1>4. CASE pc'[w] # "item"
    <2>1. pc'[w] \in {"over"} \cup Waiting
      BY <1>4, TurnFrames DEF TurnFrame
    <2> QED
      BY <1>1, <1>2, <2>1 DEF Placed, AtWork
  <1> QED
    BY <1>3, <1>4

\* finish fails only for the merge.
LEMMA MergeInPlace ==
    ASSUME ScanTypes, ScanTypes', Owned, InPlace, NEW w \in Workers, MergeStep(w)
    PROVE  Placed(w)' /\ Located(w)'
  <1> USE DEF Waiting, Decoding, Reserving, Giving, Finishing, Merging, Failing, Turning
  <1>1. pc[w] \in Finishing /\ failure[w] = None /\ block[w] # 0 /\ GoodBefore(block[w], Ends[block[w]] + 1)
    BY MergeFrames DEF MergeFrame, InPlace, Located, Placed, Owned
  <1>2. CASE StoreDone(w) \/ Lock(w) \/ MergeNext(w) \/ TellMoved(w)
    <2>1. pc'[w] \in Merging /\ failure'[w] = failure[w] /\ block'[w] = block[w]
      <3>1. CASE StoreDone(w)
        BY <3>1 DEF StoreDone, Goes, ScanTypes, place_vars
      <3>2. CASE Lock(w) \/ MergeNext(w)
        BY <3>2 DEF Lock, MergeNext, Goes, ScanTypes, place_vars
      <3>3. CASE TellMoved(w)
        BY <3>3 DEF TellMoved, Woken, ScanTypes, place_vars
      <3> QED
        BY <1>2, <3>1, <3>2, <3>3
    <2> QED
      BY <1>1, <2>1 DEF Placed, Located, GoodBefore
  <1>3. CASE NothingReady(w)
    <2>1. pc'[w] = "claim" /\ failure'[w] = None
      BY <1>1, <1>3 DEF NothingReady, Goes, ScanTypes
    <2> QED
      BY <2>1 DEF Placed, Located, AtWork
  <1>4. CASE MergeRefused(w)
    <2>1. pc'[w] = "fail" /\ failure'[w] = Unlocated /\ block'[w] = block[w]
      BY <1>4 DEF MergeRefused, Goes, ScanTypes, place_vars
    <2> QED
      BY <1>1, <2>1 DEF Placed, Located, None, Unlocated
  <1> QED
    BY <1>2, <1>3, <1>4 DEF MergeStep

\* A failure told is the one found.
LEMMA FailInPlace ==
    ASSUME ScanTypes, ScanTypes', InPlace, NEW w \in Workers, FailStep(w)
    PROVE  Placed(w)' /\ Located(w)'
  <1> USE DEF Waiting, Decoding, Reserving, Giving, Finishing, Merging, Failing, Turning
  <1>1. /\ pc[w] \in Failing /\ pc'[w] \in Failing \cup {"over"}
        /\ block'[w] = block[w] /\ at'[w] = at[w] /\ failure'[w] = failure[w]
    BY FailFrames DEF FailFrame
  <1>2. failure[w] # None /\ block[w] # 0
    BY <1>1 DEF InPlace, Located
  <1>3. Placed(w) /\ Located(w)
    BY DEF InPlace
  <1>4. Placed(w)'
    BY <1>1, <1>2, <1>3 DEF Placed, AtWork, GoodBefore
  <1>5. Located(w)'
    BY <1>1, <1>2, <1>3 DEF Located
  <1> QED
    BY <1>4, <1>5

Decodes(w) == pc[w] \in Decoding

\* Decoding, a worker is at an item of its block, and all before it were good.
LEMMA AtItem ==
    ASSUME ScanTypes, Owned, InPlace, NEW w \in Workers, pc[w] = "item" \/ Decodes(w)
    PROVE  /\ block[w] \in Blocks
           /\ at[w] \in Int /\ StartOf(block[w]) <= at[w] /\ GoodBefore(block[w], at[w])
           /\ Decodes(w) => at[w] \in 1..Len(Items) /\ at[w] \in StartOf(block[w])..Ends[block[w]]
  <1>1. /\ block[w] # 0 /\ failure[w] # Unlocated
        /\ StartOf(block[w]) <= at[w] /\ GoodBefore(block[w], at[w])
        /\ Decodes(w) => at[w] <= Ends[block[w]]
    <2> USE DEF Decodes, Decoding, Reserving, Giving, Finishing, Merging, Failing, Turning
    <2>1. Placed(w) /\ Located(w) /\ block[w] # 0
      BY DEF InPlace, Owned
    <2>2. failure[w] # Unlocated
      BY <2>1, NoneIsNot DEF Located
    <2> QED
      BY <2>1, <2>2 DEF Placed, AtWork
  <1> DEFINE D == Decodes(w)
  <1>2. block[w] \in 0..NumBlocks /\ at[w] \in Int
    BY DEF ScanTypes
  <1>3. D => at[w] <= Ends[block[w]]
    BY <1>1
  <1> HIDE DEF D
  <1>4. block[w] \in Blocks
    BY ONLY <1>1, <1>2, Sizes DEF Blocks
  <1>5. StartOf(block[w]) \in Nat \ {0} /\ Ends[block[w]] \in Nat /\ Ends[block[w]] <= Len(Items)
    BY <1>4, Bounds
  <1>6. D => at[w] \in 1..Len(Items) /\ at[w] \in StartOf(block[w])..Ends[block[w]]
    BY ONLY <1>1, <1>2, <1>3, <1>5, Sizes
  <1> QED
    BY <1>1, <1>2, <1>4, <1>6 DEF D

\* An item more.
LEMMA GoodOneMore ==
    ASSUME NEW b \in Blocks, NEW i \in Int, GoodBefore(b, i), i \notin Bad
    PROVE  GoodBefore(b, i + 1)
  BY Bounds DEF GoodBefore

\* A worker passes an item once each try at it has fitted and its decode was good.
LEMMA DecodeInPlace ==
    ASSUME ScanTypes, ScanTypes', Owned, InPlace, NEW w \in Workers, DecodeStep(w)
    PROVE  Placed(w)' /\ Located(w)'
  <1> USE DEF Decoding, Reserving, Giving, Finishing, Merging, Failing, Turning
  <1>1. /\ pc[w] \in {"item"} \cup Decoding /\ pc'[w] \in {"item", "done", "fail"} \cup Decoding
        /\ block'[w] = block[w]
    BY DecodeFrames DEF DecodeFrame
  <1>2. Placed(w) /\ Located(w)
    BY DEF InPlace
  <1>3. /\ block[w] \in Blocks /\ block[w] # 0
        /\ at[w] \in Int /\ StartOf(block[w]) <= at[w] /\ GoodBefore(block[w], at[w])
    <2>1. pc[w] = "item" \/ Decodes(w)
      BY <1>1 DEF Decodes
    <2>2. \A b \in Blocks : b # 0
      BY ONLY Sizes DEF Blocks
    <2> QED
      BY <2>1, <2>2, AtItem
  <1>10. Decodes(w) => at[w] \in 1..Len(Items) /\ at[w] \in StartOf(block[w])..Ends[block[w]]
    BY AtItem
  <1>4. CASE Enlist(w) \/ SeeReleased(w) \/ TryAgain(w) \/ SleepForRoom(w) \/ Delist(w)
    <2>1. /\ pc[w] \in Decoding \ ({"try"} \cup Giving) /\ pc'[w] \in Decoding \ ({"try"} \cup Giving)
          /\ at'[w] = at[w] /\ part'[w] = part[w] /\ failure'[w] = failure[w]
      BY <1>4 DEF Enlist, SeeReleased, TryAgain, Try, SleepForRoom, Delist, Goes, ScanTypes, place_vars
    <2> QED
      BY <1>1, <1>2, <1>3, <2>1 DEF Placed, Located, AtWork, Tried, GoodBefore
  <1>5. CASE Give(w) \/ Bump(w)
    <2>1. /\ pc[w] \in Giving /\ pc'[w] \in Giving
          /\ at'[w] = at[w] /\ part'[w] = part[w] /\ failure'[w] = failure[w]
      BY <1>5 DEF Give, Bump, Goes, ScanTypes, place_vars
    <2> QED
      BY <1>1, <1>2, <1>3, <2>1 DEF Placed, Located, AtWork, Tried, GoodBefore, LastPart
  <1>6. CASE TakeItem(w)
    <2>1. pc[w] = "item" /\ failure[w] = None /\ failure'[w] = failure[w] /\ at[w] <= Ends[block[w]] + 1
      BY <1>2, <1>6 DEF TakeItem, Placed, Located
    <2>2. CASE at[w] > Ends[block[w]]
      <3>1. pc'[w] = "done"
        BY <1>6, <2>2 DEF TakeItem, Goes, ScanTypes
      <3>2. at[w] = Ends[block[w]] + 1
        BY <1>3, <2>1, <2>2, Bounds
      <3> QED
        BY <1>1, <1>3, <2>1, <3>1, <3>2 DEF Placed, Located, GoodBefore
    <2>3. CASE ~ (at[w] > Ends[block[w]])
      <3>1. at[w] \in 1..Len(Items) /\ at[w] \in StartOf(block[w])..Ends[block[w]]
        <4>1. /\ StartOf(block[w]) \in Nat \ {0}
              /\ Ends[block[w]] \in Nat /\ Ends[block[w]] <= Len(Items) /\ Len(Items) \in Nat
          BY <1>3, Bounds, Sizes
        <4> QED
          BY <1>3, <2>3, <4>1
      <3>2. CASE Items[at[w]].needs = <<>>
        <4>1. pc'[w] = "item" /\ at'[w] = at[w] + 1
          BY <1>6, <2>1, <2>3, <3>2 DEF TakeItem, ScanTypes
        <4>2. at[w] \notin Bad
          BY <3>1, <3>2, ItemTypes DEF Bad
        <4>3. GoodBefore(block[w], at[w] + 1)
          BY <1>3, <4>2, GoodOneMore
        <4>4. at[w] + 1 <= Ends[block[w]] + 1 /\ StartOf(block[w]) <= at[w] + 1
          <5>1. StartOf(block[w]) \in Nat /\ Ends[block[w]] \in Nat
            BY <1>3, Bounds
          <5> QED
            BY <1>3, <3>1, <5>1
        <4> QED
          BY <1>1, <2>1, <4>1, <4>3, <4>4 DEF Placed, Located, GoodBefore
      <3>3. CASE Items[at[w]].needs # <<>>
        <4>1. pc'[w] = "try" /\ at'[w] = at[w] /\ part'[w] = 1
          BY <1>6, <2>3, <3>3 DEF TakeItem, Goes, ScanTypes
        <4>2. 1 \in 1..Len(Items[at[w]].needs)
          BY <3>1, <3>3, ItemTypes
        <4>3. at[w] <= Ends[block[w]]
          BY <3>1
        <4> QED
          BY <1>1, <1>3, <2>1, <4>1, <4>2, <4>3 DEF Placed, Located, Tried, GoodBefore
      <3> QED
        BY <3>2, <3>3
    <2> QED
      BY <2>2, <2>3
  <1>7. CASE TryFirst(w)
    <2>1. /\ pc[w] = "try" /\ failure[w] = None
          /\ at'[w] = at[w] /\ part'[w] = part[w]
      BY <1>2, <1>7 DEF TryFirst, Located, place_vars
    <2>2. CASE Need(w) > Limit
      <3>1. pc'[w] = "fail" /\ failure'[w] = at[w]
        BY <1>7, <2>2 DEF TryFirst, Goes, ScanTypes
      <3>2. at[w] # None /\ at[w] # Unlocated /\ at[w] \in StartOf(block[w])..Ends[block[w]]
        BY <1>10, <2>1 DEF None, Unlocated, Decodes
      <3> QED
        BY <1>1, <1>3, <2>1, <3>1, <3>2 DEF Placed, Located, GoodBefore
    <2>3. CASE ~ (Need(w) > Limit)
      <3>1. pc'[w] \in {"decode", "enlist"} /\ failure'[w] = None
        BY <1>7, <2>1, <2>3 DEF TryFirst, Try, Goes, ScanTypes
      <3>2. /\ at[w] <= Ends[block[w]] /\ part[w] \in 1..Len(Items[at[w]].needs)
            /\ \A p \in 1..part[w] - 1 : Items[at[w]].needs[p] <= Limit
        BY <1>2, <2>1 DEF Placed, Tried
      <3>3. Items[at[w]].needs[part[w]] <= Limit
        <4>1. Items[at[w]].needs[part[w]] \in Nat
          BY <1>10, <2>1, <3>2, ItemTypes DEF Decodes
        <4> QED
          BY <2>3, <4>1, Bounds DEF Need
      <3>4. \A p \in 1..part[w] : Items[at[w]].needs[p] <= Limit
        BY <1>10, <2>1, <3>2, <3>3, ItemTypes DEF Decodes
      <3> QED
        BY <1>1, <1>3, <2>1, <3>1, <3>2, <3>4 DEF Placed, Located, Tried, GoodBefore
    <2> QED
      BY <2>2, <2>3
  <1>8. CASE Decode(w)
    <2>1. /\ pc[w] = "decode" /\ pc'[w] = "give" /\ at'[w] = at[w] /\ part'[w] = part[w]
          /\ failure'[w] \in {None, at[w]}
          /\ failure'[w] = None => (LastPart(w) => ~ Items[at[w]].bad)
      <3>1. pc[w] = "decode" /\ pc'[w] = "give" /\ at'[w] = at[w] /\ part'[w] = part[w]
        BY <1>8 DEF Decode, Goes, ScanTypes, place_vars
      <3>2. \/ failure'[w] = at[w]
            \/ failure'[w] = None /\ ~ (LastPart(w) /\ Items[at[w]].bad)
        BY <1>8 DEF Decode, ScanTypes
      <3>3. at[w] # None
        BY <1>10, <3>1 DEF None, Decodes
      <3> QED
        BY <3>1, <3>2, <3>3
    <2>2. at[w] # None /\ at[w] # Unlocated /\ at[w] \in StartOf(block[w])..Ends[block[w]]
      BY <1>10, <2>1 DEF None, Unlocated, Decodes
    <2>3. None # Unlocated
      BY NoneIsNot
    <2>4. /\ at[w] <= Ends[block[w]] /\ part[w] \in 1..Len(Items[at[w]].needs)
          /\ \A p \in 1..part[w] : Items[at[w]].needs[p] <= Limit
      BY <1>2, <2>1 DEF Placed, Tried
    <2>5. Placed(w)'
      BY <1>1, <1>3, <2>1, <2>4 DEF Placed, Tried, LastPart, GoodBefore
    <2>6. Located(w)'
      BY <1>1, <1>3, <2>1, <2>2, <2>3 DEF Located
    <2> QED
      BY <2>5, <2>6
  <1>9. CASE Rouse(w)
    <2>1. /\ pc[w] = "rouse" /\ failure'[w] = failure[w]
          /\ at[w] <= Ends[block[w]] /\ part[w] \in 1..Len(Items[at[w]].needs)
          /\ \A p \in 1..part[w] : Items[at[w]].needs[p] <= Limit
          /\ failure[w] = None /\ LastPart(w) => ~ Items[at[w]].bad
      BY <1>2, <1>9 DEF Rouse, Placed, Tried
    <2>2. CASE held[w] > 0
      <3>1. pc'[w] = "give" /\ at'[w] = at[w] /\ part'[w] = part[w]
        BY <1>9, <2>2 DEF Rouse, Woken, ScanTypes
      <3> QED
        BY <1>1, <1>2, <1>3, <2>1, <3>1 DEF Placed, Located, Tried, LastPart, GoodBefore
    <2>3. CASE ~ (held[w] > 0) /\ failure[w] # None
      <3>1. pc'[w] = "fail" /\ at'[w] = at[w] /\ part'[w] = part[w]
        BY <1>9, <2>3 DEF Rouse, Woken, ScanTypes
      <3> QED
        BY <1>1, <1>2, <1>3, <2>1, <2>3, <3>1 DEF Placed, Located, GoodBefore
    <2>4. CASE ~ (held[w] > 0) /\ failure[w] = None /\ LastPart(w)
      <3>1. pc'[w] = "item" /\ at'[w] = at[w] + 1 /\ part'[w] = part[w]
        BY <1>9, <2>4 DEF Rouse, Woken, ScanTypes
      <3>2. at[w] \notin Bad
        <4>1. at[w] \in 1..Len(Items)
          BY <1>10, <2>1 DEF Decodes
        <4>2. \A p \in 1..Len(Items[at[w]].needs) : Items[at[w]].needs[p] \in Nat /\ Items[at[w]].needs[p] <= Limit
          BY <2>1, <2>4, <4>1, ItemTypes DEF LastPart
        <4> QED
          BY <2>1, <2>4, <4>1, <4>2, Bounds DEF Bad
      <3>3. GoodBefore(block[w], at[w] + 1)
        BY <1>3, <3>2, GoodOneMore
      <3>4. at[w] + 1 <= Ends[block[w]] + 1 /\ StartOf(block[w]) <= at[w] + 1
        BY <1>3, <2>1, Bounds
      <3> QED
        BY <1>1, <2>1, <2>4, <3>1, <3>3, <3>4 DEF Placed, Located, GoodBefore
    <2>5. CASE ~ (held[w] > 0) /\ failure[w] = None /\ ~ LastPart(w)
      <3>1. pc'[w] = "try" /\ at'[w] = at[w] /\ part'[w] = part[w] + 1
        BY <1>9, <2>5 DEF Rouse, Woken, ScanTypes
      <3>2. Len(Items[at[w]].needs) \in Nat
        BY <1>10, <2>1, ItemTypes DEF Decodes
      <3>3. part[w] + 1 \in 1..Len(Items[at[w]].needs) /\ (part[w] + 1) - 1 = part[w]
        BY <2>1, <2>5, <3>2 DEF LastPart
      <3> QED
        BY <1>1, <1>3, <2>1, <2>5, <3>1, <3>3 DEF Placed, Located, Tried, GoodBefore
    <2> QED
      BY <2>2, <2>3, <2>4, <2>5
  <1> QED
    BY <1>4, <1>5, <1>6, <1>7, <1>8, <1>9 DEF DecodeStep

\* Every worker is where the invariant has it.
LEMMA InPlaceKept ==
    ASSUME ScanTypes, ScanTypes', Owned, InPlace, NEW w \in Workers, Worker(w)
    PROVE  InPlace'
  <1>1. Placed(w)' /\ Located(w)'
    BY WorkerSteps, TurnInPlace, DecodeInPlace, MergeInPlace, FailInPlace
  <1>2. \A v \in Workers \ {w} : Placed(v)' /\ Located(v)'
    BY OthersInPlace
  <1> QED
    BY <1>1, <1>2 DEF InPlace

-----------------------------------------------------------------------------
(* The invariant, and what follows.                                        *)

\* It holds before the first claim.
LEMMA InitInv ==
    ASSUME Init
    PROVE  ScanInv
  <1>1. ScanTypes
    <2>1. next \in 1..NumBlocks + 1 /\ failedFrom \in 1..NumBlocks + 1
      BY Sizes DEF Init, Never
    <2>2. block \in [Workers -> 0..NumBlocks] /\ at \in [Workers -> Int] /\ part \in [Workers -> Int]
      BY Sizes DEF Init
    <2>3. n \in [Workers -> Int] /\ merged \in Seq(Int) /\ cursor \in Nat \ {0}
      BY DEF Init
    <2>4. failure \in [Workers -> Int]
      <3>1. None \in Int
        BY DEF None
      <3> QED
        BY <3>1 DEF Init
    <2>6. done \in [Blocks -> BOOLEAN] /\ failed \in BOOLEAN
      BY DEF Init
    <2>5. pc \in [Workers -> PCs]
      BY DEF Init, PCs
    <2> QED
      BY <2>1, <2>2, <2>3, <2>4, <2>5, <2>6 DEF ScanTypes
  <1>2. Owned /\ OneMerger
    BY DEF Init, Owned, OneMerger
  <1>3. MergedInOrder
    BY DEF Init, MergedInOrder
  <1>4. Drained /\ DoneGood
    BY Sizes DEF Init, Drained, DoneGood, Ready, Blocks
  <1>5. Turned
    BY DEF Init, Turned, AtWork, Turning
  <1>6. InPlace
    <2> SUFFICES ASSUME NEW w \in Workers PROVE Placed(w) /\ Located(w)
      BY DEF InPlace
    <2>1. pc[w] = "claim" /\ failure[w] = None
      BY DEF Init
    <2> QED
      BY <2>1, NoneIsNot
         DEF Placed, Located, AtWork, Turning, Decoding, Reserving, Giving, Finishing, Merging, Failing
  <1>7. Told
    BY DEF Init, Told
  <1>8. Accounted
    <2>1. \A b \in Blocks : ~ (b < cursor)
      BY Sizes DEF Init, Blocks
    <2>2. \A w \in Workers : pc[w] = "claim"
      BY DEF Init
    <2> QED
      BY <2>1, <2>2 DEF Accounted, Merging
  <1> QED
    BY <1>1, <1>2, <1>3, <1>4, <1>5, <1>6, <1>7, <1>8 DEF ScanInv

\* Every step of a worker keeps it, and so does the end.
LEMMA StepInv ==
    ASSUME ScanInv, [Next]_vars
    PROVE  ScanInv'
  <1> USE DEF ScanInv
  <1>1. ASSUME NEW w \in Workers, Worker(w) PROVE ScanInv'
    <2>1. ScanTypes'
      BY <1>1, TypesKept
    <2>2. Owned' /\ OneMerger' /\ MergedInOrder'
      BY <1>1, OwnedKept, OneMergerKept, OrderKept
    <2>3. Drained' /\ Turned' /\ DoneGood'
      BY <1>1, DrainedKept, TurnedKept, DoneGoodKept
    <2>4. InPlace'
      BY <1>1, <2>1, InPlaceKept
    <2>5. Told' /\ Accounted'
      BY <1>1, <2>1, <2>4, ToldKept, AccountedKept
    <2> QED
      BY <2>1, <2>2, <2>3, <2>4, <2>5
  <1>2. CASE UNCHANGED vars
    <2> USE <1>2 DEF vars, merge_vars, fail_vars, place_vars
    <2>1. ScanTypes' /\ Owned' /\ OneMerger'
      BY DEF ScanTypes, Owned, OneMerger
    <2>2. MergedInOrder' /\ Drained' /\ DoneGood'
      BY DEF MergedInOrder, Drained, DoneGood, Ready, GoodBefore
    <2>3. Turned'
      BY DEF Turned, AtWork
    <2>4. InPlace'
      BY DEF InPlace, Placed, Located, AtWork, Tried, LastPart, GoodBefore
    <2>5. Told' /\ Accounted'
      BY DEF Told, Accounted, FailsFrom, BlockOf, Cancelled
    <2> QED
      BY <2>1, <2>2, <2>3, <2>4, <2>5
  <1> QED
    BY <1>1, <1>2 DEF Next, Joined

\* The invariant of the whole scan: of block_merge.zig's locks and words, of what the
\* workers have claimed, and of what each has found good or failed at (worker.zig).
THEOREM KeepsScanInv == Spec => []ScanInv
  BY InitInv, StepInv, PTL DEF Spec

\* However the workers race, tables merge in block order and each once
\* (BlockMerge.finish).
THEOREM MergesInOrder == Spec => []MergedInOrder
  <1>1. ScanInv => MergedInOrder
    BY DEF ScanInv
  <1> QED
    BY <1>1, KeepsScanInv, PTL

\* At most Ahead blocks are started and not merged (BlockMerge.awaitTurn).
THEOREM KeepsFewTables == Spec => []FewTables
  <1>1. ScanInv => FewTables
    BY DEF ScanInv, Turned, FewTables, Started
  <1> QED
    BY <1>1, KeepsScanInv, PTL

\* A worker that is over after its failure: it failed at the first bad item of its
\* block, or before, or in a merge.
LEMMA FailsAtFirst ==
    ASSUME ScanInv, AllOver, NEW w \in Workers, failure[w] # None, NEW i \in Bad,
           i \in StartOf(block[w])..Ends[block[w]]
    PROVE  failure[w] <= i
  <1>1. block[w] \in Blocks
    <2>1. block[w] \in 0..NumBlocks /\ block[w] # 0
      BY DEF ScanInv, ScanTypes, InPlace, Located
    <2> QED
      BY <2>1, Sizes DEF Blocks
  <1>2. i \in Int /\ i >= 1
    BY <1>1, Bounds DEF Bad
  <1>3. CASE failure[w] = Unlocated
    BY <1>2, <1>3 DEF Unlocated
  <1>4. CASE failure[w] # Unlocated
    <2>1. failure[w] = at[w]
      BY <1>4 DEF ScanInv, InPlace, Located
    <2>2. GoodBefore(block[w], at[w])
      BY <1>4 DEF ScanInv, InPlace, Placed, AllOver, AtWork, Turning, Finishing, Merging
    <2>3. at[w] \in Int /\ StartOf(block[w]) \in Int
      BY <1>1, Bounds DEF ScanInv, ScanTypes
    <2>4. ~ (i \in StartOf(block[w])..at[w] - 1)
      BY <2>2 DEF GoodBefore
    <2> QED
      BY <1>2, <2>1, <2>3, <2>4
  <1> QED
    BY <1>3, <1>4

\* A failure in an earlier block is of an earlier item.
LEMMA FailsEarlier ==
    ASSUME ScanInv, AllOver, NEW w \in Workers, failure[w] # None, NEW b \in Blocks, block[w] < b,
           NEW i \in Bad, i \in StartOf(b)..Ends[b]
    PROVE  failure[w] <= i
  <1>1. block[w] \in Blocks
    <2>1. block[w] \in 0..NumBlocks /\ block[w] # 0
      BY DEF ScanInv, ScanTypes, InPlace, Located
    <2> QED
      BY <2>1, Sizes DEF Blocks
  <1>2. Ends[block[w]] \in Int /\ StartOf(b) \in Nat \ {0} /\ Ends[block[w]] < StartOf(b)
    BY <1>1, Bounds
  <1>3. CASE failure[w] = Unlocated
    BY <1>2, <1>3 DEF Unlocated
  <1>4. CASE failure[w] # Unlocated
    <2>1. failure[w] \in StartOf(block[w])..Ends[block[w]]
      BY <1>4 DEF ScanInv, InPlace, Located
    <2>2. StartOf(block[w]) \in Int
      BY <1>1, Bounds
    <2> QED
      BY <1>2, <2>1, <2>2
  <1> QED
    BY <1>3, <1>4

\* Cancelled for a failure: it was told of a block no later.
LEMMA CancelledByEarlier ==
    ASSUME ScanInv, AllOver, NEW b \in Blocks, Cancelled(b), NEW i \in Bad, i \in StartOf(b)..Ends[b]
    PROVE  \E f \in Failures : f <= i
  <1>1. failedFrom # Never /\ failedFrom <= b
    BY DEF ScanInv, Told, Cancelled
  <1>2. PICK u \in Workers : failure[u] # None /\ FailsFrom(u) = failedFrom
    BY <1>1 DEF ScanInv, Told
  <1>3. failure[u] <= i
    <2>1. CASE failure[u] = Unlocated
      BY <2>1, Bounds DEF Unlocated
    <2>2. CASE failure[u] # Unlocated
      <3>1. block[u] \in Blocks
        <4>1. block[u] \in 0..NumBlocks /\ block[u] # 0
          BY <1>2 DEF ScanInv, ScanTypes, InPlace, Located
        <4> QED
          BY <4>1, Sizes DEF Blocks
      <3>2. failure[u] \in StartOf(block[u])..Ends[block[u]]
        BY <1>2, <2>2 DEF ScanInv, InPlace, Located
      <3>3. failedFrom = block[u]
        BY <1>2, <2>2, <3>1, <3>2, BlockOfItem DEF FailsFrom
      <3>4. block[u] < b \/ block[u] = b
        BY <1>1, <3>1, <3>3, Sizes DEF Blocks
      <3> QED
        BY <1>2, <3>4, FailsAtFirst, FailsEarlier
    <2> QED
      BY <2>1, <2>2
  <1> QED
    BY <1>2, <1>3 DEF Failures

\* When the workers are over, a bad item's block is not done: its worker failed, or one
\* before it did.
LEMMA TellsOfItem ==
    ASSUME ScanInv, AllOver, NEW i \in Bad
    PROVE  \E f \in Failures : f <= i
  <1>1. PICK b \in Blocks : i \in StartOf(b)..Ends[b]
    BY ScanAssumption DEF Bad
  <1>2. ~ done[b]
    <2>1. ~ GoodBefore(b, Ends[b] + 1)
      BY <1>1, Bounds DEF GoodBefore
    <2> QED
      BY <2>1 DEF ScanInv, DoneGood
  <1>3. CASE b < cursor
    <2>1. PICK w \in Workers : block[w] = b /\ (failure[w] # None \/ Cancelled(b))
      BY <1>2, <1>3 DEF ScanInv, Accounted, AllOver
    <2>2. CASE failure[w] # None
      BY <1>1, <2>1, <2>2, FailsAtFirst DEF Failures
    <2>3. CASE Cancelled(b)
      BY <1>1, <2>3, CancelledByEarlier
    <2> QED
      BY <2>1, <2>2, <2>3
  <1>4. CASE ~ (b < cursor)
    <2>1. PICK w \in Workers : TRUE
      BY ScanAssumption
    <2>2. ~ (cursor > NumBlocks)
      BY <1>4, Sizes DEF ScanInv, ScanTypes, Blocks
    <2>3. failure[w] # None \/ (block[w] # 0 /\ Cancelled(block[w]))
      BY <2>2 DEF ScanInv, Accounted, AllOver
    <2>4. block[w] < b
      BY <1>4, Sizes DEF ScanInv, ScanTypes, Owned, Blocks
    <2>5. CASE failure[w] # None
      BY <1>1, <2>4, <2>5, FailsEarlier DEF Failures
    <2>6. CASE block[w] # 0 /\ Cancelled(block[w])
      <3>1. Cancelled(b)
        BY <2>4, <2>6, Sizes DEF Cancelled, ScanInv, ScanTypes, Blocks
      <3> QED
        BY <1>1, <3>1, CancelledByEarlier
    <2> QED
      BY <2>3, <2>5, <2>6
  <1> QED
    BY <1>3, <1>4

\* Without a failure, every block was done, and merged.
LEMMA AnswersFromAll ==
    ASSUME ScanInv, AllOver, Failures = {}
    PROVE  next = NumBlocks + 1
  <1>1. \A w \in Workers : failure[w] = None
    BY DEF Failures
  <1>2. \A b \in Blocks : ~ Cancelled(b)
    BY <1>1 DEF ScanInv, Told, Cancelled
  <1>3. cursor > NumBlocks
    <2>1. PICK w \in Workers : TRUE
      BY ScanAssumption
    <2>2. block[w] # 0 => block[w] \in Blocks
      BY Sizes DEF ScanInv, ScanTypes, Blocks
    <2> QED
      BY <1>1, <1>2, <2>1, <2>2 DEF ScanInv, Accounted, AllOver
  <1>4. ASSUME NEW b \in Blocks PROVE done[b]
    <2>1. b < cursor
      BY <1>3, Sizes DEF ScanInv, ScanTypes, Blocks
    <2> QED
      BY <1>1, <1>2, <2>1 DEF ScanInv, Accounted, AllOver
  <1>5. ~ Ready(next)
    BY <1>1, NoneIsNot DEF ScanInv, Drained, AllOver, Merging
  <1>6. CASE next <= NumBlocks
    <2>1. next \in Blocks
      BY <1>6, Sizes DEF ScanInv, ScanTypes, Blocks
    <2> QED
      BY <1>4, <1>5, <1>6, <2>1 DEF Ready
  <1> QED
    BY <1>6, Sizes DEF ScanInv, ScanTypes

\* No later failure hides an earlier one, and no failed scan answers as if it were
\* whole (workerRun's failFrom).
THEOREM TellsFirstFailure == Spec => []FirstFailureTold
  <1>1. ScanInv => FirstFailureTold
    BY TellsOfItem, AnswersFromAll DEF FirstFailureTold
  <1> QED
    BY <1>1, KeepsScanInv, PTL

-----------------------------------------------------------------------------
(* The decode budget.  SumMoves takes the sum over one worker's change.    *)

Takes == [w \in Workers |-> held[w] + scratch[w]]

\* A worker holds a reservation from its try to its release, and scratch from the
\* decode to the release before that.
Holding(w) ==
    /\ held[w] # 0 => pc[w] \in {"delist", "decode"} \cup Giving
    /\ scratch[w] # 0 => pc[w] = "give"

BudgetTypes == used \in Int /\ held \in [Workers -> Nat] /\ scratch \in [Workers -> Nat]

DecodeInv == BudgetTypes /\ DecodeKept /\ \A w \in Workers : Holding(w)

\* What one worker takes or gives moves the sum by as much.
LEMMA OneTakes ==
    ASSUME DecodeInv, NEW w \in Workers,
           held' \in [Workers -> Nat], scratch' \in [Workers -> Nat],
           \A v \in Workers \ {w} : held'[v] = held[v] /\ scratch'[v] = scratch[v]
    PROVE  SumOver(Takes', Workers) = used + (held'[w] + scratch'[w]) - (held[w] + scratch[w])
  <1> DEFINE f == Takes  g == [v \in Workers |-> held'[v] + scratch'[v]]
  <1>1. \A v \in Workers : held[v] \in Nat /\ scratch[v] \in Nat /\ held'[v] \in Nat /\ scratch'[v] \in Nat
    BY DEF DecodeInv, BudgetTypes
  <1>2. \A v \in Workers : f[v] = held[v] + scratch[v] /\ g[v] = held'[v] + scratch'[v]
    BY DEF Takes
  <1>3. \A v \in Workers : f[v] \in Int /\ g[v] \in Int
    BY <1>1, <1>2
  <1>4. \A v \in Workers \ {w} : f[v] = g[v]
    BY <1>2
  <1>5. IsFiniteSet(Workers)
    BY ScanAssumption
  <1>6. used = SumOver(f, Workers) /\ used \in Int
    BY DEF DecodeInv, BudgetTypes, DecodeKept, Takes, SumOver
  <1>7. Takes' = g
    BY DEF Takes
  <1>8. f[w] \in Int /\ g[w] \in Int /\ f[w] = held[w] + scratch[w] /\ g[w] = held'[w] + scratch'[w]
    BY <1>2, <1>3
  <1> HIDE DEF f, g
  <1>9. SumOver(g, Workers) = SumOver(f, Workers) - f[w] + g[w]
    BY <1>3, <1>4, <1>5, SumMoves
  <1>10. held[w] \in Nat /\ scratch[w] \in Nat /\ held'[w] \in Nat /\ scratch'[w] \in Nat
    BY <1>1
  <1> QED
    BY <1>6, <1>7, <1>8, <1>9, <1>10

\* It is enough that the budget moves by what the worker takes or gives.
LEMMA BudgetMoves ==
    ASSUME ScanTypes, DecodeInv, NEW w \in Workers, Others(w),
           held' \in [Workers -> Nat], scratch' \in [Workers -> Nat],
           \A v \in Workers \ {w} : held'[v] = held[v] /\ scratch'[v] = scratch[v],
           Holding(w)',
           used' = used + (held'[w] + scratch'[w]) - (held[w] + scratch[w]), used' <= Limit
    PROVE  DecodeInv'
  <1>1. DecodeKept'
    BY OneTakes DEF DecodeKept, Takes, SumOver
  <1>2. BudgetTypes'
    BY DEF DecodeInv, BudgetTypes
  <1>3. ASSUME NEW v \in Workers PROVE Holding(v)'
    <2>1. CASE v = w
      BY <2>1
    <2>2. CASE v # w
      <3>1. Holding(v) /\ held'[v] = held[v] /\ scratch'[v] = scratch[v]
        BY <2>2 DEF DecodeInv
      <3>2. pc'[v] = pc[v] \/ pc[v] = "asleep" \/ pc[v] = "dozing"
        BY <2>2 DEF Others
      <3> QED
        BY <3>1, <3>2 DEF Holding, Giving
    <2> QED
      BY <2>1, <2>2
  <1> QED
    BY <1>1, <1>2, <1>3 DEF DecodeInv

\* A step that takes and gives nothing.
LEMMA BudgetStays ==
    ASSUME ScanTypes, DecodeInv, NEW w \in Workers, Others(w),
           UNCHANGED <<used, held, scratch>>, Holding(w)'
    PROVE  DecodeInv'
  <1>1. ASSUME NEW v \in Workers PROVE Holding(v)'
    <2>1. CASE v = w
      BY <2>1
    <2>2. CASE v # w
      <3>1. Holding(v) /\ (pc'[v] = pc[v] \/ pc[v] = "asleep" \/ pc[v] = "dozing")
        BY <2>2 DEF DecodeInv, Others
      <3> QED
        BY <3>1 DEF Holding, Giving
    <2> QED
      BY <2>1, <2>2
  <1> QED
    BY <1>1 DEF DecodeInv, BudgetTypes, DecodeKept

\* What an item's try needs is a number of bytes, and so is its scratch.
LEMMA NeedTypes ==
    ASSUME ScanTypes, Owned, InPlace, NEW w \in Workers, pc[w] \in Decoding
    PROVE  Need(w) \in Nat /\ Items[at[w]].scratch \in Nat /\ Limit \in Nat
  <1>1. at[w] \in 1..Len(Items) /\ part[w] \in 1..Len(Items[at[w]].needs)
    BY AtItem DEF Decodes, InPlace, Placed
  <1> DEFINE R == [needs : Seq(Nat \ {0}), scratch : Nat, bad : BOOLEAN]
  <1>2. Items \in Seq(R)
    BY ScanAssumption
  <1> HIDE DEF R
  <1>3. Items[at[w]] \in R
    BY <1>1, <1>2
  <1>4. Items[at[w]].scratch \in Nat
    BY <1>3 DEF R
  <1> QED
    BY <1>1, <1>4, ItemTypes, Bounds DEF Need

\* A try takes what it needs, if that fits.
LEMMA TryKeeps ==
    ASSUME ScanInv, DecodeInv, NEW w \in Workers, Worker(w), TryFirst(w) \/ TryAgain(w)
    PROVE  DecodeInv'
  <1>1. Others(w) /\ ScanTypes
    BY DecodeFrames DEF ScanInv, DecodeStep
  <1>2. pc[w] \in {"try", "try again"} /\ Need(w) \in Nat /\ Limit \in Nat
    BY NeedTypes DEF TryFirst, TryAgain, ScanInv, Decoding, Reserving
  <1>3. held[w] = 0 /\ scratch[w] = 0 /\ UNCHANGED scratch
    BY <1>2 DEF DecodeInv, Holding, Giving, TryFirst, TryAgain, hold_vars
  <1>4. held \in [Workers -> Nat] /\ scratch \in [Workers -> Nat] /\ used \in Int
    BY DEF DecodeInv, BudgetTypes
  <1>5. CASE UNCHANGED <<used, held>>
    BY <1>1, <1>3, <1>5, BudgetStays DEF DecodeInv, Holding
  <1>6. CASE /\ Fits(Need(w)) /\ used' = used + Need(w) /\ held' = [held EXCEPT ![w] = Need(w)]
             /\ pc'[w] \in {"decode", "delist"}
    <2>1. Holding(w)'
      BY <1>2, <1>3, <1>4, <1>6 DEF Holding
    <2>2. held' \in [Workers -> Nat] /\ held'[w] = Need(w) /\ \A v \in Workers \ {w} : held'[v] = held[v]
      BY <1>2, <1>4, <1>6
    <2>3. used' = used + (held'[w] + scratch'[w]) - (held[w] + scratch[w]) /\ used' <= Limit
      <3>1. scratch'[w] = 0 /\ held'[w] = Need(w) /\ held[w] = 0 /\ scratch[w] = 0
        BY <1>3, <2>2
      <3>2. PICK need \in Nat : need = Need(w)
        BY <1>2
      <3> QED
        BY <1>4, <1>6, <3>1, <3>2 DEF Fits
    <2> QED
      BY <1>1, <1>3, <1>4, <2>1, <2>2, <2>3, BudgetMoves
  <1> QED
    BY <1>1, <1>5, <1>6 DEF TryFirst, TryAgain, Try, Goes, ScanTypes

\* A decode takes its scratch, if that fits.
LEMMA DecodeKeeps ==
    ASSUME ScanInv, DecodeInv, NEW w \in Workers, Decode(w)
    PROVE  DecodeInv'
  <1>1. Others(w) /\ ScanTypes
    BY DecodeFrames DEF ScanInv, DecodeStep
  <1> DEFINE more == Items[at[w]].scratch
  <1>2. pc[w] = "decode" /\ more \in Nat /\ Limit \in Nat
    BY NeedTypes DEF Decode, ScanInv, Decoding
  <1>3. scratch[w] = 0 /\ UNCHANGED held /\ pc'[w] = "give"
    BY <1>1, <1>2 DEF DecodeInv, Holding, Decode, Goes, ScanTypes
  <1>4. held \in [Workers -> Nat] /\ scratch \in [Workers -> Nat] /\ used \in Int
    BY DEF DecodeInv, BudgetTypes
  <1>5. Holding(w)'
    BY <1>3 DEF Holding, Giving
  <1>6. CASE UNCHANGED <<used, scratch>>
    BY <1>1, <1>3, <1>5, <1>6, BudgetStays
  <1>7. CASE Fits(more) /\ used' = used + more /\ scratch' = [scratch EXCEPT ![w] = more]
    <2>1. scratch' \in [Workers -> Nat] /\ scratch'[w] = more /\ \A v \in Workers \ {w} : scratch'[v] = scratch[v]
      BY <1>2, <1>4, <1>7
    <2>2. held[w] \in Nat
      BY <1>4
    <2>3. used' = used + (held'[w] + scratch'[w]) - (held[w] + scratch[w]) /\ used' <= Limit
      BY <1>2, <1>3, <1>4, <1>7, <2>1, <2>2 DEF Fits
    <2> QED
      BY <1>1, <1>3, <1>4, <1>5, <2>1, <2>3, BudgetMoves
  <1> QED
    BY <1>6, <1>7 DEF Decode

\* A release gives back the scratch, or else the reservation.
LEMMA GiveKeeps ==
    ASSUME ScanInv, DecodeInv, NEW w \in Workers, Give(w)
    PROVE  DecodeInv'
  <1>1. Others(w) /\ ScanTypes
    BY DecodeFrames DEF ScanInv, DecodeStep
  <1>2. pc[w] = "give" /\ pc'[w] = "bump" /\ Limit \in Nat
    BY <1>1, Bounds DEF Give, Goes, ScanTypes
  <1>3. held \in [Workers -> Nat] /\ scratch \in [Workers -> Nat] /\ used \in Int
    BY DEF DecodeInv, BudgetTypes
  <1>4. held[w] \in Nat /\ scratch[w] \in Nat /\ used <= Limit
    BY <1>3 DEF DecodeInv, DecodeKept
  <1>5. CASE scratch[w] > 0
    <2>1. used' = used - scratch[w] /\ scratch' = [scratch EXCEPT ![w] = 0] /\ UNCHANGED held
      BY <1>5 DEF Give
    <2>2. scratch' \in [Workers -> Nat] /\ scratch'[w] = 0 /\ \A v \in Workers \ {w} : scratch'[v] = scratch[v]
      BY <1>3, <2>1
    <2>3. used' = used + (held'[w] + scratch'[w]) - (held[w] + scratch[w]) /\ used' <= Limit
      BY <1>2, <1>3, <1>4, <2>1, <2>2
    <2>4. Holding(w)'
      BY <1>2, <2>2 DEF Holding, Giving
    <2> QED
      BY <1>1, <1>3, <2>1, <2>2, <2>3, <2>4, BudgetMoves
  <1>6. CASE ~ (scratch[w] > 0)
    <2>1. used' = used - held[w] /\ held' = [held EXCEPT ![w] = 0] /\ UNCHANGED scratch
      BY <1>6 DEF Give
    <2>2. held' \in [Workers -> Nat] /\ held'[w] = 0 /\ \A v \in Workers \ {w} : held'[v] = held[v]
      BY <1>3, <2>1
    <2>3. used' = used + (held'[w] + scratch'[w]) - (held[w] + scratch[w]) /\ used' <= Limit /\ scratch'[w] = 0
      BY <1>2, <1>3, <1>4, <1>6, <2>1, <2>2
    <2>4. Holding(w)'
      BY <1>2, <2>2, <2>3 DEF Holding, Giving
    <2> QED
      BY <1>1, <1>3, <2>1, <2>2, <2>3, <2>4, BudgetMoves
  <1> QED
    BY <1>5, <1>6

\* The rest of a worker's steps take and give nothing.
LEMMA IdleKeeps ==
    ASSUME ScanInv, DecodeInv, NEW w \in Workers, Worker(w),
           ~ TryFirst(w), ~ TryAgain(w), ~ Decode(w), ~ Give(w)
    PROVE  DecodeInv'
  <1> USE DEF Waiting, Decoding, Reserving, Giving, Finishing, Merging, Failing
  <1>1. ScanTypes /\ Holding(w)
    BY DEF ScanInv, DecodeInv
  <1>2. CASE TurnStep(w)
    <2>1. TurnFrame(w) /\ Others(w) /\ UNCHANGED hold_vars /\ UNCHANGED used
      BY <1>1, <1>2, TurnFrames
         DEF TurnStep, ClaimBlock, SeeMoved, SeeFailed, SeeNext, SleepForTurn, budget_vars
    <2>2. Holding(w)'
      BY <1>1, <2>1 DEF TurnFrame, Holding, hold_vars
    <2> QED
      BY <1>1, <2>1, <2>2, BudgetStays DEF hold_vars
  <1>3. CASE MergeStep(w)
    <2>1. MergeFrame(w) /\ Others(w) /\ UNCHANGED hold_vars /\ UNCHANGED used
      BY <1>1, <1>3, MergeFrames
         DEF MergeStep, StoreDone, Lock, MergeNext, TellMoved, NothingReady, MergeRefused, budget_vars, ScanInv
    <2>2. Holding(w)'
      BY <1>1, <2>1 DEF MergeFrame, Holding, hold_vars
    <2> QED
      BY <1>1, <2>1, <2>2, BudgetStays DEF hold_vars
  <1>4. CASE FailStep(w)
    <2>1. FailFrame(w) /\ Others(w) /\ UNCHANGED hold_vars /\ UNCHANGED used
      BY <1>1, <1>4, FailFrames DEF FailStep, FailFrom, StoreFailed, TellFailed, budget_vars
    <2>2. Holding(w)'
      BY <1>1, <2>1 DEF FailFrame, Holding, hold_vars
    <2> QED
      BY <1>1, <2>1, <2>2, BudgetStays DEF hold_vars
  <1>5. CASE DecodeStep(w)
    <2>1. /\ TakeItem(w) \/ Enlist(w) \/ SeeReleased(w) \/ SleepForRoom(w) \/ Delist(w) \/ Bump(w) \/ Rouse(w)
          /\ Others(w)
      BY <1>1, <1>5, DecodeFrames DEF DecodeStep
    <2>2. UNCHANGED hold_vars /\ UNCHANGED used
      BY <2>1 DEF TakeItem, Enlist, SeeReleased, SleepForRoom, Delist, Bump, Rouse, budget_vars
    <2>3. Holding(w)'
      <3>1. CASE TakeItem(w) \/ Enlist(w) \/ SeeReleased(w) \/ SleepForRoom(w)
        BY <1>1, <2>2, <3>1 DEF TakeItem, Enlist, SeeReleased, SleepForRoom, Holding, hold_vars, Goes, ScanTypes
      <3>2. CASE Delist(w) \/ Bump(w)
        BY <1>1, <2>2, <3>2 DEF Delist, Bump, Holding, hold_vars, Goes, ScanTypes
      <3>3. CASE Rouse(w)
        <4>1. pc[w] = "rouse" /\ held[w] \in Nat
          BY <3>3 DEF Rouse, DecodeInv, BudgetTypes
        <4>2. held[w] > 0 => pc'[w] = "give"
          BY <1>1, <3>3 DEF Rouse, ScanTypes, Woken
        <4> QED
          BY <1>1, <2>2, <4>1, <4>2 DEF Holding, hold_vars
      <3> QED
        BY <2>1, <3>1, <3>2, <3>3
    <2> QED
      BY <1>1, <2>1, <2>2, <2>3, BudgetStays DEF hold_vars
  <1> QED
    BY <1>2, <1>3, <1>4, <1>5, WorkerSteps

\* The decode budget is what the workers hold, and within its limit, however many
\* workers try, wait, retry in slices and fail (budget.zig:8-12).
THEOREM KeepsDecodeBudget == Spec => []DecodeKept
  <1>1. Init => DecodeInv
    <2> SUFFICES ASSUME Init PROVE DecodeInv
      OBVIOUS
    <2>1. BudgetTypes /\ \A w \in Workers : Holding(w)
      BY DEF Init, BudgetTypes, Holding
    <2>2. Takes = [w \in Workers |-> 0]
      BY DEF Init, Takes
    <2>3. SumOver(Takes, Workers) = 0
      BY <2>2, ScanAssumption, SumZero
    <2> QED
      BY <2>1, <2>3, Bounds DEF DecodeInv, DecodeKept, Takes, SumOver, Init
  <1>2. ScanInv /\ DecodeInv /\ [Next]_vars => DecodeInv'
    <2> SUFFICES ASSUME ScanInv, DecodeInv, [Next]_vars PROVE DecodeInv'
      OBVIOUS
    <2>1. ASSUME NEW w \in Workers, Worker(w) PROVE DecodeInv'
      BY <2>1, TryKeeps, DecodeKeeps, GiveKeeps, IdleKeeps
    <2>2. CASE UNCHANGED vars
      BY <2>2 DEF vars, budget_vars, hold_vars, DecodeInv, BudgetTypes, DecodeKept, Holding
    <2> QED
      BY <2>1, <2>2 DEF Next, Joined
  <1>3. DecodeInv => DecodeKept
    BY DEF DecodeInv
  <1> QED
    BY <1>1, <1>2, <1>3, KeepsScanInv, PTL DEF Spec
=============================================================================
