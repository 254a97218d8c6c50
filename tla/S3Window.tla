------------------------------ MODULE S3Window ------------------------------
(***************************************************************************)
(* io/s3_window.zig: one fetcher thread admits row groups to a byte window *)
(* in the order the scan claims them, a batch at a time, and fetches each  *)
(* batch with many requests at once (s3.fetchJobs).  Unlike LocalReader's, *)
(* the scan may be done with a row group before its bytes are in: a print  *)
(* of the first rows passes over one that cannot beat the rows it has      *)
(* (rank.zig, cutsOff), at any moment of that row group's fetch.  Such a   *)
(* row group is dropped, and whoever finds it dropped gives it back.       *)
(*                                                                         *)
(* Row groups carry their place in the window's order as their name.  Each *)
(* action is one access to memory another thread may access, or several    *)
(* that no other thread can tell apart.  An operator named D_X is a mutant *)
(* of the D defined after it.                                              *)
(***************************************************************************)
EXTENDS Integers, Sequences, FiniteSets, Functions

CONSTANTS
    NumRG,          \* row groups in the window's order
    Jobs,           \* Jobs[g]: the requests that fill row group g
    Copied,         \* the row groups with bytes copied from the footer suffix
    Bytes,          \* Bytes[g]: its window charge
    Limit, Batch,   \* window.limit and window.batch
    SlowStart,      \* window.slow_start
    Workers,        \* the scan's threads (one, for a print)
    Items,          \* work items per row group
    Cuttable,       \* the row groups the scan may pass over unread
    CanFail,        \* whether a request may fail
    CanQuit         \* whether the scan may end early

RowGroups == 1..NumRG

ASSUME WindowAssumption ==
    /\ NumRG \in Nat
    /\ Jobs \in [RowGroups -> Nat]
    /\ Copied \subseteq RowGroups
    /\ Bytes \in [RowGroups -> Nat \ {0}]

ASSUME ParameterAssumption ==
    /\ Limit \in Nat
    /\ Batch \in Nat \ {0}
    /\ SlowStart \in BOOLEAN
    /\ Items \in Nat \ {0}
    /\ Cuttable \subseteq RowGroups
    /\ CanFail \in BOOLEAN
    /\ CanQuit \in BOOLEAN

\* Every row group in the window has bytes to fetch or to copy.
ASSUME PartsAssumption == \A g \in RowGroups : g \in Copied \/ Jobs[g] > 0

ASSUME ThreadAssumption == IsFiniteSet(Workers)

JobsOf(g) == {g} \X (1..Jobs[g])
Parts(g) == JobsOf(g) \cup (IF g \in Copied THEN {<<g, 0>>} ELSE {})

VARIABLES
    state,          \* per row group: waiting, ready, failed or dropped
    items_done,
    admitted,       \* the row groups with rg.admitted set
    submitted, released,
    cancel,
    fpc, next, first, bytes, cap,   \* the fetcher's thread (runErr)
    at,             \* its place in the batch, or in fail's loop
    batch,          \* the row groups whose jobs it dispatched together
    flying,         \* requests under way
    lost,           \* whether a request of the batch failed
    lpc,            \* per row group: the thread its last request landed on
    resident,       \* parts written and not given back
    cursor, wpc, wrg, werr,         \* the scan's threads
    stopped,        \* Fetcher.stop has returned
    returns         \* history: how often each row group was released

fetcher_vars == <<fpc, next, first, bytes, cap, at, batch>>
request_vars == <<flying, lost, lpc>>
worker_vars == <<cursor, wpc, wrg, werr>>
account_vars == <<admitted, submitted, released, returns>>
vars == <<state, items_done, account_vars, cancel, fetcher_vars, request_vars,
          resident, worker_vars, stopped>>

Init ==
    /\ state = [g \in RowGroups |-> "waiting"]
    /\ items_done = [g \in RowGroups |-> 0]
    /\ admitted = {}
    /\ submitted = 0
    /\ released = 0
    /\ cancel = FALSE
    /\ fpc = "top"
    /\ next = 1
    /\ first = 1
    /\ bytes = 0
    /\ cap = IF SlowStart THEN 0 ELSE Batch
    /\ at = 1
    /\ batch = {}
    /\ flying = {}
    /\ lost = FALSE
    /\ lpc = [g \in RowGroups |-> "idle"]
    /\ resident = {}
    /\ cursor = 0
    /\ wpc = [w \in Workers |-> "claim"]
    /\ wrg = [w \in Workers |-> 1]
    /\ werr = [w \in Workers |-> FALSE]
    /\ stopped = FALSE
    /\ returns = [g \in RowGroups |-> 0]

-----------------------------------------------------------------------------
(* Window.release, in the two steps another thread can tell apart: the     *)
(* pages first, then the charge.                                           *)

DropPages(g) == resident' = resident \ Parts(g)

GiveCharge(g) ==
    /\ released' = released + Bytes[g]
    /\ returns' = [returns EXCEPT ![g] = @ + 1]
    /\ UNCHANGED <<admitted, submitted>>

-----------------------------------------------------------------------------
(* The fetcher's thread: run, runErr, fail.                                *)

FTop ==
    /\ fpc = "top"
    /\ IF next > NumRG \/ cancel
       THEN fpc' = "exit" /\ UNCHANGED <<first, bytes>>
       ELSE fpc' = "look" /\ first' = next /\ bytes' = 0
    /\ UNCHANGED <<state, items_done, account_vars, cancel, next, cap, at, batch,
                   request_vars, resident, worker_vars, stopped>>

\* A row group dropped by now is passed over: it is never admitted.
FLook ==
    /\ fpc = "look"
    /\ IF next > NumRG
       THEN fpc' = "sized" /\ UNCHANGED next
       ELSE IF state[next] = "dropped"
       THEN next' = next + 1 /\ UNCHANGED fpc
       ELSE fpc' = "admit" /\ UNCHANGED next
    /\ UNCHANGED <<state, items_done, account_vars, cancel, first, bytes, cap, at, batch,
                   request_vars, resident, worker_vars, stopped>>

Out == IF submitted < released THEN 0 ELSE submitted - released

Fits_BeforeCharge(g) == Out <= Limit /\ (bytes = 0 \/ bytes + Bytes[g] <= cap)
Fits_NeverBigger(g) == Out + Bytes[g] <= Limit /\ (bytes = 0 \/ bytes + Bytes[g] <= cap)
Fits(g) ==
    /\ Out = 0 \/ Out + Bytes[g] <= Limit
    /\ bytes = 0 \/ bytes + Bytes[g] <= cap

FAdmit ==
    /\ fpc = "admit"
    /\ IF Fits(next)
       THEN /\ submitted' = submitted + Bytes[next]
            /\ admitted' = admitted \cup {next}
            /\ bytes' = bytes + Bytes[next]
            /\ next' = next + 1
            /\ fpc' = "look"
       ELSE fpc' = "sized" /\ UNCHANGED <<submitted, admitted, bytes, next>>
    /\ UNCHANGED <<state, items_done, released, returns, cancel, first, cap, at, batch,
                   request_vars, resident, worker_vars, stopped>>

Least(a, b) == IF a < b THEN a ELSE b
Most(a, b) == IF a < b THEN b ELSE a

Doubled == Least(Batch, 2 * Most(cap, bytes))

\* With nothing admitted it starts over, after waitRelease's millisecond at most
\* when it had nothing to pass over either.
FSized ==
    /\ fpc = "sized"
    /\ IF bytes = 0
       THEN fpc' = "top" /\ UNCHANGED <<cap, at, batch>>
       ELSE /\ cap' = Doubled
            /\ at' = first
            /\ batch' = {}
            /\ fpc' = "collect"
    /\ UNCHANGED <<state, items_done, account_vars, cancel, next, first, bytes,
                   request_vars, resident, worker_vars, stopped>>

\* A dropped row group without requests, if this batch charged it.
Owed_Skipped(g) == Jobs[g] = 0
Owed(g) == g \in admitted /\ Jobs[g] = 0

\* The batch's jobs are collected row group by row group.
FCollect ==
    /\ fpc = "collect"
    /\ IF at = next
       THEN fpc' = "dispatch" /\ UNCHANGED <<at, batch, resident>>
       ELSE IF state[at] = "dropped"
       THEN /\ UNCHANGED <<batch, resident>>
            /\ IF Owed(at)
               THEN fpc' = "drop" /\ UNCHANGED at
               ELSE at' = at + 1 /\ UNCHANGED fpc
       ELSE /\ resident' = resident \cup (Parts(at) \ JobsOf(at))
            /\ IF Jobs[at] = 0
               THEN fpc' = "ready" /\ UNCHANGED <<at, batch>>
               ELSE batch' = batch \cup {at} /\ at' = at + 1 /\ UNCHANGED fpc
    /\ UNCHANGED <<state, items_done, account_vars, cancel, next, first, bytes, cap,
                   request_vars, worker_vars, stopped>>

\* A row group copied whole is ready, unless the scan dropped it meanwhile.
FReady ==
    /\ fpc = "ready"
    /\ IF state[at] = "waiting"
       THEN /\ state' = [state EXCEPT ![at] = "ready"]
            /\ at' = at + 1
            /\ fpc' = "collect"
       ELSE fpc' = "drop" /\ UNCHANGED <<state, at>>
    /\ UNCHANGED <<items_done, account_vars, cancel, next, first, bytes, cap, batch,
                   request_vars, resident, worker_vars, stopped>>

FDrop ==
    /\ fpc = "drop"
    /\ DropPages(at)
    /\ fpc' = "give"
    /\ UNCHANGED <<state, items_done, account_vars, cancel, next, first, bytes, cap, at, batch,
                   request_vars, worker_vars, stopped>>

FGive ==
    /\ fpc = "give"
    /\ GiveCharge(at)
    /\ at' = at + 1
    /\ fpc' = "collect"
    /\ UNCHANGED <<state, items_done, cancel, next, first, bytes, cap, batch,
                   request_vars, resident, worker_vars, stopped>>

\* fetchJobs starts every request, or fails before it starts any.
FDispatch ==
    /\ fpc = "dispatch"
    /\ \/ fpc' = "await" /\ flying' = UNION {JobsOf(g) : g \in batch}
       \/ CanFail /\ batch # {} /\ fpc' = "fail" /\ UNCHANGED flying
    /\ UNCHANGED <<state, items_done, account_vars, cancel, next, first, bytes, cap, at, batch,
                   lost, lpc, resident, worker_vars, stopped>>

\* It returns once every request has ended, one way or the other; a batch all
\* fetched may still not be Parquet.
FAwait ==
    /\ fpc = "await"
    /\ flying = {}
    /\ \A g \in RowGroups : lpc[g] = "idle"
    /\ \/ ~lost /\ fpc' = "top"
       \/ (lost \/ CanFail) /\ batch # {} /\ fpc' = "fail"
    /\ UNCHANGED <<state, items_done, account_vars, cancel, next, first, bytes, cap, at, batch,
                   request_vars, resident, worker_vars, stopped>>

FFail ==
    /\ fpc = "fail"
    /\ cancel' = TRUE
    /\ at' = 1
    /\ fpc' = "failing"
    /\ UNCHANGED <<state, items_done, account_vars, next, first, bytes, cap, batch,
                   request_vars, resident, worker_vars, stopped>>

FFailOne ==
    /\ fpc = "failing"
    /\ IF at > NumRG
       THEN fpc' = "exit" /\ UNCHANGED <<state, at>>
       ELSE /\ state' = [state EXCEPT ![at] = IF @ = "waiting" THEN "failed" ELSE @]
            /\ at' = at + 1
            /\ UNCHANGED fpc
    /\ UNCHANGED <<items_done, account_vars, cancel, next, first, bytes, cap, batch,
                   request_vars, resident, worker_vars, stopped>>

Fetcher ==
    \/ FTop \/ FLook \/ FAdmit \/ FSized \/ FCollect \/ FReady \/ FDrop \/ FGive
    \/ FDispatch \/ FAwait \/ FFail \/ FFailOne
-----------------------------------------------------------------------------
(* The requests: fetchOneTask, RowGroup.landed.                            *)

\* Request j takes the row group's pending bytes to 0.
AllIn_AnyOne(j) == TRUE
AllIn(j) == JobsOf(j[1]) \subseteq resident \cup {j}

\* A request's bytes are in its target; the last of its row group makes it
\* ready, or finds it dropped in flight and has it to give back.
JobLands(j) ==
    LET g == j[1] IN
    /\ j \in flying
    /\ flying' = flying \ {j}
    /\ resident' = resident \cup {j}
    /\ IF ~AllIn(j)
       THEN UNCHANGED <<state, lpc>>
       ELSE IF state[g] = "waiting"
       THEN state' = [state EXCEPT ![g] = "ready"] /\ UNCHANGED lpc
       ELSE lpc' = [lpc EXCEPT ![g] = "drop"] /\ UNCHANGED state
    /\ UNCHANGED <<items_done, account_vars, cancel, fetcher_vars, lost, worker_vars, stopped>>

JobFails(j) ==
    /\ CanFail
    /\ j \in flying
    /\ flying' = flying \ {j}
    /\ lost' = TRUE
    /\ UNCHANGED <<state, items_done, account_vars, cancel, fetcher_vars, lpc, resident,
                   worker_vars, stopped>>

LandedDrop(g) ==
    /\ lpc[g] = "drop"
    /\ DropPages(g)
    /\ lpc' = [lpc EXCEPT ![g] = "give"]
    /\ UNCHANGED <<state, items_done, account_vars, cancel, fetcher_vars, flying, lost,
                   worker_vars, stopped>>

LandedGive(g) ==
    /\ lpc[g] = "give"
    /\ GiveCharge(g)
    /\ lpc' = [lpc EXCEPT ![g] = "idle"]
    /\ UNCHANGED <<state, items_done, cancel, fetcher_vars, flying, lost, resident,
                   worker_vars, stopped>>

Request(g) ==
    \/ \E j \in JobsOf(g) : JobLands(j) \/ JobFails(j)
    \/ LandedDrop(g)
    \/ LandedGive(g)
-----------------------------------------------------------------------------
(* The scan's threads, at the row groups' gates.                           *)

WGoto(w, pc) == wpc' = [wpc EXCEPT ![w] = pc]

\* Row groups are claimed in the window's order, item by item.  One whose best
\* row cannot make the answer is skipped without a wait (skipRowGroup).
WorkerClaim(w) ==
    /\ wpc[w] = "claim"
    /\ cursor' = cursor + 1
    /\ IF cursor >= NumRG * Items
       THEN WGoto(w, "exit") /\ UNCHANGED wrg
       ELSE LET g == (cursor \div Items) + 1 IN
            /\ wrg' = [wrg EXCEPT ![w] = g]
            /\ \/ WGoto(w, "wait")
               \/ g \in Cuttable /\ WGoto(w, "done")
    /\ UNCHANGED <<state, items_done, account_vars, cancel, fetcher_vars, request_vars,
                   resident, werr, stopped>>

WorkerQuit(w) ==
    /\ CanQuit
    /\ wpc[w] = "claim"
    /\ WGoto(w, "exit")
    /\ UNCHANGED <<state, items_done, account_vars, cancel, fetcher_vars, request_vars,
                   resident, cursor, wrg, werr, stopped>>

\* gateWait
WorkerWait(w) ==
    /\ wpc[w] = "wait"
    /\ state[wrg[w]] # "waiting"
    /\ WGoto(w, IF state[wrg[w]] = "ready" THEN "scan" ELSE "done")
    /\ werr' = [werr EXCEPT ![w] = (state[wrg[w]] # "ready")]
    /\ UNCHANGED <<state, items_done, account_vars, cancel, fetcher_vars, request_vars,
                   resident, cursor, wrg, stopped>>

\* A scan that fails to decode goes over the row group once more, to find the
\* first failure in row order, before it gives it back (workerRun).
WorkerScan(w) ==
    /\ wpc[w] = "scan"
    /\ \/ WGoto(w, "done") /\ UNCHANGED werr
       \/ CanQuit /\ WGoto(w, "probe") /\ werr' = [werr EXCEPT ![w] = TRUE]
    /\ UNCHANGED <<state, items_done, account_vars, cancel, fetcher_vars, request_vars,
                   resident, cursor, wrg, stopped>>

WorkerProbe(w) ==
    /\ wpc[w] = "probe"
    /\ WGoto(w, "done")
    /\ UNCHANGED <<state, items_done, account_vars, cancel, fetcher_vars, request_vars,
                   resident, cursor, wrg, werr, stopped>>

Onward(w) == IF werr[w] THEN "exit" ELSE "claim"

\* gateDone: the last item drops a row group still on its way, releases one
\* that is in, and leaves a failed one to the teardown.
GateDone(w) ==
    LET g == wrg[w]
        last == items_done[g] + 1 = Items
    IN
    /\ wpc[w] = "done"
    /\ items_done' = [items_done EXCEPT ![g] = @ + 1]
    /\ state' = [state EXCEPT ![g] = IF last /\ @ = "waiting" THEN "dropped" ELSE @]
    /\ WGoto(w, IF last /\ state[g] = "ready" THEN "drop" ELSE Onward(w))
    /\ UNCHANGED <<account_vars, cancel, fetcher_vars, request_vars, resident, cursor,
                   wrg, werr, stopped>>

WorkerDrop(w) ==
    /\ wpc[w] = "drop"
    /\ DropPages(wrg[w])
    /\ WGoto(w, "give")
    /\ UNCHANGED <<state, items_done, account_vars, cancel, fetcher_vars, request_vars,
                   cursor, wrg, werr, stopped>>

WorkerGive(w) ==
    /\ wpc[w] = "give"
    /\ GiveCharge(wrg[w])
    /\ WGoto(w, Onward(w))
    /\ UNCHANGED <<state, items_done, cancel, fetcher_vars, request_vars, resident,
                   cursor, wrg, werr, stopped>>

Worker(w) ==
    \/ WorkerClaim(w) \/ WorkerQuit(w) \/ WorkerWait(w) \/ WorkerScan(w)
    \/ WorkerProbe(w) \/ GateDone(w) \/ WorkerDrop(w) \/ WorkerGive(w)
-----------------------------------------------------------------------------
(* Fetcher.stop, once the scan is over.                                    *)

ScanOver == \A w \in Workers : wpc[w] = "exit"

Stop ==
    /\ ScanOver
    /\ ~cancel
    /\ cancel' = TRUE
    /\ UNCHANGED <<state, items_done, account_vars, fetcher_vars, request_vars,
                   resident, worker_vars, stopped>>

Joined ==
    /\ ScanOver
    /\ cancel
    /\ fpc = "exit"
    /\ ~stopped
    /\ stopped' = TRUE
    /\ UNCHANGED <<state, items_done, account_vars, cancel, fetcher_vars, request_vars,
                   resident, worker_vars>>

Done == stopped /\ UNCHANGED vars

Next ==
    \/ Fetcher
    \/ \E g \in RowGroups : Request(g)
    \/ \E w \in Workers : Worker(w)
    \/ Stop
    \/ Joined
    \/ Done

Spec == Init /\ [][Next]_vars

\* Threads the system schedules; a request ends, if only by its timeout.
Fairness ==
    /\ WF_vars(Fetcher)
    /\ \A g \in RowGroups : WF_vars(Request(g))
    /\ \A w \in Workers : WF_vars(Worker(w))
    /\ WF_vars(Stop \/ Joined)

FairSpec == Spec /\ Fairness
-----------------------------------------------------------------------------
Returned == {g \in RowGroups : returns[g] > 0}
Outstanding == admitted \ Returned

\* A scan past a row group's gate finds all of it in the buffer, and keeps it
\* there: nobody gives it back before the scan's last item is done with it.
BytesBeforeUse ==
    \A w \in Workers : wpc[w] \in {"scan", "probe"} => Parts(wrg[w]) \subseteq resident

\* Every work item was scanned: none was passed over and none failed.
Scanned ==
    /\ \A g \in RowGroups : state[g] = "ready" /\ items_done[g] = Items
    /\ \A w \in Workers : ~werr[w]

\* However the scan, the requests and the fetcher race to a row group's end, its
\* charge comes back once at most, and only if it was taken (a skipped one's
\* never was); no byte is in memory that the window does not count, for pages go
\* before their charge and no request lands in a row group given back; and of a
\* scan that read everything the gates alone give the whole window back.
ChargedWhileResident ==
    /\ \A g \in RowGroups : returns[g] <= (IF g \in admitted THEN 1 ELSE 0)
    /\ \A p \in resident : p[1] \in Outstanding
    /\ stopped /\ Scanned => submitted = released /\ resident = {}

RGW == INSTANCE RowGroupWindow WITH
    Groups   <- RowGroups,
    Window   <- Limit,
    arrived  <- {g \in RowGroups : state[g] = "ready"},
    skipped  <- {g \in RowGroups : state[g] = "dropped"},
    returned <- Returned

\* Fetching in batches, with row groups dropped on the way, it keeps to the same
\* window: in plan order, bounded, each row group given back once.
ImplementsWindow == RGW!Spec

\* The scan ends and the fetcher with it, whatever fails or stops early.
ScanEnds == <>stopped

\* A dropped row group whose charge nobody gave back, with no request of the last
\* batch still out: s3_window.zig:31 says of one the scan skipped "never
\* admitted, or released on landing".
Leaked == fpc = "top" /\ \E g \in admitted : state[g] = "dropped" /\ g \notin Returned

\* It is all that keeps a scan from ending: whatever fails, stops early or is
\* passed over, if no charge is lost the scan ends and the fetcher with it.
ScanEndsUnlessLeaked == []~Leaked => ScanEnds

-----------------------------------------------------------------------------
FetcherPc == {"top", "look", "admit", "sized", "collect", "ready", "drop", "give",
              "dispatch", "await", "fail", "failing", "exit"}
WorkerPc == {"claim", "wait", "scan", "probe", "done", "drop", "give", "exit"}
AllParts == UNION {Parts(g) : g \in RowGroups}

\* The batch under way: its row groups are first to next - 1, taken up one by one.
TakingUp == {"ready", "drop", "give"}
FetcherTypeOK ==
    /\ fpc \in FetcherPc
    /\ next \in 1..(NumRG + 1)
    /\ first \in 1..(NumRG + 1)
    /\ at \in 1..(NumRG + 1)
    /\ bytes \in Nat
    /\ cap \in Nat
    /\ batch \subseteq RowGroups
    /\ fpc \in {"look", "admit", "sized"} => first <= next
    /\ fpc = "admit" => next \in RowGroups
    /\ fpc = "collect" => at <= next
    /\ fpc \in TakingUp => at < next

WorkersTypeOK ==
    /\ cursor \in Nat
    /\ wpc \in [Workers -> WorkerPc]
    /\ wrg \in [Workers -> Nat]
    /\ werr \in [Workers -> BOOLEAN]
    /\ \A w \in Workers : wpc[w] \notin {"claim", "exit"} => wrg[w] \in RowGroups

\* Type correctness: the states the window, its fetcher and the threads can be in.
TypeOK ==
    /\ state \in [RowGroups -> {"waiting", "ready", "failed", "dropped"}]
    /\ items_done \in [RowGroups -> Nat]
    /\ admitted \subseteq RowGroups
    /\ submitted \in Nat
    /\ released \in Nat
    /\ returns \in [RowGroups -> Nat]
    /\ flying \subseteq AllParts
    /\ lpc \in [RowGroups -> {"idle", "drop", "give"}]
    /\ resident \subseteq AllParts
    /\ cancel \in BOOLEAN /\ lost \in BOOLEAN /\ stopped \in BOOLEAN
    /\ FetcherTypeOK
    /\ WorkersTypeOK

=============================================================================
