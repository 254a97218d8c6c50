----------------------------- MODULE ZpqContext -----------------------------
(***************************************************************************)
(* python/zpq.py, python/zpq_arrow.py and the libzpq context below them    *)
(* (src/libzpq/libzpq.zig, budget.zig, arrow.zig).  Threads call run_raw,  *)
(* Arrow readers hold a call open until they are closed, and any thread    *)
(* may close the context: close refuses new calls, ends the queries still  *)
(* queued for their budget, waits for the calls in flight and only then    *)
(* frees the context.                                                      *)
(*                                                                         *)
(* A section under Zpq._cond, Ctx.lock, Budget.lock or State.lock is one   *)
(* action, but close() calls zpq_shutdown while it holds _cond: cond names *)
(* the closer that holds it.  A wait on _cond ends only by a notify; the   *)
(* waits in C are re-read every 100 ms (waitSlice), so they are guards.    *)
(* An operator named D_X is a mutant of the D defined after it.            *)
(***************************************************************************)
EXTENDS Integers, Sequences, FiniteSets, SequencesExt

CONSTANTS
    Callers,        \* threads that call run_raw
    Readers,        \* Arrow readers, each opened, read and closed
    Closers,        \* threads that call close()
    Finishers,      \* what may close a reader: its user, an iterator's end
    Ceiling,        \* Budget.ceiling
    Sizes,          \* the budgets a query may declare
    MaxBatches,     \* bound on the batches of a reader
    Nobody

Calls == Callers \cup Readers

ASSUME ContextAssumption ==
    /\ Callers \cap Readers = {}
    /\ IsFiniteSet(Callers) /\ IsFiniteSet(Readers) /\ IsFiniteSet(Finishers)
    /\ Nobody \notin Closers
    /\ Ceiling \in Nat
    /\ Sizes \subseteq Nat
    /\ MaxBatches \in Nat

VARIABLES
    closing, inflight, ctx, \* Zpq._closing, _inflight; whether _ctx is set
    cond, asleep,           \* who holds _cond inside close(); who waits on it
    cpc,                    \* where each closer is
    lclosing, lin, freed,   \* Ctx.closing, Ctx.inflight; zpq_close is done
    bclosed, reserved, queue,   \* Budget.closed, reserved, queue
    pc, need, status,       \* where a call is, its budget, how it ended
    owner, joining,         \* ArrowReader._owner, held once it is made; who
                            \* closes it
    slot, left, cancelled   \* State.pending, batches to come, cancelled

host_vars == <<closing, inflight, ctx, cond, asleep, cpc>>
lib_vars == <<lclosing, lin, freed>>
budget_vars == <<bclosed, reserved, queue>>
call_vars == <<pc, need, status>>
reader_vars == <<owner, joining, slot, left, cancelled>>
context_vars == <<host_vars, lib_vars, budget_vars, call_vars, reader_vars>>

Inside == {"acquire", "queued", "running", "pushing", "leaving"}

ContextInit ==
    /\ closing = FALSE /\ inflight = 0 /\ ctx = TRUE
    /\ cond = Nobody /\ asleep = {}
    /\ cpc = [k \in Closers |-> "idle"]
    /\ lclosing = FALSE /\ lin = 0 /\ freed = FALSE
    /\ bclosed = FALSE /\ reserved = 0 /\ queue = <<>>
    /\ pc = [c \in Calls |-> "out"]
    /\ need = [c \in Calls |-> 0]
    /\ status = [c \in Calls |-> "none"]
    /\ owner = [r \in Readers |-> "none"]
    /\ joining = [r \in Readers |-> {}]
    /\ slot = [r \in Readers |-> FALSE]
    /\ left = [r \in Readers |-> 0]
    /\ cancelled = [r \in Readers |-> FALSE]

Goto(c, to) == pc' = [pc EXCEPT ![c] = to]
Ends(c, how) == status' = [status EXCEPT ![c] = how]

-----------------------------------------------------------------------------
(* Counting a call in and out, in Python.                                  *)

(* run_raw and open_reader, up to the call into the library.               *)
MayCall_NotChecked == TRUE
MayCall == ~closing

Call(c) ==
    /\ pc[c] = "out" /\ cond = Nobody
    /\ IF MayCall
       THEN /\ inflight' = inflight + 1
            /\ Goto(c, "counted") /\ Ends(c, "none")
       ELSE /\ Ends(c, "closed")
            /\ UNCHANGED <<inflight, pc>>
    /\ UNCHANGED <<closing, ctx, cond, asleep, cpc, lib_vars, budget_vars,
                   need, reader_vars>>

(* The notify after a call is counted out: run_raw notifies at zero only,  *)
(* a reader always.                                                        *)
Sleepers_AtOne(n) == IF n = 1 THEN {} ELSE asleep
Sleepers(n) == IF n = 0 THEN {} ELSE asleep

(* run_raw's finally; it raises ZpqClosed, or returns a document.          *)
Return(c) ==
    /\ pc[c] = "back" /\ c \in Callers /\ cond = Nobody
    /\ inflight' = inflight - 1
    /\ asleep' = Sleepers(inflight - 1)
    /\ Goto(c, "out")
    /\ Ends(c, IF status[c] = "closed" THEN "closed" ELSE "none")
    /\ UNCHANGED <<closing, ctx, cond, cpc, lib_vars, budget_vars, need,
                   reader_vars>>

(* open_reader's except: the library refused, or started no thread.        *)
FailOpen(r) ==
    /\ pc[r] = "back" /\ r \in Readers /\ cond = Nobody
    /\ inflight' = inflight - 1
    /\ asleep' = {}
    /\ Goto(r, "out") /\ Ends(r, "none")
    /\ UNCHANGED <<closing, ctx, cond, cpc, lib_vars, budget_vars, need,
                   reader_vars>>

-----------------------------------------------------------------------------
(* Inside the library.                                                     *)

(* zpq_run: enter, or ZPQ_ECLOSED.                                         *)
Enter(c) ==
    /\ pc[c] = "counted" /\ c \in Callers
    /\ IF lclosing
       THEN Goto(c, "back") /\ Ends(c, "closed") /\ UNCHANGED <<lin, need>>
       ELSE /\ lin' = lin + 1
            /\ \E b \in Sizes : need' = [need EXCEPT ![c] = b]
            /\ Goto(c, "acquire") /\ UNCHANGED status
    /\ UNCHANGED <<host_vars, lclosing, freed, budget_vars, reader_vars>>

(* zpq_run_arrow: the producer's thread is started, or the call fails.     *)
EnterArrow(r) ==
    /\ pc[r] = "counted" /\ r \in Readers
    /\ \/ /\ Goto(r, "back")
          /\ Ends(r, IF lclosing THEN "closed" ELSE "error")
          /\ UNCHANGED <<lin, need, owner, left>>
       \/ /\ ~lclosing
          /\ lin' = lin + 1
          /\ \E b \in Sizes, n \in 0..MaxBatches :
                /\ need' = [need EXCEPT ![r] = b]
                /\ left' = [left EXCEPT ![r] = n]
          /\ owner' = [owner EXCEPT ![r] = "opening"]
          /\ Goto(r, "acquire") /\ UNCHANGED status
    /\ UNCHANGED <<host_vars, lclosing, freed, budget_vars, joining, slot,
                   cancelled>>

(* Budget.acquire, up to its wait.                                         *)
Acquire(c) ==
    /\ pc[c] = "acquire"
    /\ IF need[c] > Ceiling \/ bclosed
       THEN /\ Goto(c, "leaving")
            /\ Ends(c, IF need[c] > Ceiling THEN "error" ELSE "closed")
            /\ need' = [need EXCEPT ![c] = 0]
            /\ UNCHANGED queue
       ELSE /\ Goto(c, "queued") /\ queue' = Append(queue, c)
            /\ UNCHANGED <<status, need>>
    /\ UNCHANGED <<host_vars, lib_vars, bclosed, reserved, reader_vars>>

Fits_Alone(c) == need[c] <= Ceiling
Fits(c) == need[c] <= Ceiling - reserved

MayStart_AfterClose(c) == queue # <<>> /\ Head(queue) = c /\ Fits(c)
MayStart(c) == ~bclosed /\ queue # <<>> /\ Head(queue) = c /\ Fits(c)

(* The head of the queue gets its budget.                                  *)
Grant(c) ==
    /\ pc[c] = "queued" /\ MayStart(c)
    /\ reserved' = reserved + need[c]
    /\ queue' = Tail(queue)
    /\ Goto(c, "running")
    /\ UNCHANGED <<host_vars, lib_vars, bclosed, need, status, reader_vars>>

(* A waiter leaves the queue: the budget was closed, or, when it has a     *)
(* deadline, that passed first.                                            *)
LeaveQueue(c, how) ==
    /\ pc[c] = "queued"
    /\ \E i \in 1..Len(queue) : queue[i] = c /\ queue' = RemoveAt(queue, i)
    /\ need' = [need EXCEPT ![c] = 0]
    /\ Goto(c, "leaving") /\ Ends(c, how)
    /\ UNCHANGED <<host_vars, lib_vars, bclosed, reserved, reader_vars>>

Refused(c) == bclosed /\ LeaveQueue(c, "closed")
TimeOut(c) == ~bclosed /\ ~MayStart(c) /\ LeaveQueue(c, "error")

(* A query ends and releases its budget.  Whether its response is an       *)
(* answer or an error makes no difference to a caller's thread.            *)
Released(c) == reserved - need[c]

Finish(c, how) ==
    /\ reserved' = Released(c)
    /\ need' = [need EXCEPT ![c] = 0]
    /\ Goto(c, "leaving") /\ Ends(c, how)
    /\ UNCHANGED <<host_vars, lib_vars, bclosed, queue, reader_vars>>

EndQuery(c) ==
    /\ pc[c] = "running"
    /\ \/ (c \in Readers => left[c] = 0) /\ Finish(c, "ok")
       \/ c \in Readers /\ Finish(c, "failed")

(* The producer of a reader hands over a batch, and waits for a free slot  *)
(* or for the reader to be released (arrow.zig, batchFn).                  *)
Produce(r) ==
    /\ r \in Readers /\ pc[r] = "running" /\ left[r] > 0
    /\ Goto(r, "pushing")
    /\ UNCHANGED <<host_vars, lib_vars, budget_vars, need, status,
                   reader_vars>>

Push(r) ==
    /\ pc[r] = "pushing" /\ ~slot[r] /\ ~cancelled[r]
    /\ slot' = [slot EXCEPT ![r] = TRUE]
    /\ left' = [left EXCEPT ![r] = @ - 1]
    /\ Goto(r, "running")
    /\ UNCHANGED <<host_vars, lib_vars, budget_vars, need, status, owner,
                   joining, cancelled>>

PushCancelled(r) == pc[r] = "pushing" /\ cancelled[r] /\ Finish(r, "failed")

(* Ctx.leave, and the call is back in Python or its producer has ended.    *)
Leave(c) ==
    /\ pc[c] = "leaving"
    /\ lin' = lin - 1
    /\ Goto(c, IF c \in Readers THEN "ended" ELSE "back")
    /\ UNCHANGED <<host_vars, lclosing, freed, budget_vars, need, status,
                   reader_vars>>

-----------------------------------------------------------------------------
(* A reader's consumer.                                                    *)

(* PyArrow's import waits for the schema, which comes before the first     *)
(* batch (getSchema); without one it releases the stream, which joins the  *)
(* producer, and open_reader counts the call out.                          *)
Imported(r) ==
    /\ owner[r] = "opening"
    /\ pc[r] \in {"running", "pushing"} \/ status[r] \in {"ok", "failed"}
    /\ owner' = [owner EXCEPT ![r] = "held"]
    /\ UNCHANGED <<host_vars, lib_vars, budget_vars, call_vars, joining, slot,
                   left, cancelled>>

(* The stream is gone, with the batches nobody took.                       *)
Emptied(r) ==
    /\ slot' = [slot EXCEPT ![r] = FALSE]
    /\ left' = [left EXCEPT ![r] = 0]
    /\ cancelled' = [cancelled EXCEPT ![r] = FALSE]

ImportFailed(r) ==
    /\ owner[r] = "opening" /\ cond = Nobody
    /\ pc[r] = "ended" /\ status[r] # "ok"
    /\ owner' = [owner EXCEPT ![r] = "none"]
    /\ inflight' = inflight - 1
    /\ asleep' = {}
    /\ Goto(r, "out") /\ Ends(r, "none") /\ Emptied(r)
    /\ UNCHANGED <<closing, ctx, cond, cpc, lib_vars, budget_vars, need,
                   joining>>

Pull(r) ==
    /\ owner[r] = "held" /\ slot[r]
    /\ slot' = [slot EXCEPT ![r] = FALSE]
    /\ UNCHANGED <<host_vars, lib_vars, budget_vars, call_vars, owner,
                   joining, left, cancelled>>

(* ArrowReader.close takes the owner: whoever closes second finds none.    *)
Taken(r) == [owner EXCEPT ![r] = "none"]

CloseReader(r, f) ==
    /\ owner[r] = "held" /\ f \notin joining[r]
    /\ owner' = Taken(r)
    /\ joining' = [joining EXCEPT ![r] = @ \cup {f}]
    /\ cancelled' = [cancelled EXCEPT ![r] = TRUE]
    /\ UNCHANGED <<host_vars, lib_vars, budget_vars, call_vars, slot, left>>

(* ... joins the producer and counts the call out.                         *)
JoinProducer(r, f) ==
    /\ f \in joining[r] /\ pc[r] \in {"ended", "out"} /\ cond = Nobody
    /\ joining' = [joining EXCEPT ![r] = @ \ {f}]
    /\ inflight' = inflight - 1
    /\ asleep' = {}
    /\ Goto(r, "out") /\ Ends(r, "none") /\ Emptied(r)
    /\ UNCHANGED <<closing, ctx, cond, cpc, lib_vars, budget_vars, need,
                   owner>>

-----------------------------------------------------------------------------
(* Zpq.close.                                                              *)

BeginClose(k) ==
    /\ cpc[k] = "idle" /\ cond = Nobody
    /\ closing' = TRUE
    /\ cond' = k
    /\ cpc' = [cpc EXCEPT ![k] = IF ctx THEN "refuse" ELSE "check"]
    /\ UNCHANGED <<inflight, ctx, asleep, lib_vars, budget_vars, call_vars,
                   reader_vars>>

(* zpq_shutdown, under _cond: the context first, then its budget.          *)
RefuseCalls(k) ==
    /\ cpc[k] = "refuse"
    /\ lclosing' = TRUE
    /\ cpc' = [cpc EXCEPT ![k] = "wake queue"]
    /\ UNCHANGED <<closing, inflight, ctx, cond, asleep, lin, freed,
                   budget_vars, call_vars, reader_vars>>

CloseBudget(k) ==
    /\ cpc[k] = "wake queue"
    /\ bclosed' = TRUE
    /\ cpc' = [cpc EXCEPT ![k] = "check"]
    /\ UNCHANGED <<closing, inflight, ctx, cond, asleep, lib_vars, reserved,
                   queue, call_vars, reader_vars>>

(* The wait for the calls in flight, and the context taken by one closer.  *)
Drained == inflight = 0

HandleAfter_Kept == ctx
HandleAfter == FALSE

Check(k) ==
    /\ cpc[k] = "check" /\ cond = k
    /\ cond' = Nobody
    /\ IF Drained
       THEN /\ ctx' = HandleAfter
            /\ cpc' = [cpc EXCEPT ![k] = IF ctx THEN "free" ELSE "closed"]
            /\ UNCHANGED asleep
       ELSE /\ asleep' = asleep \cup {k}
            /\ cpc' = [cpc EXCEPT ![k] = "wait"]
            /\ UNCHANGED ctx
    /\ UNCHANGED <<closing, inflight, lib_vars, budget_vars, call_vars,
                   reader_vars>>

Wake(k) ==
    /\ cpc[k] = "wait" /\ k \notin asleep /\ cond = Nobody
    /\ cond' = k
    /\ cpc' = [cpc EXCEPT ![k] = "check"]
    /\ UNCHANGED <<closing, inflight, ctx, asleep, lib_vars, budget_vars,
                   call_vars, reader_vars>>

(* zpq_close, outside _cond.                                               *)
Free(k) ==
    /\ cpc[k] = "free" /\ lin = 0
    /\ lclosing' = TRUE /\ bclosed' = TRUE
    /\ freed' = TRUE
    /\ cpc' = [cpc EXCEPT ![k] = "closed"]
    /\ UNCHANGED <<closing, inflight, ctx, cond, asleep, lin, reserved,
                   queue, call_vars, reader_vars>>

-----------------------------------------------------------------------------
CallStep(c) ==
    \/ Return(c) \/ FailOpen(c) \/ Enter(c) \/ EnterArrow(c) \/ Acquire(c)
    \/ Grant(c) \/ Refused(c) \/ EndQuery(c) \/ Produce(c) \/ Leave(c)

ReaderStep(r) ==
    \/ Push(r) \/ PushCancelled(r) \/ Imported(r) \/ ImportFailed(r)
    \/ \E f \in Finishers : CloseReader(r, f) \/ JoinProducer(r, f)

CloserStep(k) ==
    RefuseCalls(k) \/ CloseBudget(k) \/ Check(k) \/ Wake(k) \/ Free(k)

ContextNext ==
    \/ \E c \in Calls : Call(c) \/ CallStep(c) \/ TimeOut(c)
    \/ \E r \in Readers : ReaderStep(r) \/ Pull(r)
    \/ \E k \in Closers : BeginClose(k) \/ CloserStep(k)

ContextSpec == ContextInit /\ [][ContextNext]_context_vars

-----------------------------------------------------------------------------
(* Properties.                                                             *)

(* "a context is never freed under a running query" (zpq.py): no call that *)
(* is inside the library, or on its way there, meets a context that a      *)
(* closer has started to free.                                             *)
NoCallOutlivesContext ==
    (freed \/ \E k \in Closers : cpc[k] = "free") =>
        \A c \in Calls : pc[c] \notin Inside \cup {"counted"}

(* zpq.h: "zpq_close must be called once per context", however many        *)
(* threads call close(), however often.                                    *)
OneCloseEver ==
    /\ \A k, l \in Closers : cpc[k] = "free" /\ cpc[l] = "free" => k = l
    /\ freed => \A k \in Closers : cpc[k] # "free"

(* The budgets the running queries declared add up to what is reserved,    *)
(* within the ceiling, whatever ended them.                                *)
Running == {c \in Calls : pc[c] \in {"running", "pushing"}}

BudgetKept ==
    /\ reserved <= Ceiling
    /\ reserved = SumFunctionOnSet(need, Running)

(* "Reservations are granted in arrival order" and none after shutdown:    *)
(* a query that starts was ahead of every one still waiting, and close     *)
(* waits for no query that had not started.                                *)
StartsInOrder ==
    [][\A c \in Calls :
         pc[c] = "queued" /\ pc'[c] = "running" =>
            /\ ~bclosed
            /\ \A i \in 1..Len(queue') : queue'[i] # c
            /\ \A i \in 1..Len(queue) : queue[i] = c => i = 1
      ]_context_vars

(* close() returns once the queries in flight end and the readers are      *)
(* closed: no notify is missed, and the queued queries do not hold it up.  *)
CloseReturns ==
    \A k \in Closers : cpc[k] = "check" ~> cpc[k] = "closed"
=============================================================================
