----------------------------- MODULE ZpqService -----------------------------
(***************************************************************************)
(* python/zpq_service.py over the context: one thread per connection, any  *)
(* number of requests on each, and stop(): no more connections, the open   *)
(* ones are ended for reading, every connection's thread is joined, and    *)
(* only then is the context closed.  The process may call the context      *)
(* itself, through other threads.  http.server and socketserver are as     *)
(* this program uses them.                                                 *)
(* An operator named D_X is a mutant of the D defined after it.            *)
(***************************************************************************)
EXTENDS ZpqContext

CONSTANTS
    Handlers,       \* the callers that are connections' threads
    Main            \* the closer that runs stop()

ASSUME ServiceAssumption == Handlers \subseteq Callers /\ Main \in Closers

VARIABLES
    server,         \* serve_forever runs, has returned; reads ended; joined
    hpc,            \* where each connection's thread is
    conns,          \* Server._conns
    cut,            \* connections shut down for reading
    buffered,       \* ... of which a whole request had already come in
    lost            \* history: requests refused though nobody but stop closed

service_vars == <<server, hpc, conns, cut, buffered, lost>>
vars == <<context_vars, service_vars>>

Init ==
    /\ ContextInit
    /\ server = "serving"
    /\ hpc = [h \in Handlers |-> "none"]
    /\ conns = {} /\ cut = {} /\ buffered = {} /\ lost = {}

At(h, to) == hpc' = [hpc EXCEPT ![h] = to]

-----------------------------------------------------------------------------
(* process_request: the connection is known before its thread starts.      *)
Accept(h) ==
    /\ server = "serving" /\ hpc[h] = "none"
    /\ conns' = conns \cup {h}
    /\ At(h, "reading")
    /\ UNCHANGED <<context_vars, server, cut, buffered, lost>>

(* A request is there to read: whole before the connection was cut.        *)
Readable(h) == h \notin cut \/ h \in buffered

(* do_POST up to the call: a query's body has been read.                   *)
ReadQuery(h) ==
    /\ hpc[h] = "reading" /\ Readable(h)
    /\ buffered' = buffered \ {h}
    /\ At(h, "query")
    /\ UNCHANGED <<context_vars, server, conns, cut, lost>>

(* shutdown_request: the peer's end, the cut, or _refuse ended it.         *)
EndConnection(h) ==
    /\ conns' = conns \ {h}
    /\ cut' = cut \ {h} /\ buffered' = buffered \ {h}
    /\ At(h, "none")

(* A request that is no query: do_GET answers and reads on; _refuse (a     *)
(* path, a length that is missing, bad or too large) ends the connection.  *)
AnswerOther(h) ==
    /\ hpc[h] = "reading" /\ Readable(h)
    /\ \/ buffered' = buffered \ {h} /\ UNCHANGED <<hpc, conns, cut>>
       \/ EndConnection(h)
    /\ UNCHANGED <<context_vars, server, lost>>

EndOfInput(h) ==
    /\ hpc[h] = "reading" /\ (h \in cut => h \notin buffered)
    /\ EndConnection(h)
    /\ UNCHANGED <<context_vars, server, lost>>

(* z.run_raw, refused at once or counted in.                               *)
RunQuery(h) ==
    /\ hpc[h] = "query" /\ Call(h)
    /\ At(h, "called")
    /\ UNCHANGED <<server, conns, cut, buffered, lost>>

(* The answer: 200, 400 or 500, then the next request; 503 on ZpqClosed.   *)
Reply(h) ==
    /\ hpc[h] = "called" /\ pc[h] = "out"
    /\ IF status[h] = "closed"
       THEN /\ EndConnection(h)
            /\ lost' = IF \A k \in Closers \ {Main} : cpc[k] = "idle"
                       THEN lost \cup {h} ELSE lost
       ELSE /\ At(h, "reading")
            /\ UNCHANGED <<conns, cut, buffered, lost>>
    /\ UNCHANGED <<context_vars, server>>

-----------------------------------------------------------------------------
(* stop().                                                                 *)

ServeReturns ==
    /\ server = "serving" /\ server' = "returned"
    /\ UNCHANGED <<context_vars, hpc, conns, cut, buffered, lost>>

(* end_reads: what a client had sent by then can still be read.            *)
CutOff_Queried == {h \in conns : hpc[h] # "reading"}
CutOff == conns

EndReads ==
    /\ server = "returned" /\ server' = "ended"
    /\ cut' = CutOff
    /\ \E some \in SUBSET CutOff : buffered' = some
    /\ UNCHANGED <<context_vars, hpc, conns, lost>>

(* server_close joins every connection's thread.                           *)
AllJoined == \A h \in Handlers : hpc[h] = "none"

JoinThreads ==
    /\ server = "ended" /\ AllJoined
    /\ server' = "joined"
    /\ UNCHANGED <<context_vars, hpc, conns, cut, buffered, lost>>

MayClose(k) == k = Main => server = "joined"

-----------------------------------------------------------------------------
HandlerStep(h) == RunQuery(h) \/ Reply(h)

ContextStep ==
    /\ \/ \E c \in Calls \ Handlers : Call(c)
       \/ \E c \in Calls : CallStep(c) \/ TimeOut(c)
       \/ \E r \in Readers : ReaderStep(r) \/ Pull(r)
       \/ \E k \in Closers : (MayClose(k) /\ BeginClose(k)) \/ CloserStep(k)
    /\ UNCHANGED service_vars

Next ==
    \/ ContextStep
    \/ \E h \in Handlers :
          \/ Accept(h) \/ ReadQuery(h) \/ AnswerOther(h) \/ EndOfInput(h)
          \/ HandlerStep(h)
    \/ ServeReturns \/ EndReads \/ JoinThreads

Spec == Init /\ [][Next]_vars

(* A thread that can go on does; the user of a reader closes it in the     *)
(* end; a client whose connection was cut sends no more.                   *)
AfterCut(h) ==
    h \in cut /\ (ReadQuery(h) \/ AnswerOther(h) \/ EndOfInput(h))

StopStep ==
    \/ EndReads \/ JoinThreads
    \/ server = "joined" /\ BeginClose(Main) /\ UNCHANGED service_vars

FairSpec ==
    /\ Spec
    /\ \A c \in Callers : WF_vars(CallStep(c) /\ UNCHANGED service_vars)
    /\ \A r \in Readers :
          WF_vars((CallStep(r) \/ ReaderStep(r)) /\ UNCHANGED service_vars)
    /\ \A k \in Closers : WF_vars(CloserStep(k) /\ UNCHANGED service_vars)
    /\ \A h \in Handlers : WF_vars(HandlerStep(h) \/ AfterCut(h))
    /\ WF_vars(StopStep)

-----------------------------------------------------------------------------
(* Properties.                                                             *)

(* stop() comes to its end, with idle connections open and queries in      *)
(* flight: the context is freed.  And "queries in flight finish and        *)
(* answer" (zpq_service.py): stop by itself turns no request away (a 503). *)
StopEnds == (server = "returned" ~> freed) /\ [](lost = {})
=============================================================================
