---------------------------- MODULE MCBenchExport ----------------------------
(***************************************************************************)
(* Instances of BenchExport: requests naming a native run, a legacy run,   *)
(* or both with and without a choice between them, and requests that must  *)
(* be refused.  The native runs: one whose case stays disturbed until it   *)
(* is quarantined (rough), one with a warm-up (warm), one of two cases     *)
(* (mixed), one of a process for all repetitions (session).                *)
(***************************************************************************)
EXTENDS BenchExport

NoPin == [sha |-> "none", binary |-> "none"]
Pin(x) == [sha |-> x, binary |-> x]

NativeRun(planned, reps) ==
    [kind |-> "native", lane |-> "cold", host |-> "host",
     zpq |-> Pin("Z"), base |-> Pin("B"), planned |-> planned, expected |-> <<"zpq", "base">>,
     head |-> [reps |-> reps, psi |-> TRUE, smoke |-> FALSE, maxRound |-> 2]]

LegacyRun == [NativeRun(<<"q">>, 2) EXCEPT !.kind = "legacy", !.host = "none", !.base = NoPin]

MCSaved == [native |-> NativeRun(<<"q">>, 2), rough |-> NativeRun(<<"q">>, 1),
            warm |-> [NativeRun(<<"q">>, 1) EXCEPT !.lane = "hot"], mixed |-> NativeRun(<<"p", "q">>, 1),
            session |-> [NativeRun(<<"q">>, 2) EXCEPT !.lane = "engine", !.expected = <<"duckdb20">>],
            brief |-> NativeRun(<<"q", "p">>, 2),
            legacy |-> LegacyRun, short |-> LegacyRun, older |-> [LegacyRun EXCEPT !.kind = "unknown"],
            once |-> [LegacyRun EXCEPT !.head.reps = 1], hot |-> [LegacyRun EXCEPT !.head.reps = 1, !.lane = "hot"]]

MCMost == [native |-> 8, rough |-> 6, warm |-> 4, mixed |-> 6, session |-> 6, brief |-> 1,
           legacy |-> 4, short |-> 1, older |-> 1, once |-> 2, hot |-> 2]
MCMaxOdd == [native |-> 1, rough |-> 3, warm |-> 1, mixed |-> 1, session |-> 1, brief |-> 1,
             legacy |-> 1, short |-> 1, older |-> 1, once |-> 1, hot |-> 1]

PlainRequest ==
    [lanes |-> <<"cold">>, targets |-> <<"q">>, controls |-> <<>>,
     runs |-> <<[id |-> "main", lane |-> "cold", at |-> "native"]>>, selection |-> {},
     expected |-> {"zpq", "base"}, host |-> "host", candidate |-> Pin("Z"), baseline |-> NoPin,
     receipt |-> "none",
     stored |-> {[lane |-> "cold", case |-> "q", engine |-> "duckdb"], [lane |-> "cold", case |-> "q", engine |-> "base"]}]

Two(main, other) == <<[id |-> "main", lane |-> "cold", at |-> main], [id |-> "confirm", lane |-> "cold", at |-> other]>>
OfBrief == <<[id |-> "main", lane |-> "cold", at |-> "brief"]>>
Choice(case, run) == {[lane |-> "cold", case |-> case, run |-> run]}

OfOne(lane, at) ==
    [PlainRequest EXCEPT !.lanes = <<lane>>, !.runs = <<[id |-> "main", lane |-> lane, at |-> at]>>]

TheRequests ==
    {PlainRequest, OfOne("cold", "rough"), OfOne("hot-fresh", "warm"), OfOne("cold", "mixed"), OfOne("engine", "session"),
     [PlainRequest EXCEPT !.runs = Two("brief", "legacy"), !.selection = Choice("q", "confirm")],
     [PlainRequest EXCEPT !.runs = Two("brief", "short"), !.selection = Choice("q", "main")],
     [PlainRequest EXCEPT !.controls = <<"p">>, !.runs = OfBrief],
     [PlainRequest EXCEPT !.lanes = <<"cold", "hot-fresh">>,
        !.runs = <<[id |-> "main", lane |-> "cold", at |-> "once"], [id |-> "hot", lane |-> "hot-fresh", at |-> "hot"]>>],
     \* refused by validate
     [PlainRequest EXCEPT !.runs = OfBrief, !.controls = <<"q">>],
     [PlainRequest EXCEPT !.runs = OfBrief, !.receipt = "B"],
     \* refused by load_run
     [PlainRequest EXCEPT !.runs = OfBrief, !.baseline = Pin("other")],
     [PlainRequest EXCEPT !.runs = <<[id |-> "old", lane |-> "cold", at |-> "older"]>>],
     \* refused by make_export: ambiguous, chosen where not planned, unknown
     [PlainRequest EXCEPT !.runs = <<[id |-> "main", lane |-> "cold", at |-> "brief"], [id |-> "again", lane |-> "cold", at |-> "brief"]>>],
     [PlainRequest EXCEPT !.runs = Two("brief", "short"), !.selection = Choice("q", "confirm") \cup Choice("p", "confirm")],
     [PlainRequest EXCEPT !.runs = OfBrief, !.selection = Choice("z", "main")]}
MCRequests == TheRequests
=============================================================================
