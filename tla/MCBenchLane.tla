----------------------------- MODULE MCBenchLane -----------------------------
(* zpq against DuckDB: a cold lane of one case with trouble for every round, *)
(* one of two and one of five cases, a hot lane without PSI and an engine     *)
(* lane with sessions.                                                        *)
EXTENDS BenchLane

Setup(lane, cases, bound) ==
    [lane |-> lane, reps |-> 2, psi |-> TRUE, smoke |-> FALSE, maxRound |-> 2,
     cases |-> cases, engines |-> <<"zpq", "duckdb20">>, trouble |-> bound]

Short(lane, bound) == [Setup(lane, <<"q1">>, bound) EXCEPT !.reps = 1]

TheSetups == {Short("cold", 3), Setup("cold", <<"q1">>, 1), Setup("cold", <<"q1", "q2">>, 1),
              [Setup("cold", <<"q1", "q2", "q3", "q4", "q5">>, 1) EXCEPT !.reps = 1],
              [Short("hot", 1) EXCEPT !.psi = FALSE], [Short("hot", 1) EXCEPT !.smoke = TRUE],
              Short("engine", 2), Setup("engine", <<"q1">>, 1)}
MCSetups == TheSetups

TheKind == [e \in {"zpq", "duckdb20"} |-> IF e = "zpq" THEN "zpq" ELSE "duckdb"]
MCKind == TheKind

TheReplies == {NoReply, [NoReply EXCEPT !.rc = 1], [NoReply EXCEPT !.timeout = TRUE, !.forks = "group"],
               [NoReply EXCEPT !.contended = TRUE, !.forks = "session"],
               [NoReply EXCEPT !.stall = 8, !.forks = "group"]}
MCReplies == TheReplies

TheUsual == [e \in {"zpq", "duckdb20"} |-> IF e = "zpq" THEN 3 ELSE 4]
MCUsual == TheUsual

\* 7 is more than half as much again as 4, and 13 a stall beside either.
TheOutputs == {[answer |-> a, elapsed |-> 4] : a \in {"right", "text", "garbled", "absent"}}
              \cup [answer : {"right"}, elapsed : {3, 7, 13}]
MCOutputs == TheOutputs
=============================================================================
