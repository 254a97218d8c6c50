---------------------------- MODULE MCBenchQuick ----------------------------
(* A pair of a JSON answer run twice, and rivals after it; a Parquet pair     *)
(* with a declared change of bytes; a refusal of the candidate alone, on an   *)
(* input that is shared and changes once, and on a remote host; and what load *)
(* or supervise refuses, here or there.                                       *)
EXTENDS BenchQuick

Json == [paired |-> TRUE, output |-> "json", declared |-> TRUE, refusal |-> FALSE]
Parquet == [paired |-> TRUE, output |-> "parquet", declared |-> TRUE, refusal |-> FALSE]
Refusal == [paired |-> FALSE, output |-> "json", declared |-> FALSE, refusal |-> TRUE]

Config(cases, reps) ==
    [enabled |-> TRUE, budget |-> 10, reps |-> reps, sameBuild |-> TRUE, slow |-> FALSE,
     capped |-> TRUE, shared |-> FALSE, rivals |-> FALSE, remote |-> FALSE, cases |-> cases]

TheConfigs ==
    {[Config(<<Json>>, 2) EXCEPT !.rivals = TRUE], [Config(<<Parquet>>, 1) EXCEPT !.slow = TRUE],
     [Config(<<Refusal>>, 1) EXCEPT !.shared = TRUE],
     [Config(<<[Refusal EXCEPT !.output = "parquet"]>>, 1) EXCEPT !.remote = TRUE],
     [Config(<<Json>>, 1) EXCEPT !.capped = FALSE],
     [Config(<<Json>>, 1) EXCEPT !.remote = TRUE, !.capped = FALSE],
     [Config(<<Json>>, 1) EXCEPT !.budget = 121]}
MCConfigs == TheConfigs

TheResults == {[exit |-> 0, bytes |-> 1], [exit |-> 0, bytes |-> 2], [exit |-> 1, bytes |-> 1]}
MCResults == TheResults

TheContent == [v \in 0..1 |-> IF v = 0 THEN "pinned" ELSE "rewritten"]
MCContent == TheContent
=============================================================================
