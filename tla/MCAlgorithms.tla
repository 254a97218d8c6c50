----------------------------- MODULE MCAlgorithms -----------------------------
(***************************************************************************)
(* The algorithms, each on inputs of its own: a file's reads planned range *)
(* by range (MCLocalReaderLayout), one subject of the Parquet tools        *)
(* (MCParquetTools), or an export of saved runs (MCBenchExport).           *)
(***************************************************************************)
EXTENDS MCLocalReaderLayout, MCParquetTools, MCBenchExport

Init == PlanInit /\ ToolsInit /\ ExportInit

\* Nothing planned, nothing looked at, and a request nobody has touched: the
\* other two start beside the one plain request alone.
NoPlan == Planned = 0
NoSubject == Kind("none")
NoExport == request = PlainRequest /\ exports = 0 /\ \A l \in DOMAIN journals : journals[l] = <<>>

Next ==
    \/ NoSubject /\ NoExport /\ PlanNext /\ UNCHANGED <<subject, exportVars>>
    \/ NoPlan /\ NoExport /\ ToolsNext /\ UNCHANGED <<planVars, exportVars>>
    \/ NoPlan /\ NoSubject /\ ExportNext /\ UNCHANGED <<planVars, subject>>

Spec == Init /\ [][Next]_<<planVars, subject, exportVars>>
=============================================================================
