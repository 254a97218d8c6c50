----------------------------- MODULE MCSpawnPool -----------------------------
(***************************************************************************)
(* Two contexts in one process: a runs a region of two threads (a root and *)
(* its child), b two regions of one.  Or one region of one thread.         *)
(***************************************************************************)
EXTENDS SpawnPool, TLC

CONSTANTS a, b

MCSize == a :> 2 @@ b :> 1
MCRegions == a :> 1 @@ b :> 2

MCOneSize == b :> 1
MCOneRegion == b :> 1
=============================================================================
