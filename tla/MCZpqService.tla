---------------------------- MODULE MCZpqService ----------------------------
(***************************************************************************)
(* One connection, one more thread that calls, one Arrow reader that its   *)
(* user and its iterator may both close, and two that close the context.   *)
(* A ceiling of one with budgets of one and two: one query of one fits at  *)
(* a time, the next queues behind it, and two is refused.                  *)
(***************************************************************************)
EXTENDS ZpqService
CONSTANTS h, c, r, main, other
=============================================================================
