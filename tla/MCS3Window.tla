---------------------------- MODULE MCS3Window ----------------------------
(***************************************************************************)
(* Four row groups: fetched by two requests, by one and a copied suffix,   *)
(* copied whole, and one bigger than the window.                           *)
(***************************************************************************)
EXTENDS S3Window, TLC

MCJobs == <<2, 1, 0, 1>>
MCCopied == {2, 3}
MCBytes == <<2, 2, 1, 5>>
=============================================================================
