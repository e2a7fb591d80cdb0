---------------------------- MODULE MCClaimHistory ----------------------------
(* The worlds of MCClaim with the history of requests. *)
EXTENDS MCClaim, ClaimHistory
=============================================================================
