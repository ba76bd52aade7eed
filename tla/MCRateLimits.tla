---------------------------- MODULE MCRateLimits ----------------------------
(***************************************************************************)
(* Three callers of one address from two ips, with windows of a few ticks. *)
(***************************************************************************)
EXTENDS RateLimits, TLC

Symmetry == Permutations(Callers) \cup Permutations(Emails) \cup Permutations(Ips)
=============================================================================
