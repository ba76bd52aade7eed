---------------------------- MODULE MCEmailCodes ----------------------------
(***************************************************************************)
(* Two senders, one of them register's own, and two verifiers of one user. *)
(***************************************************************************)
EXTENDS EmailCodes, TLC

Symmetry == Permutations(Callers) \cup Permutations(Verifiers)
=============================================================================
