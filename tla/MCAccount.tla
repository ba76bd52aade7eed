----------------------------- MODULE MCAccount -----------------------------
(***************************************************************************)
(* Three requests on one account; two failures lock it for two ticks.  The *)
(* requests are not symmetric here: LockEnds is a liveness property.       *)
(***************************************************************************)
EXTENDS Account
=============================================================================
