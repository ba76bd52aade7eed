----------------------------- MODULE Membership -----------------------------
(***************************************************************************)
(* What registration and onboarding promise for one address: one account,  *)
(* whole from its first moment; one onboarding, of one submission, and one *)
(* onboarding_completed event for it.                                      *)
(***************************************************************************)
EXTENDS Naturals

CONSTANTS Submissions, Nobody

VARIABLES member, answers, announced

Init == member = "none" /\ answers = Nobody /\ announced = 0

Register ==
  /\ member = "none" /\ member' = "registered"
  /\ UNCHANGED <<answers, announced>>

Onboard(s) ==
  /\ member = "registered" /\ member' = "onboarded"
  /\ answers' = s /\ UNCHANGED announced

Announce ==
  /\ member = "onboarded" /\ announced = 0
  /\ announced' = 1 /\ UNCHANGED <<member, answers>>

Next == Register \/ Announce \/ \E s \in Submissions : Onboard(s)

Spec == Init /\ [][Next]_<<member, answers, announced>>
=============================================================================
