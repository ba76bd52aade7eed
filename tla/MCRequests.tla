---------------------------- MODULE MCRequests ----------------------------
(***************************************************************************)
(* The requests of one learner, either completions or enrollments, several *)
(* at once, over a path of two courses of one lesson each and a standalone *)
(* course with two sections.                                               *)
(***************************************************************************)
EXTENDS Learning, TLC

CONSTANTS l1, l2, s1, s2, s3, s4, c1, c2, c3, p1

TheSectionOf == l1 :> s1 @@ l2 :> s2
TheCourseOf == s1 :> c1 @@ s2 :> c2 @@ s3 :> c3 @@ s4 :> c3
ThePathOf == c1 :> p1 @@ c2 :> p1 @@ c3 :> NoPath

VARIABLE kind  \* which requests this learner makes

\* No lesson belongs to the standalone course: it is there to be enrolled in.
RequestsInit ==
  \/ kind = "completing" /\ Init /\ courseEnrollment = {} /\ EnrollersIdle
  \/ kind = "enrolling" /\ LearnInit

RequestsNext ==
  /\ UNCHANGED kind
  /\ \/ kind = "completing" /\ Completing
     \/ kind = "enrolling" /\ Enrolling

RequestsSpec ==
  RequestsInit /\ [][RequestsNext]_<<allVars, kind>> /\ Fairness /\ EnrollFairness
=============================================================================
