----------------------- MODULE EnrollmentProperties -----------------------
(***************************************************************************)
(* What enrolling must guarantee when a learner submits twice at once, and *)
(* when a request dies half-way.                                           *)
(***************************************************************************)
EXTENDS Enrollment

(***************************************************************************)
(* At most one enrollment per user and path, although path_enrollments has *)
(* no unique index and the findFirst of the second request may run before  *)
(* the commit of the first: the row seeded in path_progress decides.       *)
(***************************************************************************)
OneEnrollmentPerPath == \A k \in Users \X Paths : pathEnrollment[k] <= 1

(***************************************************************************)
(* Enrollment and seed rows come and go together: the progress row of a    *)
(* path or a standalone course is there exactly when its learner is        *)
(* enrolled, and then so are the rows of the courses of the path or of the *)
(* sections of the course.                                                 *)
(***************************************************************************)
EnrolledIffSeeded ==
  \A u \in Users :
    /\ \A p \in Paths :
         /\ pathEnrollment[<<u, p>>] > 0 <=> pathProgress[<<u, p>>] # NoRow
         /\ \A c \in CoursesIn(p) :
              pathEnrollment[<<u, p>>] > 0
                <=> courseProgress[<<u, c>>] # NoRow
    /\ \A c \in {d \in Courses : PathOf[d] = NoPath} :
         /\ <<u, c>> \in courseEnrollment <=> courseProgress[<<u, c>>] # NoRow
         /\ <<u, c>> \in courseEnrollment =>
              \A s \in SectionsIn(c) : sectionProgress[<<u, s>>] # NoRow

(***************************************************************************)
(* Whoever is refused as already enrolled, with 409 or with the uncaught   *)
(* unique violation, really is: the refusal never comes from a request     *)
(* that then rolled back.                                                  *)
(***************************************************************************)
RefusedOnlyWhenEnrolled ==
  [][\A e \in Enrollers :
       answer'[e] \in {"conflict", "uniqueViolation"} /\ answer[e] = "none" =>
         IF Scope(e) \in Paths
         THEN pathEnrollment[<<Learner(e), Scope(e)>>] > 0
         ELSE <<Learner(e), Scope(e)>> \in courseEnrollment]_evars

(***************************************************************************)
(* Every enrollment request is answered: two double submits wait for one   *)
(* row at a time, in the order path or enrollment row first.               *)
(***************************************************************************)
EnrollAnswered ==
  \A e \in Enrollers : step[e] # "idle" ~> step[e] = "idle"

(***************************************************************************)
(* "Enrollment is one-per-(user, path).  A second call for the same pair   *)
(* is rejected with 409 Conflict": never with anything else.               *)
(***************************************************************************)
DoubleEnrollIsConflict ==
  \A e \in Enrollers : answer[e] # "uniqueViolation"
=============================================================================
