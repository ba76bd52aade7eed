------------------------------ MODULE Learning ------------------------------
(***************************************************************************)
(* Learners who enroll and complete lessons at the same time: the cascade  *)
(* and the enrollment service over the same tables, starting from nobody   *)
(* enrolled.                                                               *)
(***************************************************************************)
EXTENDS CascadeProperties, EnrollmentProperties

ASSUME DisjointTransactions == Requests \cap Enrollers = {}

allVars == <<vars, enrollVars>>

LearnInit == CascadeIdle /\ EnrollInit

Completing ==
  \E r \in Requests : (Client(r) \/ Step(r) \/ Abort(r)) /\ UNCHANGED enrollVars

Enrolling == EnrollNext /\ UNCHANGED cascadeVars

LearnNext == Completing \/ Enrolling

LearnSpec == LearnInit /\ [][LearnNext]_allVars

-----------------------------------------------------------------------------
(***************************************************************************)
(* A lesson is only ever completed by a learner who is enrolled in its     *)
(* path or course, although EnrollmentGuard reads the enrollment long      *)
(* before the cascade commits.                                             *)
(***************************************************************************)
CompletedOnlyWhenEnrolled ==
  \A k \in lessonProgress : HasAccessToCourse(k[1], CourseOf[SectionOf[k[2]]])

(***************************************************************************)
(* The commit of an enrollment, which seeds progress rows at zero, never   *)
(* resets a row a completion has already written: a retried or doubled     *)
(* enrollment does not lose progress.                                      *)
(***************************************************************************)
SeedsKeepProgress ==
  [][(\E e \in Enrollers : CommitPath(e) \/ CommitCourse(e)) =>
       /\ \A k \in DOMAIN sectionProgress :
            sectionProgress[k] \in {NoRow, sectionProgress'[k]}
       /\ \A k \in DOMAIN courseProgress :
            courseProgress[k] \in {NoRow, courseProgress'[k]}
       /\ \A k \in DOMAIN pathProgress :
            pathProgress[k] \in {NoRow, pathProgress'[k]}]_allVars
=============================================================================
