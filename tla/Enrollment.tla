---------------------------- MODULE Enrollment ----------------------------
(***************************************************************************)
(* EnrollmentService.enrollInPath and enrollInCourse: one transaction that *)
(* records the enrollment and seeds the progress rows at zero.  A learner  *)
(* may submit twice at once.  A request is about a path or about a course. *)
(* What a transaction has inserted is given by where it is, so its rows    *)
(* are published together by its commit.                                   *)
(***************************************************************************)
EXTENDS LearnerTables

CONSTANT Enrollers    \* concurrent enrollment requests

ASSUME EnrollersAssumption == Enrollers \subseteq Transactions

VARIABLES
  step,     \* the statement the request executes next
  target,   \* [user, scope] of the request
  todo,     \* the courses or sections its seeding loop has left
  answer    \* how the last request of this slot was answered

enrollVars == <<step, target, todo, answer>>
evars == <<tables, enrollVars>>

PathSteps == {"createPathProgress", "createCourseRows", "commitPath"}
CourseSteps == {"createCourseProgress", "createSectionRows", "commitCourse"}
OpenSteps == {"findEnrollment", "createCourseEnrollment"}
               \cup PathSteps \cup CourseSteps

-----------------------------------------------------------------------------
Learner(e) == target[e].user
Scope(e) == target[e].scope

Continue(e, next, left) ==
  /\ step' = [step EXCEPT ![e] = next]
  /\ todo' = [todo EXCEPT ![e] = left]
  /\ UNCHANGED <<target, answer>>

Reply(e, how) ==
  /\ step' = [step EXCEPT ![e] = "idle"]
  /\ todo' = [todo EXCEPT ![e] = {}]
  /\ target' = [target EXCEPT ![e] = NoRow]
  /\ answer' = [answer EXCEPT ![e] = how]

\* (mutated form: the transaction is left open)
Throw_KeepsLocks(e, how) == Reply(e, how) /\ UNCHANGED tables

\* The transaction throws: it rolls back and the request is answered.
Throw(e, how) ==
  /\ Unlock(e)
  /\ Reply(e, how)
  /\ UNCHANGED <<enrollmentTables, progressTables>>

\* (mutated forms: an upsert where the code creates; a pending row of another
\* transaction taken for a committed one)
Insert_Upserts(e, row, taken, next, left, error) ==
  /\ Lockable(e, row)
  /\ Lock(e, row)
  /\ Continue(e, next, left)
  /\ UNCHANGED <<enrollmentTables, progressTables>>

Insert_RefusesPending(e, row, taken, next, left, error) ==
  IF taken \/ ~Lockable(e, row)
  THEN Throw(e, error)
  ELSE /\ Lock(e, row)
       /\ Continue(e, next, left)
       /\ UNCHANGED <<enrollmentTables, progressTables>>

\* INSERT under a unique key: waits for an open transaction that wrote the
\* key, fails on a committed row.
Insert(e, row, taken, next, left, error) ==
  /\ Lockable(e, row)
  /\ IF taken
     THEN Throw(e, error)
     ELSE /\ Lock(e, row)
          /\ Continue(e, next, left)
          /\ UNCHANGED <<enrollmentTables, progressTables>>

-----------------------------------------------------------------------------
(* enrollInPath *)

SubmitPath(e, u, p) ==
  /\ step[e] = "idle"
  /\ step' = [step EXCEPT ![e] = "findEnrollment"]
  /\ target' = [target EXCEPT ![e] = [user |-> u, scope |-> p]]
  /\ answer' = [answer EXCEPT ![e] = "none"]
  /\ UNCHANGED <<tables, todo>>

\* findFirst decides alone whether this is a double enrollment.  The INSERT
\* that follows meets no unique index and waits for nobody.
FindEnrollment(e) ==
  /\ step[e] = "findEnrollment"
  /\ IF pathEnrollment[<<Learner(e), Scope(e)>>] > 0
     THEN Throw(e, "conflict")
     ELSE Continue(e, "createPathProgress", {}) /\ UNCHANGED tables

CreatePathProgress(e) ==
  /\ step[e] = "createPathProgress"
  /\ Insert(e, <<"path_progress", Learner(e), Scope(e)>>,
            pathProgress[<<Learner(e), Scope(e)>>] # NoRow,
            IF CoursesIn(Scope(e)) = {} THEN "commitPath"
                                        ELSE "createCourseRows",
            CoursesIn(Scope(e)), "uniqueViolation")

CreateCourseRow(e) ==
  /\ step[e] = "createCourseRows"
  /\ \E c \in todo[e] :
       Insert(e, <<"course_progress", Learner(e), c>>,
              courseProgress[<<Learner(e), c>>] # NoRow,
              IF todo[e] = {c} THEN "commitPath" ELSE "createCourseRows",
              todo[e] \ {c}, "uniqueViolation")

\* (mutated form: the courses of the path are not seeded)
CommitPath_PathRowOnly(e) ==
  LET u == Learner(e)
      p == Scope(e)
  IN  /\ step[e] = "commitPath"
      /\ pathEnrollment' = [pathEnrollment EXCEPT ![<<u, p>>] = @ + 1]
      /\ pathProgress' = [pathProgress EXCEPT ![<<u, p>>] = 0]
      /\ Unlock(e)
      /\ Reply(e, "enrolled")
      /\ UNCHANGED <<courseEnrollment, lessonProgress, sectionProgress,
                     courseProgress, lastPosition, courseCertificate,
                     pathCertificate>>

CommitPath(e) ==
  LET u == Learner(e)
      p == Scope(e)
  IN  /\ step[e] = "commitPath"
      /\ pathEnrollment' = [pathEnrollment EXCEPT ![<<u, p>>] = @ + 1]
      /\ pathProgress' = [pathProgress EXCEPT ![<<u, p>>] = 0]
      /\ courseProgress' =
           [k \in DOMAIN courseProgress |->
              IF k[1] = u /\ PathOf[k[2]] = p THEN 0 ELSE courseProgress[k]]
      /\ Unlock(e)
      /\ Reply(e, "enrolled")
      /\ UNCHANGED <<courseEnrollment, lessonProgress, sectionProgress,
                     lastPosition, courseCertificate, pathCertificate>>

-----------------------------------------------------------------------------
(* enrollInCourse: P2002 of any of its INSERTs is answered as a conflict *)

SubmitCourse(e, u, c) ==
  /\ step[e] = "idle"
  /\ step' = [step EXCEPT ![e] = "findCourse"]
  /\ target' = [target EXCEPT ![e] = [user |-> u, scope |-> c]]
  /\ answer' = [answer EXCEPT ![e] = "none"]
  /\ UNCHANGED <<tables, todo>>

FindCourse(e) ==
  /\ step[e] = "findCourse"
  /\ IF PathOf[Scope(e)] # NoPath
     THEN Throw(e, "belongsToPath")
     ELSE Continue(e, "createCourseEnrollment", {}) /\ UNCHANGED tables

CreateCourseEnrollment(e) ==
  /\ step[e] = "createCourseEnrollment"
  /\ Insert(e, <<"course_enrollments", Learner(e), Scope(e)>>,
            <<Learner(e), Scope(e)>> \in courseEnrollment,
            "createCourseProgress", {}, "conflict")

CreateCourseProgress(e) ==
  /\ step[e] = "createCourseProgress"
  /\ Insert(e, <<"course_progress", Learner(e), Scope(e)>>,
            courseProgress[<<Learner(e), Scope(e)>>] # NoRow,
            IF SectionsIn(Scope(e)) = {} THEN "commitCourse"
                                         ELSE "createSectionRows",
            SectionsIn(Scope(e)), "conflict")

CreateSectionRow(e) ==
  /\ step[e] = "createSectionRows"
  /\ \E s \in todo[e] :
       Insert(e, <<"section_progress", Learner(e), s>>,
              sectionProgress[<<Learner(e), s>>] # NoRow,
              IF todo[e] = {s} THEN "commitCourse" ELSE "createSectionRows",
              todo[e] \ {s}, "conflict")

CommitCourse(e) ==
  LET u == Learner(e)
      c == Scope(e)
  IN  /\ step[e] = "commitCourse"
      /\ courseEnrollment' = courseEnrollment \cup {<<u, c>>}
      /\ courseProgress' = [courseProgress EXCEPT ![<<u, c>>] = 0]
      /\ sectionProgress' =
           [k \in DOMAIN sectionProgress |->
              IF k[1] = u /\ CourseOf[k[2]] = c THEN 0 ELSE sectionProgress[k]]
      /\ Unlock(e)
      /\ Reply(e, "enrolled")
      /\ UNCHANGED <<pathEnrollment, lessonProgress, pathProgress,
                     lastPosition, courseCertificate, pathCertificate>>

\* Timeout, lost connection, crash: nothing of the transaction remains.
AbortEnroll(e) == step[e] \in OpenSteps /\ Throw(e, "aborted")

-----------------------------------------------------------------------------
\* Nobody is enrolled and there is no progress row.
NobodyEnrolled ==
  /\ pathEnrollment = [k \in Users \X Paths |-> 0]
  /\ courseEnrollment = {}
  /\ sectionProgress = [k \in Users \X Sections |-> NoRow]
  /\ courseProgress = [k \in Users \X Courses |-> NoRow]
  /\ pathProgress = [k \in Users \X Paths |-> NoRow]
  /\ NothingCompleted

EnrollersIdle ==
  /\ step = [e \in Enrollers |-> "idle"]
  /\ target = [e \in Enrollers |-> NoRow]
  /\ todo = [e \in Enrollers |-> {}]
  /\ answer = [e \in Enrollers |-> "none"]

EnrollInit == NobodyEnrolled /\ EnrollersIdle

EnrollStep(e) ==
  \/ FindEnrollment(e) \/ CreatePathProgress(e) \/ CreateCourseRow(e)
  \/ CommitPath(e)
  \/ FindCourse(e) \/ CreateCourseEnrollment(e) \/ CreateCourseProgress(e)
  \/ CreateSectionRow(e) \/ CommitCourse(e)

Submit(e) ==
  \/ \E u \in Users, p \in Paths : SubmitPath(e, u, p)
  \/ \E u \in Users, c \in Courses : SubmitCourse(e, u, c)

EnrollNext == \E e \in Enrollers : Submit(e) \/ EnrollStep(e) \/ AbortEnroll(e)

EnrollSpec == EnrollInit /\ [][EnrollNext]_evars

\* As for the cascade: row locks are granted in turn, requests execute.
EnrollFairness == \A e \in Enrollers : SF_evars(EnrollStep(e))
=============================================================================
