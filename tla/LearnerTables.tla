--------------------------- MODULE LearnerTables ---------------------------
(***************************************************************************)
(* The PostgreSQL tables a learner's requests read and write, as other     *)
(* transactions see them (COMMITTED rows only: every transaction runs at   *)
(* the default READ COMMITTED level), and the row locks that uncommitted   *)
(* writes hold.  Modules that model a service EXTEND this one, so that     *)
(* services which share tables compose over the same variables.            *)
(*                                                                         *)
(* A progress row is represented by what it counted.  Its total is a       *)
(* constant of the content and its status is DeriveStatus of the two; its  *)
(* percentage, which nothing decides on, is left out.                      *)
(* A lessonProgress row is only ever written COMPLETED, so the table is a  *)
(* set.  An enrollment is only ever written ACTIVE.                        *)
(***************************************************************************)
EXTENDS Content

CONSTANTS Transactions, \* the requests that may hold row locks
          NoRow,        \* no row with this key
          Free          \* a row lock nobody holds

ASSUME SentinelAssumption ==
  /\ NoRow \notin Nat
  /\ NoRow \notin Lessons
  /\ Free \notin Transactions

VARIABLES
  pathEnrollment,     \* [user, path]: how many rows (no unique index)
  courseEnrollment,   \* the [user, course] rows (unique)
  lessonProgress,     \* the [user, lesson] rows, all COMPLETED
  sectionProgress,    \* [user, section]: completedLessons, or NoRow
  courseProgress,     \* [user, course]: completedSections, or NoRow
  pathProgress,       \* [user, path]: completedCourses, or NoRow
  lastPosition,       \* [user, scope]: lesson, or NoRow
  courseCertificate,  \* the [user, course] certificates of type COURSE
  pathCertificate,    \* the [user, path] certificates of type PATH
  rowLock             \* row: the request whose open transaction wrote it

enrollmentTables == <<pathEnrollment, courseEnrollment>>
progressTables ==
  <<lessonProgress, sectionProgress, courseProgress, pathProgress,
    lastPosition, courseCertificate, pathCertificate>>
tables == <<enrollmentTables, progressTables, rowLock>>

-----------------------------------------------------------------------------
\* What a lock is held on: a unique key of a table.
Rows ==
  ({"lesson_progress"} \X Users \X Lessons)
  \cup ({"section_progress"} \X Users \X Sections)
  \cup ({"course_progress", "course_enrollments", "course_certificate"}
          \X Users \X Courses)
  \cup ({"path_progress", "path_certificate"} \X Users \X Paths)
  \cup ({"last_positions"} \X Users \X Scopes)

\* The row can be written by r: nobody else has an uncommitted write on it.
\* INSERT, UPDATE and INSERT .. ON CONFLICT DO UPDATE all wait for that.
Lockable(r, row) == rowLock[row] \in {Free, r}

Lock(r, row) == rowLock' = [rowLock EXCEPT ![row] = r]

\* The end of a transaction, committed or rolled back.
Unlock(r) ==
  rowLock' = [row \in Rows |-> IF rowLock[row] = r THEN Free ELSE rowLock[row]]

-----------------------------------------------------------------------------
\* EnrollmentService.hasAccessToCourse
HasAccessToCourse(u, c) ==
  IF PathOf[c] # NoPath THEN pathEnrollment[<<u, PathOf[c]>>] > 0
                        ELSE <<u, c>> \in courseEnrollment

TablesTypeOK ==
  /\ pathEnrollment \in [Users \X Paths -> Nat]
  /\ courseEnrollment \subseteq Users \X Courses
  /\ lessonProgress \subseteq Users \X Lessons
  /\ sectionProgress \in [Users \X Sections -> Nat \cup {NoRow}]
  /\ courseProgress \in [Users \X Courses -> Nat \cup {NoRow}]
  /\ pathProgress \in [Users \X Paths -> Nat \cup {NoRow}]
  /\ lastPosition \in [Users \X Scopes -> Lessons \cup {NoRow}]
  /\ courseCertificate \subseteq Users \X Courses
  /\ pathCertificate \subseteq Users \X Paths
  /\ rowLock \in [Rows -> Transactions \cup {Free}]

\* No learner has completed anything; nothing is locked.
NothingCompleted ==
  /\ lessonProgress = {}
  /\ lastPosition = [k \in Users \X Scopes |-> NoRow]
  /\ courseCertificate = {}
  /\ pathCertificate = {}
  /\ rowLock = [row \in Rows |-> Free]
=============================================================================
