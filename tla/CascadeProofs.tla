--------------------------- MODULE CascadeProofs ---------------------------
(***************************************************************************)
(* Proofs about the lesson-completion cascade, for every content, every    *)
(* set of users and any number of concurrent requests.                     *)
(***************************************************************************)
EXTENDS CascadeInvariant, FiniteSetTheorems, TLAPS

-----------------------------------------------------------------------------
(* Type correctness *)

(***************************************************************************)
(* The rows a request is about exist in the content.                       *)
(***************************************************************************)
LEMMA RequestRows ==
  ASSUME TypeOK, NEW r \in Requests, pc[r] # "idle"
  PROVE  /\ U(r) \in Users
         /\ L(r) \in Lessons
         /\ S(r) \in Sections
         /\ C(r) \in Courses
         /\ InPath(r) => P(r) \in Paths
<1>1. arg[r] \in Args
  BY DEF TypeOK
<1>2. U(r) \in Users /\ L(r) \in Lessons
  BY <1>1 DEF Args, U, L
<1>3. S(r) \in Sections
  BY <1>2, ContentAssumption DEF S
<1>4. C(r) \in Courses
  BY <1>3, ContentAssumption DEF C
<1>5. P(r) \in Paths \cup {NoPath}
  BY <1>4, ContentAssumption DEF P
<1> QED
  BY <1>2, <1>3, <1>4, <1>5 DEF InPath

(***************************************************************************)
(* What the counting statements return is a number: lessons, sections and  *)
(* courses are finite.                                                     *)
(***************************************************************************)
LEMMA CountsAreNumbers ==
  ASSUME NEW r
  PROVE  /\ \A ls \in SUBSET Lessons : Cardinality(DoneLessons(r, ls)) \in Nat
         /\ Cardinality(DoneSections(r)) \in Nat
         /\ Cardinality(DoneCourses(r)) \in Nat
<1>1. ASSUME NEW ls \in SUBSET Lessons
      PROVE  Cardinality(DoneLessons(r, ls)) \in Nat
  <2>1. DoneLessons(r, ls) \in SUBSET Lessons
    BY DEF DoneLessons
  <2> QED
    BY <2>1, FiniteContent, FS_Subset, FS_CardinalityType
<1>2. DoneSections(r) \in SUBSET Sections
  BY DEF DoneSections, SectionsIn
<1>3. DoneCourses(r) \in SUBSET Courses
  BY DEF DoneCourses, CoursesIn
<1> QED
  BY <1>1, <1>2, <1>3, FiniteContent, FS_Subset, FS_CardinalityType

(***************************************************************************)
(* A statement that only reads keeps the types.                            *)
(***************************************************************************)
LEMMA ReadsIntoType ==
  ASSUME TypeInv, NEW r \in Requests, pc[r] # "idle",
         NEW next \in PC, NEW locals \in Locals,
         ReadsInto(r, next, locals), next # "idle",
         next \in PathStatements \/ locals.pathCert => InPath(r)
  PROVE  TypeInv'
<1>1. /\ pc' = [pc EXCEPT ![r] = next]
      /\ local' = [local EXCEPT ![r] = locals]
      /\ UNCHANGED <<tables, arg, own, issued, analytics>>
  BY DEF ReadsInto, Goto
<1>2. TypeOK'
  BY <1>1 DEF TypeInv, TypeOK, TablesTypeOK, tables, enrollmentTables,
              progressTables
<1>3. ASSUME NEW q \in Requests PROVE PathOnly(q)'
  BY <1>1, <1>3 DEF TypeInv, TypeOK, PathOnly, InPath, P, C, S, L
<1> QED
  BY <1>2, <1>3 DEF TypeInv

(***************************************************************************)
(* So does a statement that writes a row.                                  *)
(***************************************************************************)
LEMMA WritesRowType ==
  ASSUME TypeInv, NEW r \in Requests, pc[r] # "idle",
         NEW row, NEW next \in PC, NEW writes \in Writes,
         WritesRow(r, row, next, writes), UNCHANGED analytics,
         next # "idle", next \in PathStatements \/ writes.pathCert => InPath(r)
  PROVE  TypeInv'
<1>1. /\ pc' = [pc EXCEPT ![r] = next]
      /\ own' = [own EXCEPT ![r] = writes]
      /\ rowLock' = [rowLock EXCEPT ![row] = r]
      /\ UNCHANGED <<enrollmentTables, progressTables, arg, local, issued,
                     analytics>>
  BY DEF WritesRow, Goto, Lock
<1>2. rowLock' \in [Rows -> Transactions \cup {Free}]
  BY <1>1, RequestsAssumption DEF TypeInv, TypeOK, TablesTypeOK
<1>3. TypeOK'
  BY <1>1, <1>2 DEF TypeInv, TypeOK, TablesTypeOK, enrollmentTables,
                    progressTables
<1>4. ASSUME NEW q \in Requests PROVE PathOnly(q)'
  BY <1>1, <1>4 DEF TypeInv, TypeOK, PathOnly, InPath, P, C, S, L
<1> QED
  BY <1>3, <1>4 DEF TypeInv

(***************************************************************************)
(* So does the end of a request, once the committed tables do.             *)
(***************************************************************************)
LEMMA FinishType ==
  ASSUME TypeInv, NEW r \in Requests, TablesTypeOK',
         NEW certificates \in SUBSET Certificates,
         Finish(r, certificates), UNCHANGED analytics
  PROVE  TypeInv'
<1>1. /\ pc' = [pc EXCEPT ![r] = "idle"]
      /\ arg' = [arg EXCEPT ![r] = NoRow]
      /\ local' = [local EXCEPT ![r] = NoLocals]
      /\ own' = [own EXCEPT ![r] = NoWrites]
      /\ issued' = [issued EXCEPT ![r] = certificates]
      /\ UNCHANGED analytics
  BY DEF Finish, Goto
<1>2. NoLocals \in Locals /\ NoWrites \in Writes
  BY DEF NoLocals, NoWrites, Locals, Writes, Captured
<1>3. TypeOK'
  BY <1>1, <1>2 DEF TypeInv, TypeOK, PC
<1>4. ASSUME NEW q \in Requests PROVE PathOnly(q)'
  BY <1>1, <1>4 DEF TypeInv, TypeOK, PathOnly, InPath, P, C, S, L, PathStatements,
                    NoLocals, NoWrites
<1> QED
  BY <1>3, <1>4 DEF TypeInv

(***************************************************************************)
(* Releasing locks keeps the type of the lock table.                       *)
(***************************************************************************)
LEMMA UnlockType ==
  ASSUME TablesTypeOK, NEW r, Unlock(r)
  PROVE  rowLock' \in [Rows -> Transactions \cup {Free}]
BY DEF TablesTypeOK, Unlock

(***************************************************************************)
(* A rollback keeps the types.                                             *)
(***************************************************************************)
LEMMA RollbackType ==
  ASSUME TypeInv, NEW r \in Requests, Rollback(r)
  PROVE  TypeInv'
<1>1. UNCHANGED <<enrollmentTables, progressTables>> /\ Unlock(r)
  BY DEF Rollback
<1>2. TablesTypeOK'
  BY <1>1, UnlockType DEF TypeInv, TypeOK, TablesTypeOK, enrollmentTables,
                          progressTables
<1>3. Finish(r, {}) /\ UNCHANGED analytics
  BY DEF Rollback
<1> QED
  BY <1>2, <1>3, FinishType

(***************************************************************************)
(* So does an answer that touches no table.                                *)
(***************************************************************************)
LEMMA AnswerType ==
  ASSUME TypeInv, NEW r \in Requests, Finish(r, {}),
         UNCHANGED <<tables, analytics>>
  PROVE  TypeInv'
<1>1. TablesTypeOK'
  BY DEF TypeInv, TypeOK, TablesTypeOK, tables, enrollmentTables,
         progressTables
<1> QED
  BY <1>1, FinishType

(***************************************************************************)
(* The tables a committing transaction publishes have their types.         *)
(***************************************************************************)
LEMMA CommitType ==
  ASSUME TypeInv, NEW r \in Requests, Commit(r)
  PROVE  TypeInv'
<1> USE DEF TypeInv
<1>1. pc[r] = "commit" /\ pc[r] # "idle"
  BY DEF Commit
<1>2. /\ U(r) \in Users /\ L(r) \in Lessons /\ S(r) \in Sections
      /\ C(r) \in Courses /\ (InPath(r) => P(r) \in Paths)
  BY <1>1, RequestRows
<1>3. own[r] \in Writes /\ local[r] \in Locals /\ PathOnly(r)
  BY DEF TypeOK
<1>4. lessonProgress' \subseteq Users \X Lessons
  BY <1>2 DEF Commit, SeenLessons, TypeOK, TablesTypeOK
<1>5. sectionProgress' \in [Users \X Sections -> Nat \cup {NoRow}]
  BY <1>2, <1>3 DEF Commit, SeenSections, Writes, TypeOK, TablesTypeOK
<1>6. courseProgress' \in [Users \X Courses -> Nat \cup {NoRow}]
  BY <1>2, <1>3 DEF Commit, SeenCourses, Writes, TypeOK, TablesTypeOK
<1>7. pathProgress' \in [Users \X Paths -> Nat \cup {NoRow}]
  BY <1>2, <1>3 DEF Commit, SeenPaths, Writes, TypeOK, TablesTypeOK
<1>8. lastPosition' \in [Users \X Scopes -> Lessons \cup {NoRow}]
  BY <1>2, <1>3 DEF Commit, SeenPositions, Writes, TypeOK, TablesTypeOK
<1>9. courseCertificate' \subseteq Users \X Courses
  BY <1>2 DEF Commit, SeenCourseCerts, TypeOK, TablesTypeOK
<1>10. pathCertificate' \subseteq Users \X Paths
  BY <1>2, <1>3 DEF Commit, SeenPathCerts, PathOnly, TypeOK, TablesTypeOK
<1>11. rowLock' \in [Rows -> Transactions \cup {Free}]
  BY UnlockType DEF Commit, TypeOK
<1>12. UNCHANGED enrollmentTables
  BY DEF Commit
<1>13. TablesTypeOK'
  BY <1>4, <1>5, <1>6, <1>7, <1>8, <1>9, <1>10, <1>11, <1>12
     DEF TypeOK, TablesTypeOK, enrollmentTables
<1>14. CertificatesIssued(r) \in SUBSET Certificates
  BY <1>2, <1>3 DEF CertificatesIssued, Certificates, PathOnly
<1>15. Finish(r, CertificatesIssued(r)) /\ UNCHANGED analytics
  BY DEF Commit
<1> QED
  BY <1>13, <1>14, <1>15, FinishType

(***************************************************************************)
(* A step that only moves on keeps the types.                              *)
(***************************************************************************)
LEMMA GotoType ==
  ASSUME TypeInv, NEW r \in Requests, pc[r] # "idle", NEW next \in PC,
         next # "idle", next \notin PathStatements, Goto(r, next),
         UNCHANGED <<arg, local, own, issued>>, UNCHANGED <<tables, analytics>>
  PROVE  TypeInv'
<1>1. local[r] \in Locals /\ PathOnly(r)
  BY DEF TypeInv, TypeOK
<1>2. ReadsInto(r, next, local[r])
  BY DEF ReadsInto, TypeInv, TypeOK
<1> QED
  BY <1>1, <1>2, ReadsIntoType DEF PathOnly

(***************************************************************************)
(* So does the INSERT of a certificate.                                    *)
(***************************************************************************)
LEMMA IssueType ==
  ASSUME TypeInv, NEW r \in Requests, pc[r] # "idle",
         NEW next \in PC, NEW row, NEW locals \in Locals, NEW writes \in Writes,
         NEW event \in Certificates,
         Lock(r, row), Goto(r, next),
         own' = [own EXCEPT ![r] = writes],
         local' = [local EXCEPT ![r] = locals],
         analytics' = analytics \cup {event},
         UNCHANGED <<enrollmentTables, progressTables, arg, issued>>,
         next # "idle",
         next \in PathStatements \/ locals.pathCert \/ writes.pathCert => InPath(r)
  PROVE  TypeInv'
<1>1. rowLock' \in [Rows -> Transactions \cup {Free}]
  BY RequestsAssumption DEF TypeInv, TypeOK, TablesTypeOK, Lock
<1>2. TypeOK'
  BY <1>1 DEF TypeInv, TypeOK, TablesTypeOK, enrollmentTables,
              progressTables, Goto
<1>3. ASSUME NEW q \in Requests PROVE PathOnly(q)'
  BY <1>3 DEF TypeInv, TypeOK, PathOnly, InPath, P, C, S, L, Goto
<1> QED
  BY <1>2, <1>3 DEF TypeInv

(***************************************************************************)
(* Every action keeps the types.                                           *)
(***************************************************************************)
LEMMA StepType ==
  ASSUME TypeInv, NEW r \in Requests, Step(r)
  PROVE  TypeInv'
<1>1. local[r] \in Locals /\ own[r] \in Writes /\ PathOnly(r)
  BY DEF TypeInv, TypeOK
<1>2. TypeOK
  BY DEF TypeInv
<1> USE DEF PC, InTransaction, BeforeTransaction, AfterLessonLock,
            AfterSectionLock, AfterCourseLock, AfterPathLock, PathStatements,
            PathOnly
<1>3. CASE EnrollmentGuard(r)
  <2>1. CASE HasAccessToCourse(U(r), C(r))
    BY <1>2, <1>3, <2>1, GotoType DEF EnrollmentGuard
  <2>2. CASE ~HasAccessToCourse(U(r), C(r))
    BY <1>3, <2>2, AnswerType DEF EnrollmentGuard
  <2> QED
    BY <2>1, <2>2
<1>4. CASE FastPath(r)
  <2>1. CASE <<U(r), L(r)>> \in lessonProgress
    BY <1>4, <2>1, AnswerType DEF FastPath
  <2>2. CASE <<U(r), L(r)>> \notin lessonProgress
    BY <1>2, <1>4, <2>2, GotoType DEF FastPath
  <2> QED
    BY <2>1, <2>2
<1>5. CASE CaptureCourseCert(r)
  <2> DEFINE locals == [local[r] EXCEPT !.preCourse =
                          IF <<U(r), C(r)>> \in courseCertificate
                          THEN "present" ELSE "absent"]
             next == IF InPath(r) /\ locals.prePath = "unread"
                     THEN "capture" ELSE "upsertLesson"
  <2>1. locals \in Locals /\ locals.pathCert = local[r].pathCert
    BY <1>1 DEF Locals, Captured
  <2>2. next \in PC /\ next # "idle" /\ next \notin PathStatements
    OBVIOUS
  <2>3. pc[r] # "idle" /\ ReadsInto(r, next, locals)
    BY <1>5 DEF CaptureCourseCert
  <2> QED
    BY <1>1, <2>1, <2>2, <2>3, ReadsIntoType
<1>6. CASE CapturePathCert(r)
  <2> DEFINE locals == [local[r] EXCEPT !.prePath =
                          IF <<U(r), P(r)>> \in pathCertificate
                          THEN "present" ELSE "absent"]
             next == IF locals.preCourse = "unread"
                     THEN "capture" ELSE "upsertLesson"
  <2>1. locals \in Locals /\ locals.pathCert = local[r].pathCert
    BY <1>1 DEF Locals, Captured
  <2>2. next \in PC /\ next # "idle" /\ next \notin PathStatements
    OBVIOUS
  <2>3. pc[r] # "idle" /\ ReadsInto(r, next, locals)
    BY <1>6 DEF CapturePathCert
  <2> QED
    BY <1>1, <2>1, <2>2, <2>3, ReadsIntoType
<1>7. CASE UpsertLesson(r)
  <2>1. [own[r] EXCEPT !.lesson = TRUE] \in Writes
    BY <1>1 DEF Writes
  <2> QED
    BY <1>1, <1>7, <2>1, WritesRowType DEF UpsertLesson, Writes
<1>8. CASE CountLessons(r)
  <2>1. Cardinality(DoneLessons(r, LessonsIn(S(r)))) \in Nat
    BY CountsAreNumbers DEF LessonsIn
  <2>2. [local[r] EXCEPT !.counted =
           Cardinality(DoneLessons(r, LessonsIn(S(r))))] \in Locals
    BY <1>1, <2>1 DEF Locals
  <2> QED
    BY <1>1, <1>8, <2>2, ReadsIntoType DEF CountLessons, Locals
<1>9. CASE UpsertSection(r)
  <2>1. [own[r] EXCEPT !.section = local[r].counted] \in Writes
    BY <1>1 DEF Writes, Locals
  <2> QED
    BY <1>1, <1>9, <2>1, WritesRowType DEF UpsertSection, Writes
<1>10. CASE CountSections(r)
  <2>1. [local[r] EXCEPT !.counted = Cardinality(DoneSections(r))] \in Locals
    BY <1>1, CountsAreNumbers DEF Locals
  <2> QED
    BY <1>1, <1>10, <2>1, ReadsIntoType DEF CountSections, Locals
<1>11. CASE UpsertCourse(r)
  <2>1. [own[r] EXCEPT !.course = local[r].counted] \in Writes
    BY <1>1 DEF Writes, Locals
  <2> QED
    BY <1>1, <1>11, <2>1, WritesRowType DEF UpsertCourse, Writes
<1>12. CASE CountCourses(r)
  <2>1. [local[r] EXCEPT !.counted = Cardinality(DoneCourses(r))] \in Locals
    BY <1>1, CountsAreNumbers DEF Locals
  <2> QED
    BY <1>1, <1>12, <2>1, ReadsIntoType DEF CountCourses, Locals
<1>13. CASE UpsertPath(r)
  <2>1. [own[r] EXCEPT !.path = local[r].counted] \in Writes
    BY <1>1 DEF Writes, Locals
  <2> QED
    BY <1>1, <1>13, <2>1, WritesRowType DEF UpsertPath, Writes
<1>14. CASE FindScope(r)
  <2>1. pc[r] # "idle"
    BY <1>14 DEF FindScope
  <2>2. C(r) \in Scopes /\ (InPath(r) => P(r) \in Scopes)
    BY <1>2, <2>1, RequestRows DEF Scopes
  <2>3. [local[r] EXCEPT !.scope =
           IF InPath(r) /\ pathEnrollment[<<U(r), P(r)>>] > 0
           THEN P(r) ELSE C(r)] \in Locals
    BY <1>1, <2>2 DEF Locals
  <2> QED
    BY <1>1, <1>14, <2>1, <2>3, ReadsIntoType DEF FindScope, Locals
<1>15. CASE FindPosition(r)
  <2>1. [local[r] EXCEPT !.found =
           lastPosition[<<U(r), local[r].scope>>] # NoRow] \in Locals
    BY <1>1 DEF Locals
  <2> QED
    BY <1>1, <1>15, <2>1, ReadsIntoType DEF FindPosition, Locals
<1>16. ASSUME WritePosition(r), pc[r] = "writePosition"
       PROVE  TypeInv'
  <2>1. [own[r] EXCEPT !.position = TRUE] \in Writes
    BY <1>1 DEF Writes
  <2> QED
    BY <1>1, <1>16, <2>1, WritesRowType DEF WritePosition, Writes
<1>17. CASE UpdatePosition(r)
  BY <1>16, <1>17 DEF UpdatePosition
<1>18. CASE CreatePosition(r)
  BY <1>16, <1>18, RollbackType DEF CreatePosition
<1>19. CASE FindCourseCert(r)
  <2>1. [local[r] EXCEPT !.courseCert = TRUE] \in Locals
    BY <1>1 DEF Locals
  <2> QED
    BY <1>1, <1>19, <2>1, ReadsIntoType
       DEF FindCourseCert, AfterCourseCheck, Locals
<1>20. CASE CountCompleted(r)
  BY <1>1, <1>20, ReadsIntoType DEF CountCompleted, AfterCourseCheck
<1>21. CASE IssueCourseCert(r)
  <2>1. pc[r] # "idle"
    BY <1>21 DEF IssueCourseCert
  <2>2. <<"COURSE", U(r), C(r)>> \in Certificates
    BY <1>2, <2>1, RequestRows DEF Certificates
  <2>3. [own[r] EXCEPT !.courseCert = TRUE] \in Writes
    BY <1>1 DEF Writes
  <2>4. [local[r] EXCEPT !.courseCert = TRUE] \in Locals
    BY <1>1 DEF Locals
  <2>5. CASE <<U(r), C(r)>> \in courseCertificate
    BY <1>21, <2>5, RollbackType DEF IssueCourseCert
  <2>6. CASE <<U(r), C(r)>> \notin courseCertificate
    <3>1. /\ Lock(r, <<"course_certificate", U(r), C(r)>>)
          /\ Goto(r, AfterCourseCheck(r))
          /\ own' = [own EXCEPT ![r] = [own[r] EXCEPT !.courseCert = TRUE]]
          /\ local' = [local EXCEPT ![r] = [local[r] EXCEPT !.courseCert = TRUE]]
          /\ analytics' = analytics \cup {<<"COURSE", U(r), C(r)>>}
          /\ UNCHANGED <<enrollmentTables, progressTables, arg, issued>>
      BY <1>21, <2>6 DEF IssueCourseCert
    <3>2. AfterCourseCheck(r) \in PC /\ AfterCourseCheck(r) # "idle"
      BY DEF AfterCourseCheck
    <3>3. \/ AfterCourseCheck(r) \in PathStatements
          \/ [local[r] EXCEPT !.courseCert = TRUE].pathCert
          \/ [own[r] EXCEPT !.courseCert = TRUE].pathCert
          => InPath(r)
      BY <1>1 DEF AfterCourseCheck, Locals, Writes
    <3> HIDE DEF PC, PathStatements, PathOnly
    <3> QED
      BY <2>1, <2>2, <2>3, <2>4, <3>1, <3>2, <3>3, IssueType
  <2> QED
    BY <2>5, <2>6
<1>22. CASE FindPathCert(r)
  <2>1. [local[r] EXCEPT !.pathCert = TRUE] \in Locals
    BY <1>1 DEF Locals
  <2> QED
    BY <1>1, <1>22, <2>1, ReadsIntoType DEF FindPathCert, Locals
<1>23. CASE FindPathEnrollment(r)
  BY <1>1, <1>23, ReadsIntoType DEF FindPathEnrollment
<1>24. CASE CountCourseCerts(r)
  BY <1>1, <1>24, ReadsIntoType DEF CountCourseCerts
<1>25. CASE IssuePathCert(r)
  <2>1. pc[r] # "idle" /\ InPath(r)
    BY <1>1, <1>25 DEF IssuePathCert
  <2>2. <<"PATH", U(r), P(r)>> \in Certificates
    BY <1>2, <2>1, RequestRows DEF Certificates
  <2>3. [own[r] EXCEPT !.pathCert = TRUE] \in Writes
    BY <1>1 DEF Writes
  <2>4. [local[r] EXCEPT !.pathCert = TRUE] \in Locals
    BY <1>1 DEF Locals
  <2>5. CASE <<U(r), P(r)>> \in pathCertificate
    BY <1>25, <2>5, RollbackType DEF IssuePathCert
  <2>6. CASE <<U(r), P(r)>> \notin pathCertificate
    <3>1. /\ Lock(r, <<"path_certificate", U(r), P(r)>>)
          /\ Goto(r, "commit")
          /\ own' = [own EXCEPT ![r] = [own[r] EXCEPT !.pathCert = TRUE]]
          /\ local' = [local EXCEPT ![r] = [local[r] EXCEPT !.pathCert = TRUE]]
          /\ analytics' = analytics \cup {<<"PATH", U(r), P(r)>>}
          /\ UNCHANGED <<enrollmentTables, progressTables, arg, issued>>
      BY <1>25, <2>6 DEF IssuePathCert
    <3>2. "commit" \in PC
      OBVIOUS
    <3> HIDE DEF PC, PathStatements, PathOnly
    <3> QED
      BY <2>1, <2>2, <2>3, <2>4, <3>1, <3>2, IssueType
  <2> QED
    BY <2>5, <2>6
<1>26. CASE Commit(r)
  BY <1>26, CommitType
<1> QED
  BY <1>3, <1>4, <1>5, <1>6, <1>7, <1>8, <1>9, <1>10, <1>11, <1>12, <1>13,
     <1>14, <1>15, <1>17, <1>18, <1>19, <1>20, <1>21, <1>22, <1>23, <1>24,
     <1>25, <1>26 DEF Step

(***************************************************************************)
(* A new request keeps the types.                                          *)
(***************************************************************************)
LEMMA ClientType ==
  ASSUME TypeInv, NEW r \in Requests, Client(r)
  PROVE  TypeInv'
<1>1. PICK u \in Users, l \in Lessons : Receive(r, u, l)
  BY DEF Client
<1>2. /\ pc[r] = "idle"
      /\ pc' = [pc EXCEPT ![r] = "guard"]
      /\ arg' = [arg EXCEPT ![r] = [user |-> u, lesson |-> l]]
      /\ issued' = [issued EXCEPT ![r] = {}]
      /\ UNCHANGED <<tables, local, own, analytics>>
  BY <1>1 DEF Receive, Goto
<1>3. [user |-> u, lesson |-> l] \in Args
  BY DEF Args
<1>4. TypeOK'
  BY <1>2, <1>3 DEF TypeInv, TypeOK, TablesTypeOK, tables, enrollmentTables,
                    progressTables, PC, BeforeTransaction
<1>5. ASSUME NEW q \in Requests PROVE PathOnly(q)'
  <2>1. CASE q = r
    BY <1>2, <2>1 DEF TypeInv, TypeOK, PathOnly, PathStatements, NoLocals, NoWrites
  <2>2. CASE q # r
    BY <1>2, <2>2 DEF TypeInv, TypeOK, PathOnly, InPath, P, C, S, L
  <2> QED
    BY <2>1, <2>2
<1> QED
  BY <1>4, <1>5 DEF TypeInv

(***************************************************************************)
(* Each step of the cascade keeps the types.                               *)
(***************************************************************************)
LEMMA NextType == TypeInv /\ [Next]_vars => TypeInv'
<1> SUFFICES ASSUME TypeInv, [Next]_vars PROVE TypeInv'
  OBVIOUS
<1>1. ASSUME NEW r \in Requests, Client(r) PROVE TypeInv'
  BY <1>1, ClientType
<1>2. ASSUME NEW r \in Requests, Step(r) PROVE TypeInv'
  BY <1>2, StepType
<1>3. ASSUME NEW r \in Requests, Abort(r) PROVE TypeInv'
  BY <1>3, RollbackType DEF Abort
<1>4. CASE UNCHANGED vars
  BY <1>4 DEF TypeInv, TypeOK, TablesTypeOK, PathOnly, InPath, P, C, S, L,
              vars, tables, enrollmentTables, progressTables, cascadeVars
<1> QED
  BY <1>1, <1>2, <1>3, <1>4 DEF Next

(***************************************************************************)
(* The initial tables and requests are well typed.                         *)
(***************************************************************************)
LEMMA InitType == Init => TypeInv
<1> SUFFICES ASSUME Init PROVE TypeInv
  OBVIOUS
<1>1. PICK paths \in SUBSET (Users \X Paths),
           courses \in SUBSET {k \in Users \X Courses : PathOf[k[2]] = NoPath} :
        SeededBy(paths, courses)
  BY DEF Init
<1>2. TablesTypeOK
  BY <1>1 DEF Init, SeededBy, NothingCompleted, TablesTypeOK
<1>3. CascadeIdle
  BY DEF Init
<1>4. NoLocals \in Locals /\ NoWrites \in Writes
  BY DEF NoLocals, NoWrites, Locals, Writes, Captured
<1>5. TypeOK
  BY <1>2, <1>3, <1>4 DEF CascadeIdle, TypeOK, PC
<1>6. ASSUME NEW r \in Requests PROVE PathOnly(r)
  BY <1>3 DEF CascadeIdle, PathOnly, PathStatements, NoLocals, NoWrites
<1> QED
  BY <1>5, <1>6 DEF TypeInv

(***************************************************************************)
(* Every table, and what every request has read and written, keeps its     *)
(* type; the statements about a path are only reached by requests whose    *)
(* course has one.                                                         *)
(***************************************************************************)
THEOREM TypeCorrect == Spec => []TypeInv
  BY InitType, NextType, PTL DEF Spec

(***************************************************************************)
(* The part of it that the runs check.                                     *)
(***************************************************************************)
THEOREM TypesHold == Spec => []TypeOK
<1>1. TypeInv => TypeOK
  BY DEF TypeInv
<1> QED
  BY <1>1, TypeCorrect, PTL
=============================================================================
