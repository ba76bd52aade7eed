------------------------------ MODULE Cascade ------------------------------
(***************************************************************************)
(* POST /learning/lessons/:lessonId/complete: the guards of the route,     *)
(* ProgressService.completeLesson and the certificate checks it makes, one *)
(* action per statement sent to the database, so that the requests of a    *)
(* learner interleave as they do at READ COMMITTED.                        *)
(*                                                                         *)
(* A statement of an open transaction sees the committed rows overlaid     *)
(* with the transaction's own writes (the Seen.. operators); a write waits *)
(* for the other transaction that wrote the row; Commit publishes the      *)
(* writes and releases the locks, Rollback drops them.                     *)
(***************************************************************************)
EXTENDS LearnerTables

CONSTANT Requests    \* concurrent lesson completions, one transaction each

ASSUME RequestsAssumption == Requests \subseteq Transactions

VARIABLES
  pc,        \* the statement the request executes next
  arg,       \* [user, lesson] of the request
  local,     \* what the request has read
  own,       \* what its open transaction has written
  issued,    \* the certificatesIssued the last response listed
  analytics  \* the certificate_issued events captured so far

cascadeVars == <<pc, arg, local, own, issued, analytics>>
vars == <<tables, cascadeVars>>

-----------------------------------------------------------------------------
(* Types *)

\* The statements of the transaction from the first write to the last check,
\* named for what they do.
AfterPathLock ==
  {"findScope", "findPosition", "writePosition",
   "findCourseCert", "countCompleted", "issueCourseCert",
   "findPathCert", "findPathEnrollment", "countCourseCerts", "issuePathCert",
   "commit"}
AfterCourseLock == {"countCourses", "upsertPath"} \cup AfterPathLock
AfterSectionLock == {"countSections", "upsertCourse"} \cup AfterCourseLock
AfterLessonLock == {"countLessons", "upsertSection"} \cup AfterSectionLock
InTransaction == {"upsertLesson"} \cup AfterLessonLock
BeforeTransaction == {"guard", "fastPath", "capture"}

PC == {"idle"} \cup BeforeTransaction \cup InTransaction

Captured == {"unread", "absent", "present"}

\* preCourse, prePath: the certificates found before the transaction opened.
\* counted: the last COUNT.  scope, found: where the last position goes and
\* whether it has a row.  courseCert, pathCert: a certificate was returned.
Locals == [preCourse : Captured, prePath : Captured, counted : Nat,
           scope : Scopes \cup {NoRow}, found : BOOLEAN,
           courseCert : BOOLEAN, pathCert : BOOLEAN]

Writes == [lesson : BOOLEAN,
           section : Nat \cup {NoRow}, course : Nat \cup {NoRow},
           path : Nat \cup {NoRow}, position : BOOLEAN,
           courseCert : BOOLEAN, pathCert : BOOLEAN]

NoLocals == [preCourse |-> "unread", prePath |-> "unread", counted |-> 0,
             scope |-> NoRow, found |-> FALSE,
             courseCert |-> FALSE, pathCert |-> FALSE]

NoWrites == [lesson |-> FALSE, section |-> NoRow, course |-> NoRow,
             path |-> NoRow, position |-> FALSE,
             courseCert |-> FALSE, pathCert |-> FALSE]

Args == [user : Users, lesson : Lessons]

\* A certificate as a response lists it and an analytics event names it.
Certificates ==
  ({"COURSE"} \X Users \X Courses) \cup ({"PATH"} \X Users \X Paths)

TypeOK ==
  /\ TablesTypeOK
  /\ pc \in [Requests -> PC]
  /\ arg \in [Requests -> Args \cup {NoRow}]
  /\ \A r \in Requests : pc[r] # "idle" => arg[r] \in Args
  /\ local \in [Requests -> Locals]
  /\ own \in [Requests -> Writes]
  /\ issued \in [Requests -> SUBSET Certificates]
  /\ analytics \subseteq Certificates

-----------------------------------------------------------------------------
(* The rows a request is about, and its transaction's view of the tables *)

U(r) == arg[r].user
L(r) == arg[r].lesson
S(r) == SectionOf[L(r)]
C(r) == CourseOf[S(r)]
P(r) == PathOf[C(r)]
InPath(r) == P(r) # NoPath

SeenLessons(r) ==
  lessonProgress \cup (IF own[r].lesson THEN {<<U(r), L(r)>>} ELSE {})

SeenSections(r) ==
  IF own[r].section = NoRow THEN sectionProgress
  ELSE [sectionProgress EXCEPT ![<<U(r), S(r)>>] = own[r].section]

SeenCourses(r) ==
  IF own[r].course = NoRow THEN courseProgress
  ELSE [courseProgress EXCEPT ![<<U(r), C(r)>>] = own[r].course]

SeenPaths(r) ==
  IF own[r].path = NoRow THEN pathProgress
  ELSE [pathProgress EXCEPT ![<<U(r), P(r)>>] = own[r].path]

SeenPositions(r) ==
  IF ~own[r].position THEN lastPosition
  ELSE [lastPosition EXCEPT ![<<U(r), local[r].scope>>] = L(r)]

SeenCourseCerts(r) ==
  courseCertificate \cup
    (IF own[r].courseCert THEN {<<U(r), C(r)>>} ELSE {})

SeenPathCerts(r) ==
  pathCertificate \cup (IF own[r].pathCert THEN {<<U(r), P(r)>>} ELSE {})

\* (mutated forms: counted outside the transaction, on committed rows only)
DoneLessons_Committed(r, ls) == {l \in ls : <<U(r), l>> \in lessonProgress}

DoneSections_Committed(r) ==
  {s \in SectionsIn(C(r)) :
     LET row == sectionProgress[<<U(r), s>>]
     IN  /\ row # NoRow
         /\ DeriveStatus(row, Cardinality(LessonsIn(s))) = "COMPLETED"}

CertifiedCourses_Committed(r) ==
  {c \in CoursesIn(P(r)) : <<U(r), c>> \in courseCertificate}

\* (mutated form: counts every section that has been started)
DoneSections_Started(r) ==
  {s \in SectionsIn(C(r)) : SeenSections(r)[<<U(r), s>>] \notin {NoRow, 0}}

\* The rows the three recalculations count.
DoneLessons(r, ls) == {l \in ls : <<U(r), l>> \in SeenLessons(r)}

DoneSections(r) ==
  {s \in SectionsIn(C(r)) :
     LET row == SeenSections(r)[<<U(r), s>>]
     IN  /\ row # NoRow
         /\ DeriveStatus(row, Cardinality(LessonsIn(s))) = "COMPLETED"}

DoneCourses(r) ==
  {c \in CoursesIn(P(r)) :
     LET row == SeenCourses(r)[<<U(r), c>>]
     IN  /\ row # NoRow
         /\ DeriveStatus(row, Cardinality(SectionsIn(c))) = "COMPLETED"}

CertifiedCourses(r) ==
  {c \in CoursesIn(P(r)) : <<U(r), c>> \in SeenCourseCerts(r)}

-----------------------------------------------------------------------------
Goto(r, next) == pc' = [pc EXCEPT ![r] = next]

\* The request is answered and its slot is free for another one.
Finish(r, certificates) ==
  /\ Goto(r, "idle")
  /\ issued' = [issued EXCEPT ![r] = certificates]
  /\ arg' = [arg EXCEPT ![r] = NoRow]
  /\ local' = [local EXCEPT ![r] = NoLocals]
  /\ own' = [own EXCEPT ![r] = NoWrites]

\* A statement that only reads.
ReadsInto(r, next, locals) ==
  /\ Goto(r, next)
  /\ local' = [local EXCEPT ![r] = locals]
  /\ UNCHANGED <<tables, arg, own, issued, analytics>>

\* A statement that writes a row of the transaction.
WritesRow(r, row, next, writes) ==
  /\ Lockable(r, row)
  /\ Lock(r, row)
  /\ Goto(r, next)
  /\ own' = [own EXCEPT ![r] = writes]
  /\ UNCHANGED <<enrollmentTables, progressTables, arg, local, issued>>

\* (mutated form: a throw that leaves the transaction open)
Rollback_LeavesOpen(r) == Finish(r, {}) /\ UNCHANGED <<tables, analytics>>

\* The transaction rolls back: no write of it is ever seen.
Rollback(r) ==
  /\ Unlock(r)
  /\ Finish(r, {})
  /\ UNCHANGED <<enrollmentTables, progressTables, analytics>>

-----------------------------------------------------------------------------
(* Before the transaction *)

Receive(r, u, l) ==
  /\ pc[r] = "idle"
  /\ Goto(r, "guard")
  /\ arg' = [arg EXCEPT ![r] = [user |-> u, lesson |-> l]]
  /\ issued' = [issued EXCEPT ![r] = {}]
  /\ UNCHANGED <<tables, local, own, analytics>>

\* (mutated form: the guard is missing from the route)
EnrollmentGuard_Open(r) ==
  /\ pc[r] = "guard"
  /\ Goto(r, "fastPath")
  /\ UNCHANGED <<tables, arg, local, own, issued, analytics>>

\* ContentAccessGuard, the next guard of the route, lets everybody through
\* while hasActiveSubscription is a stub that returns true.
EnrollmentGuard(r) ==
  /\ pc[r] = "guard"
  /\ IF HasAccessToCourse(U(r), C(r))
     THEN Goto(r, "fastPath") /\ UNCHANGED <<arg, local, own, issued>>
     ELSE Finish(r, {})
  /\ UNCHANGED <<tables, analytics>>

\* The lesson is already COMPLETED: loadCurrentState answers with the rows as
\* they are and no certificate.
FastPath(r) ==
  /\ pc[r] = "fastPath"
  /\ IF <<U(r), L(r)>> \in lessonProgress
     THEN Finish(r, {})
     ELSE Goto(r, "capture") /\ UNCHANGED <<arg, local, own, issued>>
  /\ UNCHANGED <<tables, analytics>>

\* The two reads of Promise.all, on two connections, in either order.
CaptureCourseCert(r) ==
  /\ pc[r] = "capture"
  /\ local[r].preCourse = "unread"
  /\ LET locals == [local[r] EXCEPT !.preCourse =
                      IF <<U(r), C(r)>> \in courseCertificate
                      THEN "present" ELSE "absent"]
     IN  ReadsInto(r, IF InPath(r) /\ locals.prePath = "unread"
                      THEN "capture" ELSE "upsertLesson", locals)

CapturePathCert(r) ==
  /\ pc[r] = "capture"
  /\ InPath(r)
  /\ local[r].prePath = "unread"
  /\ LET locals == [local[r] EXCEPT !.prePath =
                      IF <<U(r), P(r)>> \in pathCertificate
                      THEN "present" ELSE "absent"]
     IN  ReadsInto(r, IF locals.preCourse = "unread"
                      THEN "capture" ELSE "upsertLesson", locals)

-----------------------------------------------------------------------------
(* The progress rows, from the lesson up *)

UpsertLesson(r) ==
  /\ pc[r] = "upsertLesson"
  /\ WritesRow(r, <<"lesson_progress", U(r), L(r)>>, "countLessons",
               [own[r] EXCEPT !.lesson = TRUE])
  /\ UNCHANGED analytics

CountLessons(r) ==
  /\ pc[r] = "countLessons"
  /\ ReadsInto(r, "upsertSection",
       [local[r] EXCEPT !.counted =
          Cardinality(DoneLessons(r, LessonsIn(S(r))))])

UpsertSection(r) ==
  /\ pc[r] = "upsertSection"
  /\ WritesRow(r, <<"section_progress", U(r), S(r)>>, "countSections",
               [own[r] EXCEPT !.section = local[r].counted])
  /\ UNCHANGED analytics

CountSections(r) ==
  /\ pc[r] = "countSections"
  /\ ReadsInto(r, "upsertCourse",
       [local[r] EXCEPT !.counted = Cardinality(DoneSections(r))])

UpsertCourse(r) ==
  /\ pc[r] = "upsertCourse"
  /\ WritesRow(r, <<"course_progress", U(r), C(r)>>,
               IF InPath(r) THEN "countCourses" ELSE "findScope",
               [own[r] EXCEPT !.course = local[r].counted])
  /\ UNCHANGED analytics

CountCourses(r) ==
  /\ pc[r] = "countCourses"
  /\ ReadsInto(r, "upsertPath",
       [local[r] EXCEPT !.counted = Cardinality(DoneCourses(r))])

UpsertPath(r) ==
  /\ pc[r] = "upsertPath"
  /\ WritesRow(r, <<"path_progress", U(r), P(r)>>, "findScope",
               [own[r] EXCEPT !.path = local[r].counted])
  /\ UNCHANGED analytics

-----------------------------------------------------------------------------
(* The last position: found, then updated or created *)

\* (mutated forms: the scope of a path lesson is its course; a standalone
\* course is not told apart)
FindScope_CourseAlways(r) ==
  /\ pc[r] = "findScope"
  /\ ReadsInto(r, "findPosition", [local[r] EXCEPT !.scope = C(r)])

FindScope_PathAlways(r) ==
  /\ pc[r] = "findScope"
  /\ ReadsInto(r, "findPosition", [local[r] EXCEPT !.scope = P(r)])

\* Path scope for a course of a path the user is enrolled in, course scope
\* otherwise.
FindScope(r) ==
  /\ pc[r] = "findScope"
  /\ ReadsInto(r, "findPosition",
       [local[r] EXCEPT !.scope =
          IF InPath(r) /\ pathEnrollment[<<U(r), P(r)>>] > 0
          THEN P(r) ELSE C(r)])

FindPosition(r) ==
  /\ pc[r] = "findPosition"
  /\ ReadsInto(r, "writePosition",
       [local[r] EXCEPT !.found =
          lastPosition[<<U(r), local[r].scope>>] # NoRow])

WritePosition(r) ==
  LET row == <<"last_positions", U(r), local[r].scope>>
      writes == [own[r] EXCEPT !.position = TRUE]
  IN  WritesRow(r, row, "findCourseCert", writes) /\ UNCHANGED analytics

UpdatePosition(r) ==
  /\ pc[r] = "writePosition"
  /\ local[r].found
  /\ WritePosition(r)

\* The partial unique index lets one row per (user, scope) in: an INSERT that
\* meets a committed one fails, and with it the transaction.
CreatePosition(r) ==
  /\ pc[r] = "writePosition"
  /\ ~local[r].found
  /\ Lockable(r, <<"last_positions", U(r), local[r].scope>>)
  /\ IF lastPosition[<<U(r), local[r].scope>>] # NoRow
     THEN Rollback(r)
     ELSE WritePosition(r)

-----------------------------------------------------------------------------
(* CertificatesService: checkCourseEligibility, checkPathEligibility *)

AfterCourseCheck(r) == IF InPath(r) THEN "findPathCert" ELSE "commit"

\* (mutated form: trusts what was captured before the transaction)
FindCourseCert_Captured(r) ==
  /\ pc[r] = "findCourseCert"
  /\ IF local[r].preCourse = "present"
     THEN ReadsInto(r, AfterCourseCheck(r),
                    [local[r] EXCEPT !.courseCert = TRUE])
     ELSE ReadsInto(r, "countCompleted", local[r])

FindCourseCert(r) ==
  /\ pc[r] = "findCourseCert"
  /\ IF <<U(r), C(r)>> \in SeenCourseCerts(r)
     THEN ReadsInto(r, AfterCourseCheck(r),
                    [local[r] EXCEPT !.courseCert = TRUE])
     ELSE ReadsInto(r, "countCompleted", local[r])

\* (mutated form: only the lessons of the section are counted)
CountCompleted_OneSection(r) ==
  LET all == LessonsIn(S(r))
      due == Cardinality(DoneLessons(r, all)) = Cardinality(all)
  IN  /\ pc[r] = "countCompleted"
      /\ ReadsInto(r, IF due THEN "issueCourseCert" ELSE AfterCourseCheck(r),
                   local[r])

\* Every lesson of the course counted COMPLETED, and there is at least one.
\* allCourseQuizzesPassed, asked next, is a stub that returns true.
CountCompleted(r) ==
  LET all == CourseLessons(C(r))
      due == /\ Cardinality(all) # 0
             /\ Cardinality(DoneLessons(r, all)) = Cardinality(all)
  IN  /\ pc[r] = "countCompleted"
      /\ ReadsInto(r, IF due THEN "issueCourseCert" ELSE AfterCourseCheck(r),
                   local[r])

FindPathCert(r) ==
  /\ pc[r] = "findPathCert"
  /\ IF <<U(r), P(r)>> \in SeenPathCerts(r)
     THEN ReadsInto(r, "commit", [local[r] EXCEPT !.pathCert = TRUE])
     ELSE ReadsInto(r, "findPathEnrollment", local[r])

FindPathEnrollment(r) ==
  /\ pc[r] = "findPathEnrollment"
  /\ ReadsInto(r, IF pathEnrollment[<<U(r), P(r)>>] > 0
                  THEN "countCourseCerts" ELSE "commit", local[r])

CountCourseCerts(r) ==
  LET all == CoursesIn(P(r))
      due == Cardinality(CertifiedCourses(r)) = Cardinality(all)
  IN  /\ pc[r] = "countCourseCerts"
      /\ ReadsInto(r, IF due THEN "issuePathCert" ELSE "commit", local[r])

\* issueCertificate: INSERT, then analytics.capture while the transaction is
\* still open.  An INSERT that meets a certificate with the same owner and
\* scope fails; PostgreSQL then refuses every further statement of the
\* transaction, so the attempts left in the retry loop fail as well.
IssueCourseCert(r) ==
  LET row == <<"course_certificate", U(r), C(r)>>
  IN  /\ pc[r] = "issueCourseCert"
      /\ Lockable(r, row)
      /\ IF <<U(r), C(r)>> \in courseCertificate
         THEN Rollback(r)
         ELSE /\ Lock(r, row)
              /\ Goto(r, AfterCourseCheck(r))
              /\ own' = [own EXCEPT ![r].courseCert = TRUE]
              /\ local' = [local EXCEPT ![r].courseCert = TRUE]
              /\ analytics' = analytics \cup {<<"COURSE", U(r), C(r)>>}
              /\ UNCHANGED <<enrollmentTables, progressTables, arg, issued>>

IssuePathCert(r) ==
  LET row == <<"path_certificate", U(r), P(r)>>
  IN  /\ pc[r] = "issuePathCert"
      /\ Lockable(r, row)
      /\ IF <<U(r), P(r)>> \in pathCertificate
         THEN Rollback(r)
         ELSE /\ Lock(r, row)
              /\ Goto(r, "commit")
              /\ own' = [own EXCEPT ![r].pathCert = TRUE]
              /\ local' = [local EXCEPT ![r].pathCert = TRUE]
              /\ analytics' = analytics \cup {<<"PATH", U(r), P(r)>>}
              /\ UNCHANGED <<enrollmentTables, progressTables, arg, issued>>

-----------------------------------------------------------------------------
(* The end of the transaction *)

\* (mutated form: a path certificate is only listed with a course certificate)
CertificatesIssued_CourseFirst(r) ==
  IF local[r].courseCert /\ local[r].preCourse # "present"
  THEN {<<"COURSE", U(r), C(r)>>}
         \cup (IF local[r].pathCert /\ local[r].prePath # "absent"
               THEN {<<"PATH", U(r), P(r)>>} ELSE {})
  ELSE {}

\* The certificates the response lists: returned by the checks and not there
\* when they were captured before the transaction.
CertificatesIssued(r) ==
  (IF local[r].courseCert /\ local[r].preCourse # "present"
   THEN {<<"COURSE", U(r), C(r)>>} ELSE {})
  \cup
  (IF local[r].pathCert /\ local[r].prePath # "present"
   THEN {<<"PATH", U(r), P(r)>>} ELSE {})

Commit(r) ==
  /\ pc[r] = "commit"
  /\ lessonProgress' = SeenLessons(r)
  /\ sectionProgress' = SeenSections(r)
  /\ courseProgress' = SeenCourses(r)
  /\ pathProgress' = SeenPaths(r)
  /\ lastPosition' = SeenPositions(r)
  /\ courseCertificate' = SeenCourseCerts(r)
  /\ pathCertificate' = SeenPathCerts(r)
  /\ Unlock(r)
  /\ Finish(r, CertificatesIssued(r))
  /\ UNCHANGED <<enrollmentTables, analytics>>

\* A statement fails, the transaction's timeout expires, the connection or
\* the process is lost: whatever was written is rolled back.
Abort(r) == pc[r] \in InTransaction /\ Rollback(r)

-----------------------------------------------------------------------------
\* A path enrollment seeds the path's row and its courses' rows, a course
\* enrollment the course's row and its sections' rows.
SeededBy(paths, courses) ==
  /\ pathEnrollment = [k \in Users \X Paths |-> IF k \in paths THEN 1 ELSE 0]
  /\ courseEnrollment = courses
  /\ pathProgress =
       [k \in Users \X Paths |-> IF k \in paths THEN 0 ELSE NoRow]
  /\ courseProgress =
       [k \in Users \X Courses |->
          IF k \in courses \/ <<k[1], PathOf[k[2]]>> \in paths
          THEN 0 ELSE NoRow]
  /\ sectionProgress =
       [k \in Users \X Sections |->
          IF <<k[1], CourseOf[k[2]]>> \in courses THEN 0 ELSE NoRow]

CascadeIdle ==
  /\ pc = [r \in Requests |-> "idle"]
  /\ arg = [r \in Requests |-> NoRow]
  /\ local = [r \in Requests |-> NoLocals]
  /\ own = [r \in Requests |-> NoWrites]
  /\ issued = [r \in Requests |-> {}]
  /\ analytics = {}

Init ==
  /\ \E paths \in SUBSET (Users \X Paths) :
       \E courses \in SUBSET {k \in Users \X Courses : PathOf[k[2]] = NoPath} :
         SeededBy(paths, courses)
  /\ NothingCompleted
  /\ CascadeIdle

Step(r) ==
  \/ EnrollmentGuard(r) \/ FastPath(r)
  \/ CaptureCourseCert(r) \/ CapturePathCert(r)
  \/ UpsertLesson(r)
  \/ CountLessons(r) \/ UpsertSection(r)
  \/ CountSections(r) \/ UpsertCourse(r)
  \/ CountCourses(r) \/ UpsertPath(r)
  \/ FindScope(r) \/ FindPosition(r) \/ UpdatePosition(r) \/ CreatePosition(r)
  \/ FindCourseCert(r) \/ CountCompleted(r) \/ IssueCourseCert(r)
  \/ FindPathCert(r) \/ FindPathEnrollment(r)
  \/ CountCourseCerts(r) \/ IssuePathCert(r)
  \/ Commit(r)

Client(r) == \E u \in Users, l \in Lessons : Receive(r, u, l)

Next == \E r \in Requests : Client(r) \/ Step(r) \/ Abort(r)

Spec == Init /\ [][Next]_vars

\* A request that has been received executes: Node runs its continuations and
\* PostgreSQL grants a row lock to the transactions that wait for it in turn,
\* so a request that is let through again and again does go through.
Fairness == \A r \in Requests : SF_vars(Step(r))
=============================================================================
