------------------------- MODULE CascadeInvariant -------------------------
(***************************************************************************)
(* The inductive invariants behind what the cascade guarantees: first the  *)
(* exactness of certificates, which the others build on.                   *)
(*                                                                         *)
(* Why it holds: a cascade counts lessons (course certificates) only after *)
(* it has upserted its course_progress row, and keeps that row locked      *)
(* until it commits, so no other cascade of the same learner and course    *)
(* commits a lesson between the count and the commit.  What the count saw, *)
(* committed rows and its own, is therefore what is committed in the end.  *)
(* The path_progress row does the same for path certificates.              *)
(***************************************************************************)
EXTENDS CascadeProperties

PathStatements ==
  {"countCourses", "upsertPath", "findPathCert", "findPathEnrollment",
   "countCourseCerts", "issuePathCert"}

\* The course certificate of the request has been decided.
CourseDecided ==
  {"findPathCert", "findPathEnrollment", "countCourseCerts", "issuePathCert",
   "commit"}

\* What only a course with a path leads to; and a free slot keeps nothing of
\* the request it last served.
PathOnly(r) ==
  /\ pc[r] \in PathStatements \/ local[r].pathCert \/ own[r].pathCert => InPath(r)
  /\ pc[r] = "idle" => local[r] = NoLocals /\ own[r] = NoWrites

TypeInv == TypeOK /\ \A r \in Requests : PathOnly(r)

\* The transaction holds the rows its decisions rest on.
HoldsRows(r) ==
  /\ pc[r] \in AfterCourseLock =>
       rowLock[<<"course_progress", U(r), C(r)>>] = r
  /\ pc[r] \in AfterPathLock /\ InPath(r) =>
       rowLock[<<"path_progress", U(r), P(r)>>] = r

\* What it has written, by where it is.
WritesSoFar(r) ==
  /\ pc[r] \in AfterLessonLock => own[r].lesson
  /\ own[r].courseCert => pc[r] \in CourseDecided
  /\ own[r].pathCert => pc[r] = "commit"

\* EnrollmentGuard let it through, and enrollments are not taken back.
Enrolled(r) ==
  pc[r] \notin {"idle", "guard"} /\ InPath(r) =>
    pathEnrollment[<<U(r), P(r)>>] > 0

\* The transaction sees every lesson of its course completed, every course of
\* its path certified.
AllCompleted(r) == \A l \in CourseLessons(C(r)) : <<U(r), l>> \in SeenLessons(r)
AllCertified(r) == \A c \in CoursesIn(P(r)) : <<U(r), c>> \in SeenCourseCerts(r)

CourseDecision(r) ==
  /\ pc[r] \in {"countCompleted", "issueCourseCert"} =>
       <<U(r), C(r)>> \notin courseCertificate
  /\ pc[r] = "issueCourseCert" => AllCompleted(r)
  /\ pc[r] \in CourseDecided =>
       (<<U(r), C(r)>> \in SeenCourseCerts(r) <=> AllCompleted(r))

PathDecision(r) ==
  /\ pc[r] \in {"findPathEnrollment", "countCourseCerts", "issuePathCert"} =>
       <<U(r), P(r)>> \notin pathCertificate
  /\ pc[r] = "issuePathCert" => AllCertified(r)
  /\ pc[r] = "commit" /\ InPath(r) =>
       (<<U(r), P(r)>> \in SeenPathCerts(r) <=> AllCertified(r))

RequestInv(r) ==
  /\ HoldsRows(r)
  /\ WritesSoFar(r)
  /\ Enrolled(r)
  /\ CourseDecision(r)
  /\ PathDecision(r)

(***************************************************************************)
(* Certificates are exact, and every open transaction is on its way to     *)
(* keep them so: it holds the rows that freeze what it counted, and has    *)
(* decided according to what it sees (completeLesson, issueCertificate).   *)
(***************************************************************************)
CertificateInvariant ==
  /\ CourseCertificatesExact
  /\ PathCertificatesExact
  /\ \A r \in Requests : RequestInv(r)
-----------------------------------------------------------------------------
(* Why no INSERT meets a row, and where the last position goes *)

AfterPosition ==
  {"findCourseCert", "countCompleted", "issueCourseCert"} \cup CourseDecided
Scoped == {"findPosition", "writePosition"} \cup AfterPosition

ScopeOf(c) == IF PathOf[c] # NoPath THEN PathOf[c] ELSE c

\* The position found missing is still missing when it is created.
Placing(r) ==
  /\ pc[r] \in Scoped => local[r].scope = ScopeOf(C(r))
  /\ own[r].position => pc[r] \in AfterPosition
  /\ pc[r] = "writePosition" /\ ~local[r].found =>
       lastPosition[<<U(r), local[r].scope>>] = NoRow

\* Certificates and positions are locked by the request they belong to.
InsertLocks(r) ==
  \A u \in Users :
    /\ \A c \in Courses :
         rowLock[<<"course_certificate", u, c>>] = r =>
           own[r].courseCert /\ u = U(r) /\ c = C(r)
    /\ \A p \in Paths :
         rowLock[<<"path_certificate", u, p>>] = r =>
           own[r].pathCert /\ u = U(r) /\ p = P(r)
    /\ \A s \in Scopes :
         rowLock[<<"last_positions", u, s>>] = r =>
           own[r].position /\ u = U(r) /\ s = local[r].scope

\* Certificates and positions are locked by cascades alone; progress rows may
\* be locked by an enrollment, too.
InsertRows ==
  ({"course_certificate"} \X Users \X Courses)
    \cup ({"path_certificate"} \X Users \X Paths)
    \cup ({"last_positions"} \X Users \X Scopes)
CascadeLocks == \A row \in InsertRows : rowLock[row] \in Requests \cup {Free}

(***************************************************************************)
(* A request about to INSERT holds the course_progress row, or the         *)
(* path_progress row, of every request that could have inserted the same.  *)
(***************************************************************************)
InsertInvariant ==
  /\ PositionInScope
  /\ CascadeLocks
  /\ \A r \in Requests : Placing(r) /\ InsertLocks(r)

-----------------------------------------------------------------------------
(* Why an issued certificate is announced *)

Announcing(r) ==
  /\ local[r].preCourse = "present" => <<U(r), C(r)>> \in courseCertificate
  /\ local[r].prePath = "present" => <<U(r), P(r)>> \in pathCertificate
  /\ own[r].courseCert =>
       /\ local[r].courseCert /\ <<U(r), C(r)>> \notin courseCertificate
       /\ <<"COURSE", U(r), C(r)>> \in analytics
  /\ own[r].pathCert =>
       /\ local[r].pathCert /\ <<U(r), P(r)>> \notin pathCertificate
       /\ <<"PATH", U(r), P(r)>> \in analytics

AnnouncementInvariant == \A r \in Requests : Announcing(r)

-----------------------------------------------------------------------------
(* Why no progress row is overstated: a count may be stale when it is      *)
(* written, but the lessons it saw are still completed, or will be with it *)

CountedSection(r, n) ==
  n <= Cardinality(CompletedOf(SeenLessons(r), U(r), S(r)))
CountedCourse(r, n) ==
  n <= Cardinality(FinishedSectionsOf(SeenLessons(r), U(r), C(r)))
CountedPath(r, n) ==
  n <= Cardinality(FinishedCoursesOf(SeenLessons(r), U(r), P(r)))

Justified(r) ==
  /\ own[r].section # NoRow => CountedSection(r, own[r].section)
  /\ own[r].course # NoRow => CountedCourse(r, own[r].course)
  /\ own[r].path # NoRow => CountedPath(r, own[r].path)
  /\ pc[r] = "upsertSection" => CountedSection(r, local[r].counted)
  /\ pc[r] = "upsertCourse" => CountedCourse(r, local[r].counted)
  /\ pc[r] = "upsertPath" => CountedPath(r, local[r].counted)

ProgressInvariant == NeverOverstated /\ \A r \in Requests : Justified(r)

-----------------------------------------------------------------------------
(* Why the rows are exact while a learner sends one request at a time:     *)
(* what a request counts and writes is what it will commit                 *)

CountsSection(r, n) == n = Cardinality(CompletedOf(SeenLessons(r), U(r), S(r)))
CountsCourse(r, n) == n = Cardinality(FinishedSectionsOf(SeenLessons(r), U(r), C(r)))
CountsPath(r, n) == n = Cardinality(FinishedCoursesOf(SeenLessons(r), U(r), P(r)))

Exact(r) ==
  /\ pc[r] \in AfterLessonLock => own[r].lesson
  /\ pc[r] \in AfterSectionLock => CountsSection(r, own[r].section)
  /\ pc[r] \in AfterCourseLock => CountsCourse(r, own[r].course)
  /\ pc[r] \in AfterPathLock /\ InPath(r) => CountsPath(r, own[r].path)
  /\ pc[r] = "upsertSection" => CountsSection(r, local[r].counted)
  /\ pc[r] = "upsertCourse" => CountsCourse(r, local[r].counted)
  /\ pc[r] = "upsertPath" => CountsPath(r, local[r].counted)

ExactInvariant == AggregatesExact /\ \A r \in Requests : Exact(r)
=============================================================================
