------------------------- MODULE CertificateProofs -------------------------
(***************************************************************************)
(* Proof that certificates are exact under any interleaving of cascades,   *)
(* for every content, every set of users and any number of requests, and   *)
(* that the cascade implements the certificate ledger; and of what rests   *)
(* on it: no INSERT meets a row, every certificate is announced, no        *)
(* progress row is overstated.                                             *)
(***************************************************************************)
EXTENDS CascadeProofs

-----------------------------------------------------------------------------
(* What a request sees *)

(***************************************************************************)
(* A step that leaves a request's lesson and certificates alone, committed *)
(* and its own, leaves what the request sees of them alone.                *)
(***************************************************************************)
LEMMA ViewKept ==
  ASSUME NEW r, arg'[r] = arg[r],
         own'[r].lesson = own[r].lesson,
         own'[r].courseCert = own[r].courseCert,
         own'[r].pathCert = own[r].pathCert,
         UNCHANGED <<lessonProgress, courseCertificate, pathCertificate>>
  PROVE  /\ U(r)' = U(r) /\ L(r)' = L(r) /\ C(r)' = C(r) /\ P(r)' = P(r)
         /\ InPath(r)' <=> InPath(r)
         /\ SeenLessons(r)' = SeenLessons(r)
         /\ SeenCourseCerts(r)' = SeenCourseCerts(r)
         /\ SeenPathCerts(r)' = SeenPathCerts(r)
         /\ AllCompleted(r)' <=> AllCompleted(r)
         /\ AllCertified(r)' <=> AllCertified(r)
<1>1. U(r)' = U(r) /\ L(r)' = L(r) /\ C(r)' = C(r) /\ P(r)' = P(r)
  BY DEF U, L, S, C, P
<1>2. /\ SeenLessons(r)' = SeenLessons(r)
      /\ SeenCourseCerts(r)' = SeenCourseCerts(r)
      /\ SeenPathCerts(r)' = SeenPathCerts(r)
  BY <1>1 DEF SeenLessons, SeenCourseCerts, SeenPathCerts
<1> QED
  BY <1>1, <1>2 DEF InPath, AllCompleted, AllCertified

(***************************************************************************)
(* The two counts decide what they are meant to decide: as many rows as    *)
(* lessons (courses) means every one of them.                              *)
(***************************************************************************)
LEMMA CountsDecide ==
  ASSUME NEW r
  PROVE  /\ Cardinality(DoneLessons(r, CourseLessons(C(r))))
              = Cardinality(CourseLessons(C(r))) <=> AllCompleted(r)
         /\ Cardinality(CertifiedCourses(r))
              = Cardinality(CoursesIn(P(r))) <=> AllCertified(r)
<1>1. /\ CourseLessons(C(r)) \in SUBSET Lessons
      /\ CoursesIn(P(r)) \in SUBSET Courses
  BY DEF CourseLessons, CoursesIn
<1>2. IsFiniteSet(CourseLessons(C(r))) /\ IsFiniteSet(CoursesIn(P(r)))
  BY <1>1, FiniteContent, FS_Subset
<1>3. /\ DoneLessons(r, CourseLessons(C(r))) \in SUBSET CourseLessons(C(r))
      /\ CertifiedCourses(r) \in SUBSET CoursesIn(P(r))
  BY DEF DoneLessons, CertifiedCourses
<1>4. Cardinality(DoneLessons(r, CourseLessons(C(r))))
        = Cardinality(CourseLessons(C(r)))
      <=> DoneLessons(r, CourseLessons(C(r))) = CourseLessons(C(r))
  BY <1>2, <1>3, FS_Subset
<1>5. Cardinality(CertifiedCourses(r)) = Cardinality(CoursesIn(P(r)))
      <=> CertifiedCourses(r) = CoursesIn(P(r))
  BY <1>2, <1>3, FS_Subset
<1>6. DoneLessons(r, CourseLessons(C(r))) = CourseLessons(C(r))
        <=> AllCompleted(r)
  BY DEF DoneLessons, AllCompleted
<1>7. CertifiedCourses(r) = CoursesIn(P(r)) <=> AllCertified(r)
  BY DEF CertifiedCourses, AllCertified
<1> QED
  BY <1>4, <1>5, <1>6, <1>7

(***************************************************************************)
(* The request's lesson is one of its course, its course one of its path:  *)
(* neither is ever vacuously complete.                                     *)
(***************************************************************************)
LEMMA OwnCourse ==
  ASSUME TypeOK, NEW r \in Requests, pc[r] # "idle"
  PROVE  /\ L(r) \in CourseLessons(C(r))
         /\ Cardinality(CourseLessons(C(r))) # 0
         /\ C(r) \in CoursesIn(P(r))
<1>1. L(r) \in CourseLessons(C(r)) /\ C(r) \in CoursesIn(P(r))
  BY RequestRows DEF CourseLessons, CoursesIn, C, S, P
<1>2. IsFiniteSet(CourseLessons(C(r)))
  <2>1. CourseLessons(C(r)) \in SUBSET Lessons
    BY DEF CourseLessons
  <2> QED
    BY <2>1, FiniteContent, FS_Subset
<1> QED
  BY <1>1, <1>2, FS_EmptySet

(***************************************************************************)
(* The rows a request locks are rows of the lock table.                    *)
(***************************************************************************)
LEMMA LockedRows ==
  ASSUME TypeOK, NEW r \in Requests, pc[r] # "idle"
  PROVE  /\ <<"course_progress", U(r), C(r)>> \in Rows
         /\ InPath(r) => <<"path_progress", U(r), P(r)>> \in Rows
BY RequestRows DEF Rows

-----------------------------------------------------------------------------
(* Steps other than Commit *)

\* Only r moves; no lock of another request, no committed lesson or
\* certificate changes.
OnlyMoves(r) ==
  /\ UNCHANGED <<enrollmentTables, lessonProgress, courseCertificate,
                 pathCertificate>>
  /\ \A q \in Requests \ {r} :
       pc'[q] = pc[q] /\ arg'[q] = arg[q] /\ own'[q] = own[q]
  /\ \A row \in Rows : \A q \in Requests \ {r} :
       rowLock[row] = q => rowLock'[row] = q

(***************************************************************************)
(* When only r moves, the other requests keep their invariant.             *)
(***************************************************************************)
LEMMA OthersKept ==
  ASSUME TypeInv, NEW r \in Requests, OnlyMoves(r),
         NEW q \in Requests, q # r, RequestInv(q)
  PROVE  RequestInv(q)'
<1>1. pc'[q] = pc[q] /\ arg'[q] = arg[q] /\ own'[q] = own[q]
  BY DEF OnlyMoves
<1>2. UNCHANGED <<enrollmentTables, lessonProgress, courseCertificate,
                  pathCertificate>>
  BY DEF OnlyMoves
<1>3. /\ U(q)' = U(q) /\ L(q)' = L(q) /\ C(q)' = C(q) /\ P(q)' = P(q)
      /\ InPath(q)' <=> InPath(q)
      /\ SeenCourseCerts(q)' = SeenCourseCerts(q)
      /\ SeenPathCerts(q)' = SeenPathCerts(q)
      /\ AllCompleted(q)' <=> AllCompleted(q)
      /\ AllCertified(q)' <=> AllCertified(q)
  BY <1>1, <1>2, ViewKept
<1>4. HoldsRows(q)'
  <2>1. CASE pc[q] = "idle"
    BY <1>1, <2>1 DEF HoldsRows, AfterCourseLock, AfterPathLock
  <2>2. CASE pc[q] # "idle"
    <3>1. /\ <<"course_progress", U(q), C(q)>> \in Rows
          /\ InPath(q) => <<"path_progress", U(q), P(q)>> \in Rows
      BY <2>2, LockedRows DEF TypeInv
    <3>2. \A row \in Rows : rowLock[row] = q => rowLock'[row] = q
      BY DEF OnlyMoves
    <3> QED
      BY <1>1, <1>3, <3>1, <3>2 DEF RequestInv, HoldsRows
  <2> QED
    BY <2>1, <2>2
<1>5. WritesSoFar(q)'
  BY <1>1 DEF RequestInv, WritesSoFar
<1>6. Enrolled(q)'
  BY <1>1, <1>2, <1>3 DEF RequestInv, Enrolled, enrollmentTables
<1>7. CourseDecision(q)'
  BY <1>1, <1>2, <1>3 DEF RequestInv, CourseDecision
<1>8. PathDecision(q)'
  BY <1>1, <1>2, <1>3 DEF RequestInv, PathDecision
<1> QED
  BY <1>4, <1>5, <1>6, <1>7, <1>8 DEF RequestInv

(***************************************************************************)
(* So the invariant follows from that of r.                                *)
(***************************************************************************)
LEMMA OnlyMovesKeeps ==
  ASSUME TypeInv, CertificateInvariant, NEW r \in Requests, OnlyMoves(r),
         RequestInv(r)'
  PROVE  CertificateInvariant'
<1>1. ASSUME NEW q \in Requests PROVE RequestInv(q)'
  BY <1>1, OthersKept DEF CertificateInvariant
<1>2. CourseCertificatesExact' /\ PathCertificatesExact'
  BY DEF OnlyMoves, CertificateInvariant, CourseCertificatesExact,
         PathCertificatesExact, Ledger!CourseDue, Ledger!PathDue
<1> QED
  BY <1>1, <1>2 DEF CertificateInvariant

(***************************************************************************)
(* A statement that only reads moves only r, and keeps its view.           *)
(***************************************************************************)
LEMMA ReadsOnlyMoves ==
  ASSUME TypeInv, NEW r \in Requests, NEW next, NEW locals,
         ReadsInto(r, next, locals)
  PROVE  OnlyMoves(r) /\ pc'[r] = next /\ arg'[r] = arg[r]
         /\ own'[r] = own[r] /\ UNCHANGED <<rowLock, pathEnrollment>>
BY DEF ReadsInto, Goto, OnlyMoves, TypeInv, TypeOK, tables, enrollmentTables,
       progressTables

\* What WritesRow, IssueCourseCert and IssuePathCert have in common.
TakesRow(r, row, next, writes) ==
  /\ Lockable(r, row) /\ Lock(r, row) /\ Goto(r, next)
  /\ own' = [own EXCEPT ![r] = writes]
  /\ UNCHANGED <<enrollmentTables, progressTables, arg>>

Holds(r, row) == row \in Rows => rowLock[row] = r

\* r loses none of the locks it holds.
KeepsLocks(r) == \A row \in Rows : rowLock[row] = r => rowLock'[row] = r

(***************************************************************************)
(* A statement that writes a row moves only r, and keeps its locks.        *)
(***************************************************************************)
LEMMA WritesOnlyMove ==
  ASSUME TypeInv, NEW r \in Requests, NEW row, NEW next, NEW writes,
         TakesRow(r, row, next, writes)
  PROVE  OnlyMoves(r) /\ pc'[r] = next /\ arg'[r] = arg[r]
         /\ own'[r] = writes /\ KeepsLocks(r) /\ Holds(r, row)'
<1>1. Free \notin Requests
  BY SentinelAssumption, RequestsAssumption
<1>2. rowLock' = [rowLock EXCEPT ![row] = r] /\ rowLock[row] \in {Free, r}
  BY DEF Lock, Lockable, TakesRow
<1>3. rowLock \in [Rows -> Transactions \cup {Free}]
  BY DEF TypeInv, TypeOK, TablesTypeOK
<1>4. /\ \A other \in Rows : \A q \in Requests \ {r} :
           rowLock[other] = q => rowLock'[other] = q
      /\ \A other \in Rows : rowLock[other] = r => rowLock'[other] = r
      /\ row \in Rows => rowLock'[row] = r
  BY <1>1, <1>2, <1>3
<1> QED
  BY <1>4 DEF TakesRow, Goto, OnlyMoves, KeepsLocks, Holds, TypeInv, TypeOK,
              progressTables

(***************************************************************************)
(* A request that has been answered is bound to nothing.                   *)
(***************************************************************************)
LEMMA IdleInv ==
  ASSUME TypeInv, NEW r \in Requests, NEW certificates,
         Finish(r, certificates)
  PROVE  RequestInv(r)'
<1>1. pc'[r] = "idle" /\ own'[r] = NoWrites
  BY DEF Finish, Goto, TypeInv, TypeOK
<1> QED
  BY <1>1 DEF RequestInv, HoldsRows, WritesSoFar, Enrolled, CourseDecision,
     PathDecision, NoWrites, CourseDecided, AfterLessonLock, AfterSectionLock,
     AfterCourseLock, AfterPathLock

(***************************************************************************)
(* Answering without a commit moves only r, which is then idle.            *)
(***************************************************************************)
LEMMA FinishOnlyMoves ==
  ASSUME TypeInv, NEW r \in Requests, Finish(r, {}),
         UNCHANGED <<enrollmentTables, progressTables>>,
         UNCHANGED rowLock \/ Unlock(r)
  PROVE  OnlyMoves(r) /\ RequestInv(r)'
<1>1. \A row \in Rows : \A q \in Requests \ {r} :
        rowLock[row] = q => rowLock'[row] = q
  BY DEF Unlock
<1>2. OnlyMoves(r)
  BY <1>1 DEF Finish, Goto, OnlyMoves, TypeInv, TypeOK, progressTables
<1> QED
  BY <1>2, IdleInv

-----------------------------------------------------------------------------
(* The statements of a cascade, in groups *)

(***************************************************************************)
(* The reads that decide nothing about certificates.                       *)
(***************************************************************************)
LEMMA ReadsKeep ==
  ASSUME TypeInv, CertificateInvariant, NEW r \in Requests,
         \/ CaptureCourseCert(r) \/ CapturePathCert(r)
         \/ CountLessons(r) \/ CountSections(r) \/ CountCourses(r)
         \/ FindScope(r) \/ FindPosition(r)
  PROVE  CertificateInvariant'
<1>1. PICK next, locals : ReadsInto(r, next, locals) /\
        \/ pc[r] = "capture" /\ next \in {"capture", "upsertLesson"}
        \/ pc[r] = "countLessons" /\ next = "upsertSection"
        \/ pc[r] = "countSections" /\ next = "upsertCourse"
        \/ pc[r] = "countCourses" /\ next = "upsertPath"
        \/ pc[r] = "findScope" /\ next = "findPosition"
        \/ pc[r] = "findPosition" /\ next = "writePosition"
  BY DEF CaptureCourseCert, CapturePathCert, CountLessons, CountSections,
         CountCourses, FindScope, FindPosition
<1>2. /\ OnlyMoves(r) /\ pc'[r] = next /\ arg'[r] = arg[r]
      /\ own'[r] = own[r] /\ UNCHANGED <<rowLock, pathEnrollment>>
  BY <1>1, ReadsOnlyMoves
<1>3. /\ U(r)' = U(r) /\ C(r)' = C(r) /\ P(r)' = P(r)
      /\ InPath(r)' <=> InPath(r)
  BY <1>2, ViewKept DEF OnlyMoves
<1>4. RequestInv(r)
  BY DEF CertificateInvariant
<1>5. RequestInv(r)'
  BY <1>1, <1>2, <1>3, <1>4
     DEF RequestInv, HoldsRows, WritesSoFar, Enrolled, CourseDecision,
         PathDecision, CourseDecided, AfterLessonLock, AfterSectionLock,
         AfterCourseLock, AfterPathLock
<1> QED
  BY <1>2, <1>5, OnlyMovesKeeps
(***************************************************************************)
(* checkCourseEligibility finds a certificate only of a course that is     *)
(* completed, and counts to issue one exactly for such a course.           *)
(***************************************************************************)
LEMMA CourseChecksKeep ==
  ASSUME TypeInv, CertificateInvariant, NEW r \in Requests,
         FindCourseCert(r) \/ CountCompleted(r)
  PROVE  CertificateInvariant'
<1>1. PICK next, locals : ReadsInto(r, next, locals) /\
        \/ /\ pc[r] = "findCourseCert"
           /\ <<U(r), C(r)>> \in SeenCourseCerts(r)
           /\ next = AfterCourseCheck(r)
        \/ /\ pc[r] = "findCourseCert"
           /\ <<U(r), C(r)>> \notin SeenCourseCerts(r)
           /\ next = "countCompleted"
        \/ /\ pc[r] = "countCompleted"
           /\ Cardinality(CourseLessons(C(r))) # 0
           /\ Cardinality(DoneLessons(r, CourseLessons(C(r))))
                = Cardinality(CourseLessons(C(r)))
           /\ next = "issueCourseCert"
        \/ /\ pc[r] = "countCompleted"
           /\ \/ Cardinality(CourseLessons(C(r))) = 0
              \/ Cardinality(DoneLessons(r, CourseLessons(C(r))))
                   # Cardinality(CourseLessons(C(r)))
           /\ next = AfterCourseCheck(r)
  <2>1. CASE FindCourseCert(r)
    BY <2>1 DEF FindCourseCert
  <2>2. CASE CountCompleted(r)
    BY <2>2 DEF CountCompleted
  <2> QED
    BY <2>1, <2>2
<1>2. /\ OnlyMoves(r) /\ pc'[r] = next /\ arg'[r] = arg[r]
      /\ own'[r] = own[r] /\ UNCHANGED <<rowLock, pathEnrollment>>
  BY <1>1, ReadsOnlyMoves
<1>3. /\ U(r)' = U(r) /\ C(r)' = C(r) /\ P(r)' = P(r)
      /\ InPath(r)' <=> InPath(r)
      /\ SeenCourseCerts(r)' = SeenCourseCerts(r)
      /\ AllCompleted(r)' <=> AllCompleted(r)
      /\ UNCHANGED courseCertificate
  BY <1>2, ViewKept DEF OnlyMoves
<1>4. RequestInv(r) /\ CourseCertificatesExact
  BY DEF CertificateInvariant
<1>5. ~own[r].courseCert /\ SeenCourseCerts(r) = courseCertificate
  BY <1>1, <1>4 DEF RequestInv, WritesSoFar, CourseDecided, SeenCourseCerts
<1>6. <<U(r), C(r)>> \in courseCertificate => AllCompleted(r)
  BY <1>4 DEF CourseCertificatesExact, Ledger!CourseDue, Ledger!CourseLessons,
              CourseLessons, AllCompleted, SeenLessons
<1>7. /\ Cardinality(CourseLessons(C(r))) # 0
      /\ Cardinality(DoneLessons(r, CourseLessons(C(r))))
           = Cardinality(CourseLessons(C(r))) <=> AllCompleted(r)
  <2>1. TypeOK /\ pc[r] # "idle"
    BY <1>1 DEF TypeInv
  <2> QED
    BY <2>1, OwnCourse, CountsDecide
<1>8. /\ next = "countCompleted" => <<U(r), C(r)>> \notin courseCertificate
      /\ next = "issueCourseCert" =>
           <<U(r), C(r)>> \notin courseCertificate /\ AllCompleted(r)
      /\ next = AfterCourseCheck(r) =>
           (<<U(r), C(r)>> \in SeenCourseCerts(r) <=> AllCompleted(r))
      /\ next \in {"countCompleted", "issueCourseCert", AfterCourseCheck(r)}
  BY <1>1, <1>4, <1>5, <1>6, <1>7
     DEF RequestInv, CourseDecision, AfterCourseCheck
<1>9. RequestInv(r)'
  BY <1>1, <1>2, <1>3, <1>4, <1>8
     DEF RequestInv, HoldsRows, WritesSoFar, Enrolled, CourseDecision,
         PathDecision, CourseDecided, AfterCourseCheck, AfterLessonLock,
         AfterSectionLock, AfterCourseLock, AfterPathLock
<1> QED
  BY <1>2, <1>9, OnlyMovesKeeps
(***************************************************************************)
(* checkPathEligibility finds a certificate only of a path all of whose    *)
(* courses are certified, and counts to issue one exactly for such a path. *)
(***************************************************************************)
LEMMA PathChecksKeep ==
  ASSUME TypeInv, CertificateInvariant, NEW r \in Requests,
         FindPathCert(r) \/ FindPathEnrollment(r) \/ CountCourseCerts(r)
  PROVE  CertificateInvariant'
<1>1. PICK next, locals : ReadsInto(r, next, locals) /\
        \/ /\ pc[r] = "findPathCert"
           /\ <<U(r), P(r)>> \in SeenPathCerts(r)
           /\ next = "commit"
        \/ /\ pc[r] = "findPathCert"
           /\ <<U(r), P(r)>> \notin SeenPathCerts(r)
           /\ next = "findPathEnrollment"
        \/ /\ pc[r] = "findPathEnrollment"
           /\ next = IF pathEnrollment[<<U(r), P(r)>>] > 0
                     THEN "countCourseCerts" ELSE "commit"
        \/ /\ pc[r] = "countCourseCerts"
           /\ next = IF Cardinality(CertifiedCourses(r))
                          = Cardinality(CoursesIn(P(r)))
                     THEN "issuePathCert" ELSE "commit"
  <2>1. CASE FindPathCert(r)
    BY <2>1 DEF FindPathCert
  <2>2. CASE FindPathEnrollment(r)
    BY <2>2 DEF FindPathEnrollment
  <2>3. CASE CountCourseCerts(r)
    BY <2>3 DEF CountCourseCerts
  <2> QED
    BY <2>1, <2>2, <2>3
<1>2. /\ OnlyMoves(r) /\ pc'[r] = next /\ arg'[r] = arg[r]
      /\ own'[r] = own[r] /\ UNCHANGED <<rowLock, pathEnrollment>>
  BY <1>1, ReadsOnlyMoves
<1>3. /\ U(r)' = U(r) /\ C(r)' = C(r) /\ P(r)' = P(r)
      /\ InPath(r)' <=> InPath(r)
      /\ SeenCourseCerts(r)' = SeenCourseCerts(r)
      /\ SeenPathCerts(r)' = SeenPathCerts(r)
      /\ AllCompleted(r)' <=> AllCompleted(r)
      /\ AllCertified(r)' <=> AllCertified(r)
      /\ UNCHANGED pathCertificate
  BY <1>2, ViewKept DEF OnlyMoves
<1>4. RequestInv(r) /\ PathCertificatesExact
  BY DEF CertificateInvariant
<1>5. InPath(r) /\ pathEnrollment[<<U(r), P(r)>>] > 0
  BY <1>1, <1>4 DEF TypeInv, PathOnly, PathStatements, RequestInv, Enrolled
<1>6. ~own[r].pathCert /\ SeenPathCerts(r) = pathCertificate
  BY <1>1, <1>4 DEF RequestInv, WritesSoFar, SeenPathCerts
<1>7. <<U(r), P(r)>> \in pathCertificate => AllCertified(r)
  BY <1>4 DEF PathCertificatesExact, Ledger!PathDue, Ledger!CoursesIn,
              CoursesIn, AllCertified, SeenCourseCerts
<1>8. Cardinality(CertifiedCourses(r)) = Cardinality(CoursesIn(P(r)))
        <=> AllCertified(r)
  BY CountsDecide
<1>9. /\ next \in {"findPathEnrollment", "countCourseCerts", "issuePathCert"} =>
           <<U(r), P(r)>> \notin pathCertificate
      /\ next = "issuePathCert" => AllCertified(r)
      /\ next = "commit" =>
           (<<U(r), P(r)>> \in SeenPathCerts(r) <=> AllCertified(r))
      /\ next \in {"findPathEnrollment", "countCourseCerts", "issuePathCert",
                   "commit"}
  BY <1>1, <1>4, <1>5, <1>6, <1>7, <1>8 DEF RequestInv, PathDecision
<1>10. RequestInv(r)'
  BY <1>1, <1>2, <1>3, <1>4, <1>9
     DEF RequestInv, HoldsRows, WritesSoFar, Enrolled, CourseDecision,
         PathDecision, CourseDecided, AfterLessonLock, AfterSectionLock,
         AfterCourseLock, AfterPathLock
<1> QED
  BY <1>2, <1>10, OnlyMovesKeeps

(***************************************************************************)
(* The requests that end without a commit, and those that begin.           *)
(***************************************************************************)
LEMMA GuardsKeep ==
  ASSUME TypeInv, CertificateInvariant, NEW r \in Requests,
         EnrollmentGuard(r) \/ FastPath(r)
  PROVE  CertificateInvariant'
<1>1. TypeOK /\ pc[r] # "idle" /\ UNCHANGED tables
  BY DEF TypeInv, EnrollmentGuard, FastPath
<1>2. CASE Finish(r, {})
  BY <1>1, <1>2, FinishOnlyMoves, OnlyMovesKeeps DEF tables
<1>3. CASE ~Finish(r, {})
  <2>1. /\ pc' = [pc EXCEPT ![r] = IF pc[r] = "guard" THEN "fastPath"
                                                      ELSE "capture"]
        /\ UNCHANGED <<arg, own>>
        /\ pc[r] \in {"guard", "fastPath"}
        /\ pc[r] = "guard" => HasAccessToCourse(U(r), C(r))
    BY <1>3 DEF EnrollmentGuard, FastPath, Goto
  <2>2. OnlyMoves(r) /\ pc'[r] \in {"fastPath", "capture"}
    BY <1>1, <2>1 DEF OnlyMoves, tables, enrollmentTables, progressTables,
                      TypeInv, TypeOK
  <2>3. U(r)' = U(r) /\ C(r)' = C(r) /\ P(r)' = P(r) /\ (InPath(r)' <=> InPath(r))
    BY <2>1, <2>2, ViewKept DEF OnlyMoves
  <2>4. RequestInv(r)
    BY DEF CertificateInvariant
  <2>5. InPath(r) => pathEnrollment[<<U(r), P(r)>>] > 0
    BY <2>1, <2>4 DEF HasAccessToCourse, InPath, P, RequestInv, Enrolled
  <2>6. Enrolled(r)'
    BY <2>2, <2>3, <2>5 DEF Enrolled, OnlyMoves, enrollmentTables
  <2>7. RequestInv(r)'
    BY <2>1, <2>2, <2>4, <2>6
       DEF RequestInv, HoldsRows, WritesSoFar, CourseDecision, PathDecision,
           CourseDecided, AfterLessonLock, AfterSectionLock, AfterCourseLock,
           AfterPathLock
  <2> QED
    BY <2>2, <2>7, OnlyMovesKeeps
<1> QED
  BY <1>2, <1>3

(***************************************************************************)
(* A request that arrives holds nothing and has written nothing.           *)
(***************************************************************************)
LEMMA ClientKeeps ==
  ASSUME TypeInv, CertificateInvariant, NEW r \in Requests, Client(r)
  PROVE  CertificateInvariant'
<1>1. PICK u \in Users, l \in Lessons : Receive(r, u, l)
  BY DEF Client
<1>2. OnlyMoves(r) /\ pc'[r] = "guard" /\ own'[r] = NoWrites
  BY <1>1 DEF Receive, Goto, OnlyMoves, tables, enrollmentTables,
              progressTables, TypeInv, TypeOK, PathOnly
<1>3. RequestInv(r)'
  BY <1>2 DEF RequestInv, HoldsRows, WritesSoFar, Enrolled, CourseDecision,
     PathDecision, NoWrites, CourseDecided, AfterLessonLock, AfterSectionLock,
     AfterCourseLock, AfterPathLock
<1> QED
  BY <1>2, <1>3, OnlyMovesKeeps

(***************************************************************************)
(* A rollback leaves the committed rows alone.                             *)
(***************************************************************************)
LEMMA RollbackKeeps ==
  ASSUME TypeInv, CertificateInvariant, NEW r \in Requests, Rollback(r)
  PROVE  CertificateInvariant'
BY FinishOnlyMoves, OnlyMovesKeeps DEF Rollback
(***************************************************************************)
(* The upserts of the progress rows and of the last position: those of     *)
(* course_progress and path_progress take the locks the decisions rest on. *)
(***************************************************************************)
LEMMA UpsertsKeep ==
  ASSUME TypeInv, CertificateInvariant, NEW r \in Requests,
         \/ UpsertLesson(r) \/ UpsertSection(r) \/ UpsertCourse(r)
         \/ UpsertPath(r) \/ UpdatePosition(r) \/ CreatePosition(r)
  PROVE  CertificateInvariant'
<1>1. CASE Rollback(r)
  BY <1>1, RollbackKeeps
<1>2. CASE ~Rollback(r)
  <2>1. PICK row, next, writes : WritesRow(r, row, next, writes) /\
          \/ /\ pc[r] = "upsertLesson" /\ next = "countLessons"
             /\ writes = [own[r] EXCEPT !.lesson = TRUE]
          \/ /\ pc[r] = "upsertSection" /\ next = "countSections"
             /\ writes = [own[r] EXCEPT !.section = local[r].counted]
          \/ /\ pc[r] = "upsertCourse"
             /\ next = IF InPath(r) THEN "countCourses" ELSE "findScope"
             /\ row = <<"course_progress", U(r), C(r)>>
             /\ writes = [own[r] EXCEPT !.course = local[r].counted]
          \/ /\ pc[r] = "upsertPath" /\ next = "findScope"
             /\ row = <<"path_progress", U(r), P(r)>>
             /\ writes = [own[r] EXCEPT !.path = local[r].counted]
          \/ /\ pc[r] = "writePosition" /\ next = "findCourseCert"
             /\ writes = [own[r] EXCEPT !.position = TRUE]
    <3>1. CASE UpsertLesson(r)
      BY <3>1 DEF UpsertLesson
    <3>2. CASE UpsertSection(r)
      BY <3>2 DEF UpsertSection
    <3>3. CASE UpsertCourse(r)
      BY <3>3 DEF UpsertCourse
    <3>4. CASE UpsertPath(r)
      BY <3>4 DEF UpsertPath
    <3>5. CASE UpdatePosition(r) \/ CreatePosition(r)
      BY <1>2, <3>5 DEF UpdatePosition, CreatePosition, WritePosition
    <3> QED
      BY <3>1, <3>2, <3>3, <3>4, <3>5
  <2>2. /\ OnlyMoves(r) /\ pc'[r] = next /\ arg'[r] = arg[r]
        /\ own'[r] = writes /\ KeepsLocks(r) /\ Holds(r, row)'
    <3>1. TakesRow(r, row, next, writes)
      BY <2>1 DEF TakesRow, WritesRow
    <3> QED
      BY <3>1, WritesOnlyMove
  <2>3. /\ own[r] \in Writes
        /\ <<"course_progress", U(r), C(r)>> \in Rows
        /\ InPath(r) => <<"path_progress", U(r), P(r)>> \in Rows
        /\ pc[r] = "upsertPath" => InPath(r)
    BY <2>1, LockedRows DEF TypeInv, TypeOK, PathOnly, PathStatements
  <2>4. /\ writes.courseCert = own[r].courseCert
        /\ writes.pathCert = own[r].pathCert
        /\ writes.lesson = (own[r].lesson \/ pc[r] = "upsertLesson")
    BY <2>1, <2>3 DEF Writes
  <2>5. /\ U(r)' = U(r) /\ L(r)' = L(r) /\ C(r)' = C(r) /\ P(r)' = P(r)
        /\ InPath(r)' <=> InPath(r)
    BY <2>2 DEF U, L, S, C, P, InPath
  <2>6. RequestInv(r)
    BY DEF CertificateInvariant
  <2> USE DEF AfterLessonLock, AfterSectionLock, AfterCourseLock, AfterPathLock
  <2>7. HoldsRows(r)'
    BY <2>1, <2>2, <2>3, <2>5, <2>6 DEF RequestInv, HoldsRows, KeepsLocks, Holds
  <2>8. WritesSoFar(r)'
    BY <2>1, <2>2, <2>4, <2>6
       DEF RequestInv, WritesSoFar, CourseDecided
  <2>9. Enrolled(r)'
    BY <2>1, <2>2, <2>5, <2>6
       DEF RequestInv, Enrolled, OnlyMoves, enrollmentTables
  <2>10. CourseDecision(r)' /\ PathDecision(r)'
    BY <2>1, <2>2 DEF CourseDecision, PathDecision, CourseDecided
  <2>11. RequestInv(r)'
    BY <2>7, <2>8, <2>9, <2>10 DEF RequestInv
  <2> QED
    BY <2>2, <2>11, OnlyMovesKeeps
<1> QED
  BY <1>1, <1>2

(***************************************************************************)
(* issueCertificate adds the certificate that was found due to what the    *)
(* transaction sees, and nothing else.                                     *)
(***************************************************************************)
LEMMA IssueCourseKeeps ==
  ASSUME TypeInv, CertificateInvariant, NEW r \in Requests, IssueCourseCert(r)
  PROVE  CertificateInvariant'
<1>1. CASE Rollback(r)
  BY <1>1, RollbackKeeps
<1>2. CASE ~Rollback(r)
  <2> DEFINE row == <<"course_certificate", U(r), C(r)>>
             writes == [own[r] EXCEPT !.courseCert = TRUE]
  <2>1. /\ pc[r] = "issueCourseCert"
        /\ Lockable(r, row) /\ Lock(r, row) /\ Goto(r, AfterCourseCheck(r))
        /\ own' = [own EXCEPT ![r].courseCert = TRUE]
        /\ UNCHANGED <<enrollmentTables, progressTables, arg>>
    BY <1>2 DEF IssueCourseCert
  <2>2. own[r] \in Writes /\ own' = [own EXCEPT ![r] = writes]
    BY <2>1 DEF TypeInv, TypeOK
  <2>3. /\ OnlyMoves(r) /\ pc'[r] = AfterCourseCheck(r) /\ arg'[r] = arg[r]
        /\ own'[r] = writes /\ KeepsLocks(r)
    <3>1. TakesRow(r, row, AfterCourseCheck(r), writes)
      BY <2>1, <2>2 DEF TakesRow
    <3> HIDE DEF row, writes
    <3> QED
      BY <3>1, WritesOnlyMove
  <2>4. /\ writes.courseCert
        /\ writes.pathCert = own[r].pathCert /\ writes.lesson = own[r].lesson
    BY <2>2 DEF Writes
  <2>5. /\ U(r)' = U(r) /\ L(r)' = L(r) /\ C(r)' = C(r) /\ P(r)' = P(r)
        /\ InPath(r)' <=> InPath(r)
    BY <2>3 DEF U, L, S, C, P, InPath
  <2>6. RequestInv(r)
    BY DEF CertificateInvariant
  <2>7. /\ <<"course_progress", U(r), C(r)>> \in Rows
        /\ InPath(r) => <<"path_progress", U(r), P(r)>> \in Rows
    BY <2>1, LockedRows DEF TypeInv
  <2>8. (<<U(r), C(r)>> \in SeenCourseCerts(r) <=> AllCompleted(r))'
    <3>1. <<U(r), C(r)>> \in SeenCourseCerts(r)'
      BY <2>3, <2>4, <2>5 DEF SeenCourseCerts
    <3>2. SeenLessons(r)' = SeenLessons(r)
      BY <2>1, <2>3, <2>4, <2>5 DEF SeenLessons, progressTables
    <3>3. AllCompleted(r)'
      BY <2>1, <2>5, <2>6, <3>2 DEF AllCompleted, RequestInv, CourseDecision
    <3> QED
      BY <2>5, <3>1, <3>3
  <2> USE DEF AfterLessonLock, AfterSectionLock, AfterCourseLock, AfterPathLock,
              AfterCourseCheck
  <2>9. HoldsRows(r)'
    BY <2>1, <2>3, <2>5, <2>6, <2>7 DEF RequestInv, HoldsRows, KeepsLocks, Holds
  <2>10. WritesSoFar(r)' /\ CourseDecision(r)' /\ PathDecision(r)'
    BY <2>1, <2>3, <2>4, <2>5, <2>6, <2>8
       DEF RequestInv, WritesSoFar, CourseDecision, PathDecision, CourseDecided
  <2>11. Enrolled(r)'
    BY <2>1, <2>3, <2>5, <2>6 DEF RequestInv, Enrolled, enrollmentTables
  <2> QED
    BY <2>3, <2>9, <2>10, <2>11, OnlyMovesKeeps DEF RequestInv
<1> QED
  BY <1>1, <1>2

(***************************************************************************)
(* The same for the certificate of the path.                               *)
(***************************************************************************)
LEMMA IssuePathKeeps ==
  ASSUME TypeInv, CertificateInvariant, NEW r \in Requests, IssuePathCert(r)
  PROVE  CertificateInvariant'
<1>1. CASE Rollback(r)
  BY <1>1, RollbackKeeps
<1>2. CASE ~Rollback(r)
  <2> DEFINE row == <<"path_certificate", U(r), P(r)>>
             writes == [own[r] EXCEPT !.pathCert = TRUE]
  <2>1. /\ pc[r] = "issuePathCert"
        /\ Lockable(r, row) /\ Lock(r, row) /\ Goto(r, "commit")
        /\ own' = [own EXCEPT ![r].pathCert = TRUE]
        /\ UNCHANGED <<enrollmentTables, progressTables, arg>>
    BY <1>2 DEF IssuePathCert
  <2>2. own[r] \in Writes /\ own' = [own EXCEPT ![r] = writes]
    BY <2>1 DEF TypeInv, TypeOK
  <2>3. /\ OnlyMoves(r) /\ pc'[r] = "commit" /\ arg'[r] = arg[r]
        /\ own'[r] = writes /\ KeepsLocks(r)
    <3>1. TakesRow(r, row, "commit", writes)
      BY <2>1, <2>2 DEF TakesRow
    <3> HIDE DEF row, writes
    <3> QED
      BY <3>1, WritesOnlyMove
  <2>4. /\ writes.pathCert
        /\ writes.courseCert = own[r].courseCert
        /\ writes.lesson = own[r].lesson
    BY <2>2 DEF Writes
  <2>5. /\ U(r)' = U(r) /\ L(r)' = L(r) /\ C(r)' = C(r) /\ P(r)' = P(r)
        /\ InPath(r)' <=> InPath(r)
        /\ SeenLessons(r)' = SeenLessons(r)
        /\ SeenCourseCerts(r)' = SeenCourseCerts(r)
    <3>1. U(r)' = U(r) /\ L(r)' = L(r) /\ C(r)' = C(r) /\ P(r)' = P(r)
      BY <2>3 DEF U, L, S, C, P
    <3> QED
      BY <2>1, <2>3, <2>4, <3>1
         DEF InPath, SeenLessons, SeenCourseCerts, progressTables
  <2>6. RequestInv(r)
    BY DEF CertificateInvariant
  <2>7. /\ <<"course_progress", U(r), C(r)>> \in Rows
        /\ InPath(r) => <<"path_progress", U(r), P(r)>> \in Rows
    BY <2>1, LockedRows DEF TypeInv
  <2>8. (AllCompleted(r)' <=> AllCompleted(r))
        /\ (AllCertified(r)' <=> AllCertified(r))
    BY <2>5 DEF AllCompleted, AllCertified
  <2>9. <<U(r), P(r)>> \in SeenPathCerts(r)'
    BY <2>3, <2>4, <2>5 DEF SeenPathCerts
  <2> USE DEF AfterLessonLock, AfterSectionLock, AfterCourseLock, AfterPathLock
  <2>10. HoldsRows(r)'
    BY <2>1, <2>3, <2>5, <2>6, <2>7 DEF RequestInv, HoldsRows, KeepsLocks, Holds
  <2>11. WritesSoFar(r)' /\ CourseDecision(r)' /\ PathDecision(r)'
    BY <2>1, <2>3, <2>4, <2>5, <2>6, <2>8, <2>9
       DEF RequestInv, WritesSoFar, CourseDecision, PathDecision, CourseDecided
  <2>12. Enrolled(r)'
    BY <2>1, <2>3, <2>5, <2>6 DEF RequestInv, Enrolled, enrollmentTables
  <2> QED
    BY <2>3, <2>10, <2>11, <2>12, OnlyMovesKeeps DEF RequestInv
<1> QED
  BY <1>1, <1>2
-----------------------------------------------------------------------------
(* Commit *)

(***************************************************************************)
(* What a commit adds: the lesson, and at most the certificates of its     *)
(* course and path.                                                        *)
(***************************************************************************)
LEMMA CommitAdds ==
  ASSUME TypeInv, CertificateInvariant, NEW r \in Requests, Commit(r)
  PROVE  /\ pc[r] = "commit"
         /\ U(r) \in Users /\ L(r) \in Lessons /\ C(r) \in Courses
         /\ lessonProgress' = SeenLessons(r)
         /\ lessonProgress' = lessonProgress \cup {<<U(r), L(r)>>}
         /\ courseCertificate' = SeenCourseCerts(r)
         /\ \A u \in Users, c \in Courses : <<u, c>> # <<U(r), C(r)>> =>
              (<<u, c>> \in courseCertificate' <=> <<u, c>> \in courseCertificate)
         /\ pathCertificate' = SeenPathCerts(r)
         /\ \A u \in Users, p \in Paths :
              ~InPath(r) \/ <<u, p>> # <<U(r), P(r)>> =>
                (<<u, p>> \in pathCertificate' <=> <<u, p>> \in pathCertificate)
<1>1. /\ pc[r] = "commit"
      /\ lessonProgress' = SeenLessons(r)
      /\ courseCertificate' = SeenCourseCerts(r)
      /\ pathCertificate' = SeenPathCerts(r)
  BY DEF Commit
<1>2. own[r].lesson
  BY <1>1 DEF CertificateInvariant, RequestInv, WritesSoFar, AfterLessonLock,
              AfterSectionLock, AfterCourseLock, AfterPathLock
<1>3. own[r].pathCert => InPath(r)
  BY DEF TypeInv, PathOnly
<1>4. U(r) \in Users /\ L(r) \in Lessons /\ C(r) \in Courses
  BY <1>1, RequestRows DEF TypeInv
<1>5. \A u \in Users, c \in Courses : <<u, c>> # <<U(r), C(r)>> =>
        (<<u, c>> \in courseCertificate' <=> <<u, c>> \in courseCertificate)
  BY <1>1 DEF SeenCourseCerts
<1>6. \A u \in Users, p \in Paths :
        ~InPath(r) \/ <<u, p>> # <<U(r), P(r)>> =>
          (<<u, p>> \in pathCertificate' <=> <<u, p>> \in pathCertificate)
  BY <1>1, <1>3 DEF SeenPathCerts
<1> QED
  BY <1>1, <1>2, <1>4, <1>5, <1>6 DEF SeenLessons

(***************************************************************************)
(* A commit keeps course certificates exact: only its own course can       *)
(* become due, and the transaction has decided about that one.             *)
(***************************************************************************)
LEMMA CommitCourseExact ==
  ASSUME TypeInv, CertificateInvariant, NEW r \in Requests, Commit(r)
  PROVE  courseCertificate' = Ledger!CourseDue(lessonProgress')
<1>1. courseCertificate' \subseteq Users \X Courses
  <2>1. TypeOK'
    BY CommitType DEF TypeInv
  <2> QED
    BY <2>1 DEF TypeOK, TablesTypeOK
<1>2. ASSUME NEW u \in Users, NEW c \in Courses
      PROVE  <<u, c>> \in courseCertificate' <=>
               /\ CourseLessons(c) # {}
               /\ \A l \in CourseLessons(c) : <<u, l>> \in lessonProgress'
  <2>1. CASE u = U(r) /\ c = C(r)
    <3>1. <<u, c>> \in courseCertificate' <=> AllCompleted(r)
      BY <2>1, CommitAdds DEF CertificateInvariant, RequestInv, CourseDecision,
                              CourseDecided
    <3>2. CourseLessons(c) # {}
      BY <2>1, CommitAdds, OwnCourse DEF TypeInv
    <3> QED
      BY <2>1, <3>1, <3>2, CommitAdds DEF AllCompleted
  <2>2. CASE ~(u = U(r) /\ c = C(r))
    <3>1. <<u, c>> \in courseCertificate' <=> <<u, c>> \in courseCertificate
      BY <2>2, CommitAdds
    <3>2. <<u, c>> \in courseCertificate <=>
            /\ CourseLessons(c) # {}
            /\ \A l \in CourseLessons(c) : <<u, l>> \in lessonProgress
      BY DEF CertificateInvariant, CourseCertificatesExact, Ledger!CourseDue,
             Ledger!CourseLessons, CourseLessons
    <3>3. ASSUME NEW l \in CourseLessons(c)
          PROVE  <<u, l>> \in lessonProgress' <=> <<u, l>> \in lessonProgress
      <4>1. CourseOf[SectionOf[l]] = c
        BY DEF CourseLessons
      <4>2. <<u, l>> # <<U(r), L(r)>>
        BY <2>2, <4>1 DEF C, S
      <4> QED
        BY <4>2, CommitAdds
    <3> QED
      BY <3>1, <3>2, <3>3
  <2> QED
    BY <2>1, <2>2
<1>3. Ledger!CourseDue(lessonProgress') =
        {k \in Users \X Courses :
           /\ CourseLessons(k[2]) # {}
           /\ \A l \in CourseLessons(k[2]) : <<k[1], l>> \in lessonProgress'}
  BY DEF Ledger!CourseDue, Ledger!CourseLessons, CourseLessons
<1> QED
  BY <1>1, <1>2, <1>3

(***************************************************************************)
(* A commit keeps path certificates exact: only the path of its course can *)
(* become due, and the transaction has decided about that one.             *)
(***************************************************************************)
LEMMA CommitPathExact ==
  ASSUME TypeInv, CertificateInvariant, NEW r \in Requests, Commit(r)
  PROVE  pathCertificate' = Ledger!PathDue(courseCertificate')
<1>1. pathCertificate' \subseteq Users \X Paths
  <2>1. TypeOK'
    BY CommitType DEF TypeInv
  <2> QED
    BY <2>1 DEF TypeOK, TablesTypeOK
<1>2. ASSUME NEW u \in Users, NEW p \in Paths
      PROVE  <<u, p>> \in pathCertificate' <=>
               /\ CoursesIn(p) # {}
               /\ \A c \in CoursesIn(p) : <<u, c>> \in courseCertificate'
  <2>1. CASE u = U(r) /\ p = P(r)
    <3>1. InPath(r)
      BY <2>1, ContentAssumption DEF InPath
    <3>2. <<u, p>> \in pathCertificate' <=> AllCertified(r)
      BY <2>1, <3>1, CommitAdds DEF CertificateInvariant, RequestInv,
                                    PathDecision
    <3>3. CoursesIn(p) # {}
      BY <2>1, CommitAdds, OwnCourse DEF TypeInv
    <3> QED
      BY <2>1, <3>2, <3>3, CommitAdds DEF AllCertified
  <2>2. CASE ~(u = U(r) /\ p = P(r))
    <3>1. <<u, p>> \in pathCertificate' <=> <<u, p>> \in pathCertificate
      BY <2>2, CommitAdds
    <3>2. <<u, p>> \in pathCertificate <=>
            /\ CoursesIn(p) # {}
            /\ \A c \in CoursesIn(p) : <<u, c>> \in courseCertificate
      BY DEF CertificateInvariant, PathCertificatesExact, Ledger!PathDue,
             Ledger!CoursesIn, CoursesIn
    <3>3. ASSUME NEW c \in CoursesIn(p)
          PROVE  <<u, c>> \in courseCertificate' <=> <<u, c>> \in courseCertificate
      <4>1. c \in Courses /\ PathOf[c] = p
        BY DEF CoursesIn
      <4>2. <<u, c>> # <<U(r), C(r)>>
        BY <2>2, <4>1 DEF P
      <4> QED
        BY <4>1, <4>2, CommitAdds
    <3> QED
      BY <3>1, <3>2, <3>3
  <2> QED
    BY <2>1, <2>2
<1>3. Ledger!PathDue(courseCertificate') =
        {k \in Users \X Paths :
           /\ CoursesIn(k[2]) # {}
           /\ \A c \in CoursesIn(k[2]) : <<k[1], c>> \in courseCertificate'}
  BY DEF Ledger!PathDue, Ledger!CoursesIn, CoursesIn
<1> QED
  BY <1>1, <1>2, <1>3
(***************************************************************************)
(* The other requests keep their decisions over a commit: one that holds   *)
(* its course_progress (path_progress) row is about another user or        *)
(* another course (path) than the one that commits.                        *)
(***************************************************************************)
LEMMA CommitOthers ==
  ASSUME TypeInv, CertificateInvariant, NEW r \in Requests, Commit(r),
         NEW q \in Requests, q # r
  PROVE  RequestInv(q)'
<1>1. /\ pc'[q] = pc[q] /\ arg'[q] = arg[q] /\ own'[q] = own[q]
      /\ UNCHANGED enrollmentTables
  BY DEF Commit, Finish, Goto, TypeInv, TypeOK
<1>2. RequestInv(q) /\ RequestInv(r) /\ PathOnly(q)
  BY DEF CertificateInvariant, TypeInv
<1>3. CASE pc[q] = "idle"
  BY <1>1, <1>2, <1>3
     DEF RequestInv, HoldsRows, WritesSoFar, Enrolled, CourseDecision,
         PathDecision, CourseDecided, AfterLessonLock, AfterSectionLock,
         AfterCourseLock, AfterPathLock
<1>4. CASE pc[q] # "idle"
  <2> USE <1>4
  <2>1. /\ U(q)' = U(q) /\ L(q)' = L(q) /\ C(q)' = C(q) /\ P(q)' = P(q)
        /\ InPath(q)' <=> InPath(q)
    BY <1>1 DEF U, L, S, C, P, InPath
  <2>2. /\ U(q) \in Users /\ C(q) \in Courses
        /\ InPath(q) => P(q) \in Paths
        /\ <<"course_progress", U(q), C(q)>> \in Rows
        /\ InPath(q) => <<"path_progress", U(q), P(q)>> \in Rows
    BY RequestRows, LockedRows DEF TypeInv
  <2>3. HoldsRows(q)'
    <3>1. \A row \in Rows : rowLock[row] = q => rowLock'[row] = q
      BY DEF Commit, Unlock
    <3> QED
      BY <1>1, <1>2, <2>1, <2>2, <3>1 DEF RequestInv, HoldsRows
  <2>4. WritesSoFar(q)' /\ Enrolled(q)'
    BY <1>1, <1>2, <2>1 DEF RequestInv, WritesSoFar, Enrolled,
                            enrollmentTables
  <2>5. /\ pc[q] \in AfterCourseLock => <<U(q), C(q)>> # <<U(r), C(r)>>
        /\ pc[q] \in AfterPathLock /\ InPath(q) /\ InPath(r) =>
             <<U(q), P(q)>> # <<U(r), P(r)>>
    BY <1>2, CommitAdds DEF RequestInv, HoldsRows, AfterCourseLock,
                            AfterPathLock
  <2>6. CourseDecision(q)'
    <3>1. CASE pc[q] \in AfterCourseLock
      <4>1. <<U(q), C(q)>> # <<U(r), C(r)>>
        BY <2>5, <3>1
      <4>2. <<U(q), C(q)>> \in courseCertificate' <=>
              <<U(q), C(q)>> \in courseCertificate
        BY <2>2, <4>1, CommitAdds
      <4>3. <<U(q), C(q)>> \in SeenCourseCerts(q)' <=>
              <<U(q), C(q)>> \in SeenCourseCerts(q)
        BY <1>1, <2>1, <4>2 DEF SeenCourseCerts
      <4>4. ASSUME NEW l \in CourseLessons(C(q))
            PROVE  <<U(q), l>> \in SeenLessons(q)' <=>
                     <<U(q), l>> \in SeenLessons(q)
        <5>1. CourseOf[SectionOf[l]] = C(q)
          BY DEF CourseLessons
        <5>2. <<U(q), l>> # <<U(r), L(r)>>
          BY <4>1, <5>1 DEF C, S
        <5> QED
          BY <1>1, <2>1, <5>2, CommitAdds DEF SeenLessons
      <4>5. AllCompleted(q)' <=> AllCompleted(q)
        BY <2>1, <4>4 DEF AllCompleted
      <4> QED
        BY <1>1, <1>2, <2>1, <4>2, <4>3, <4>5 DEF RequestInv, CourseDecision
    <3>2. CASE pc[q] \notin AfterCourseLock
      BY <1>1, <3>2 DEF CourseDecision, CourseDecided, AfterCourseLock,
                        AfterPathLock
    <3> QED
      BY <3>1, <3>2
  <2>7. PathDecision(q)'
    <3>1. CASE pc[q] \in AfterPathLock /\ InPath(q)
      <4>1. ~InPath(r) \/ <<U(q), P(q)>> # <<U(r), P(r)>>
        BY <2>5, <3>1
      <4>2. <<U(q), P(q)>> \in pathCertificate' <=>
              <<U(q), P(q)>> \in pathCertificate
        BY <2>2, <3>1, <4>1, CommitAdds
      <4>3. <<U(q), P(q)>> \in SeenPathCerts(q)' <=>
              <<U(q), P(q)>> \in SeenPathCerts(q)
        BY <1>1, <2>1, <4>2 DEF SeenPathCerts
      <4>4. ASSUME NEW c \in CoursesIn(P(q))
            PROVE  <<U(q), c>> \in SeenCourseCerts(q)' <=>
                     <<U(q), c>> \in SeenCourseCerts(q)
        <5>1. c \in Courses /\ PathOf[c] = P(q)
          BY DEF CoursesIn
        <5>2. <<U(q), c>> # <<U(r), C(r)>>
          BY <3>1, <4>1, <5>1 DEF P, InPath
        <5>3. <<U(q), c>> \in courseCertificate' <=>
                <<U(q), c>> \in courseCertificate
          BY <2>2, <5>1, <5>2, CommitAdds
        <5> QED
          BY <1>1, <2>1, <5>3 DEF SeenCourseCerts
      <4>5. AllCertified(q)' <=> AllCertified(q)
        BY <2>1, <4>4 DEF AllCertified
      <4> QED
        BY <1>1, <1>2, <2>1, <4>2, <4>3, <4>5 DEF RequestInv, PathDecision
    <3>2. CASE ~(pc[q] \in AfterPathLock /\ InPath(q))
      BY <1>1, <1>2, <2>1, <3>2 DEF PathDecision, AfterPathLock, PathOnly,
                                    PathStatements
    <3> QED
      BY <3>1, <3>2
  <2> QED
    BY <2>3, <2>4, <2>6, <2>7 DEF RequestInv
<1> QED
  BY <1>3, <1>4

(***************************************************************************)
(* A commit keeps the invariant.                                           *)
(***************************************************************************)
LEMMA CommitKeeps ==
  ASSUME TypeInv, CertificateInvariant, NEW r \in Requests, Commit(r)
  PROVE  CertificateInvariant'
<1>1. CourseCertificatesExact' /\ PathCertificatesExact'
  BY CommitCourseExact, CommitPathExact DEF CourseCertificatesExact,
     PathCertificatesExact, Ledger!CourseDue, Ledger!PathDue
<1>2. RequestInv(r)'
  BY IdleInv DEF Commit
<1>3. ASSUME NEW q \in Requests PROVE RequestInv(q)'
  BY <1>2, <1>3, CommitOthers
<1> QED
  BY <1>1, <1>3 DEF CertificateInvariant

-----------------------------------------------------------------------------
(* The theorems *)

(***************************************************************************)
(* Every step keeps the invariant.                                         *)
(***************************************************************************)
LEMMA CertificateNext ==
  TypeInv /\ CertificateInvariant /\ [Next]_vars => CertificateInvariant'
<1> SUFFICES ASSUME TypeInv, CertificateInvariant, [Next]_vars
             PROVE  CertificateInvariant'
  OBVIOUS
<1>1. ASSUME NEW r \in Requests, Step(r) PROVE CertificateInvariant'
  <2>1. CASE EnrollmentGuard(r) \/ FastPath(r)
    BY <2>1, GuardsKeep
  <2>2. CASE \/ CaptureCourseCert(r) \/ CapturePathCert(r)
             \/ CountLessons(r) \/ CountSections(r) \/ CountCourses(r)
             \/ FindScope(r) \/ FindPosition(r)
    BY <2>2, ReadsKeep
  <2>3. CASE \/ UpsertLesson(r) \/ UpsertSection(r) \/ UpsertCourse(r)
             \/ UpsertPath(r) \/ UpdatePosition(r) \/ CreatePosition(r)
    BY <2>3, UpsertsKeep
  <2>4. CASE FindCourseCert(r) \/ CountCompleted(r)
    BY <2>4, CourseChecksKeep
  <2>5. CASE FindPathCert(r) \/ FindPathEnrollment(r) \/ CountCourseCerts(r)
    BY <2>5, PathChecksKeep
  <2>6. CASE IssueCourseCert(r)
    BY <2>6, IssueCourseKeeps
  <2>7. CASE IssuePathCert(r)
    BY <2>7, IssuePathKeeps
  <2>8. CASE Commit(r)
    BY <2>8, CommitKeeps
  <2> QED
    BY <1>1, <2>1, <2>2, <2>3, <2>4, <2>5, <2>6, <2>7, <2>8 DEF Step
<1>2. CASE UNCHANGED vars
  <2>1. ASSUME NEW r \in Requests PROVE RequestInv(r)'
    <3>1. RequestInv(r) /\ arg' = arg /\ own' = own /\ pc' = pc
          /\ UNCHANGED tables
      BY <1>2 DEF vars, cascadeVars, CertificateInvariant
    <3>2. /\ U(r)' = U(r) /\ C(r)' = C(r) /\ P(r)' = P(r)
          /\ InPath(r)' <=> InPath(r)
          /\ SeenCourseCerts(r)' = SeenCourseCerts(r)
          /\ SeenPathCerts(r)' = SeenPathCerts(r)
          /\ AllCompleted(r)' <=> AllCompleted(r)
          /\ AllCertified(r)' <=> AllCertified(r)
      BY <3>1, ViewKept DEF tables, progressTables
    <3> QED
      BY <3>1, <3>2 DEF RequestInv, HoldsRows, WritesSoFar, Enrolled,
         CourseDecision, PathDecision, tables, enrollmentTables, progressTables
  <2> QED
    BY <1>2, <2>1 DEF vars, tables, progressTables, CertificateInvariant,
       CourseCertificatesExact, PathCertificatesExact, Ledger!CourseDue,
       Ledger!PathDue
<1>3. ASSUME NEW r \in Requests, Client(r) \/ Abort(r)
      PROVE  CertificateInvariant'
  BY <1>3, ClientKeeps, RollbackKeeps DEF Abort
<1> QED
  BY <1>1, <1>2, <1>3 DEF Next

(***************************************************************************)
(* A database in which nobody has completed anything satisfies it.         *)
(***************************************************************************)
LEMMA CertificateInit == Init => CertificateInvariant
<1> SUFFICES ASSUME Init PROVE CertificateInvariant
  OBVIOUS
<1>1. lessonProgress = {} /\ courseCertificate = {} /\ pathCertificate = {}
  BY DEF Init, NothingCompleted
<1>2. CourseCertificatesExact
  BY <1>1 DEF CourseCertificatesExact, Ledger!CourseDue
<1>3. PathCertificatesExact
  BY <1>1 DEF PathCertificatesExact, Ledger!PathDue
<1>4. ASSUME NEW r \in Requests PROVE RequestInv(r)
  BY DEF Init, CascadeIdle, RequestInv, HoldsRows, WritesSoFar, Enrolled,
         CourseDecision, PathDecision, NoWrites, CourseDecided,
         AfterLessonLock, AfterSectionLock, AfterCourseLock, AfterPathLock
<1> QED
  BY <1>2, <1>3, <1>4 DEF CertificateInvariant

(***************************************************************************)
(* The invariant holds throughout, whatever requests overlap.              *)
(***************************************************************************)
THEOREM CertificatesKept == Spec => []CertificateInvariant
<1>1. Init => CertificateInvariant
  BY CertificateInit
<1>2. TypeInv /\ CertificateInvariant /\ [Next]_vars => CertificateInvariant'
  BY CertificateNext
<1> QED
  BY <1>1, <1>2, TypeCorrect, PTL DEF Spec

(***************************************************************************)
(* A user holds a course certificate exactly when they completed every     *)
(* lesson of the course.                                                   *)
(***************************************************************************)
THEOREM CourseCertificatesAreExact == Spec => []CourseCertificatesExact
<1>1. CertificateInvariant => CourseCertificatesExact
  BY DEF CertificateInvariant
<1> QED
  BY <1>1, CertificatesKept, PTL

(***************************************************************************)
(* A user holds a path certificate exactly when every course of the path   *)
(* is certified.                                                           *)
(***************************************************************************)
THEOREM PathCertificatesAreExact == Spec => []PathCertificatesExact
<1>1. CertificateInvariant => PathCertificatesExact
  BY DEF CertificateInvariant
<1> QED
  BY <1>1, CertificatesKept, PTL
\* What each step does to the lessons and certificates the ledger knows.
LEMMA LedgerNext ==
  TypeInv /\ CertificateInvariant /\ [Next]_vars => [Ledger!Next]_(Ledger!ledger)
<1> SUFFICES ASSUME TypeInv, CertificateInvariant, [Next]_vars
             PROVE  [Ledger!Next]_(Ledger!ledger)
  OBVIOUS
<1>1. CASE \E r \in Requests : Commit(r)
  <2>1. PICK r \in Requests : Commit(r)
    BY <1>1
  <2>2. /\ U(r) \in Users /\ L(r) \in Lessons
        /\ lessonProgress' = lessonProgress \cup {<<U(r), L(r)>>}
    BY <2>1, CommitAdds
  <2>3. Ledger!Complete(U(r), L(r))
    BY <2>1, <2>2, CommitCourseExact, CommitPathExact DEF Ledger!Complete
  <2> QED
    BY <2>2, <2>3 DEF Ledger!Next
<1>2. CASE UNCHANGED vars
  BY <1>2 DEF vars, tables, progressTables, Ledger!ledger
<1>3. ASSUME NEW r \in Requests, Client(r) \/ Abort(r)
      PROVE  UNCHANGED Ledger!ledger
  BY <1>3 DEF Client, Receive, Abort, Rollback, tables, progressTables,
              Ledger!ledger
<1>4. ASSUME NEW r \in Requests, Step(r), ~Commit(r)
      PROVE  UNCHANGED Ledger!ledger
  <2> USE DEF tables, progressTables, Ledger!ledger, ReadsInto, WritesRow,
              Rollback
  <2>1. CASE \/ EnrollmentGuard(r) \/ FastPath(r)
             \/ CaptureCourseCert(r) \/ CapturePathCert(r)
             \/ CountLessons(r) \/ CountSections(r) \/ CountCourses(r)
             \/ FindScope(r) \/ FindPosition(r)
    BY <2>1 DEF EnrollmentGuard, FastPath, CaptureCourseCert,
       CapturePathCert, CountLessons, CountSections, CountCourses,
       FindScope, FindPosition
  <2>2. CASE \/ UpsertLesson(r) \/ UpsertSection(r) \/ UpsertCourse(r)
             \/ UpsertPath(r) \/ UpdatePosition(r) \/ CreatePosition(r)
    BY <2>2 DEF UpsertLesson, UpsertSection, UpsertCourse, UpsertPath,
       UpdatePosition, CreatePosition, WritePosition
  <2>3. CASE \/ FindCourseCert(r) \/ CountCompleted(r) \/ FindPathCert(r)
             \/ FindPathEnrollment(r) \/ CountCourseCerts(r)
    BY <2>3 DEF FindCourseCert, CountCompleted, FindPathCert,
       FindPathEnrollment, CountCourseCerts
  <2>4. CASE IssueCourseCert(r) \/ IssuePathCert(r)
    BY <2>4 DEF IssueCourseCert, IssuePathCert
  <2> QED
    BY <1>4, <2>1, <2>2, <2>3, <2>4 DEF Step
<1> QED
  BY <1>1, <1>2, <1>3, <1>4 DEF Next

(***************************************************************************)
(* The cascade implements the ledger: each of its steps leaves lessons and *)
(* certificates alone, or completes one lesson and issues what is due.     *)
(***************************************************************************)
THEOREM CascadeImplementsLedger == Spec => ImplementsLedger
<1>1. Init => Ledger!Init
  BY DEF Init, NothingCompleted, Ledger!Init
<1> QED
  BY <1>1, LedgerNext, TypeCorrect, CertificatesKept, PTL
     DEF Spec, ImplementsLedger, Ledger!Spec
-----------------------------------------------------------------------------
(* What a step leaves alone *)

\* Nobody's state, and nobody's locks, but those of r change; the step itself
\* adds events only.
OthersRest(r) ==
  /\ \A q \in Requests \ {r} :
       /\ pc'[q] = pc[q] /\ arg'[q] = arg[q] /\ local'[q] = local[q] /\ own'[q] = own[q]
       /\ \A row \in Rows : rowLock'[row] = q <=> rowLock[row] = q
  /\ CascadeLocks'
  /\ analytics \subseteq analytics'

\* The rows nobody but a cascade locks are rows of the lock table.
LEMMA InsertRowsAreRows == InsertRows \subseteq Rows
BY DEF InsertRows, Rows

(***************************************************************************)
(* The three ways a step can move: read, write a row, end the request.     *)
(***************************************************************************)
LEMMA ReadRests ==
  ASSUME TypeInv, CascadeLocks, NEW r \in Requests, NEW next, NEW locals,
         ReadsInto(r, next, locals)
  PROVE  OthersRest(r) /\ UNCHANGED <<enrollmentTables, progressTables>>
BY DEF ReadsInto, Goto, OthersRest, CascadeLocks, TypeInv, TypeOK, tables

\* Taking a row moves no other request's locks, and the rows that only cascades
\* lock stay theirs.
LEMMA LockRests ==
  ASSUME TypeInv, CascadeLocks, NEW r \in Requests, NEW row, Lockable(r, row), Lock(r, row)
  PROVE  /\ \A q \in Requests \ {r}, other \in Rows : rowLock'[other] = q <=> rowLock[other] = q
         /\ CascadeLocks'
         /\ \A other \in Rows : rowLock'[other] = r => rowLock[other] = r \/ other = row
<1>1. Free \notin Requests BY SentinelAssumption, RequestsAssumption
<1>2. rowLock' = [rowLock EXCEPT ![row] = r] /\ rowLock[row] \in {Free, r}
  BY DEF Lock, Lockable
<1>3. DOMAIN rowLock = Rows BY DEF TypeInv, TypeOK, TablesTypeOK
<1>4. \A other \in Rows : rowLock'[other] = IF other = row THEN r ELSE rowLock[other]
  BY <1>2, <1>3
<1>5. CascadeLocks' BY <1>4, InsertRowsAreRows DEF CascadeLocks, InsertRows
<1> QED BY <1>1, <1>2, <1>4, <1>5

\* A request that ends leaves the others alone.
LEMMA EndRests ==
  ASSUME TypeInv, CascadeLocks, NEW r \in Requests, NEW certificates,
         Finish(r, certificates), Unlock(r) \/ UNCHANGED rowLock, UNCHANGED analytics
  PROVE  OthersRest(r)
<1>1. Free \notin Requests BY SentinelAssumption, RequestsAssumption
<1>2. /\ \A q \in Requests \ {r}, row \in Rows : rowLock'[row] = q <=> rowLock[row] = q
      /\ CascadeLocks'
  BY <1>1, InsertRowsAreRows DEF CascadeLocks, InsertRows, Unlock
<1> QED BY <1>2 DEF Finish, Goto, OthersRest, TypeInv, TypeOK

\* So does every step of a request; only a commit publishes.
LEMMA StepRests ==
  ASSUME TypeInv, CascadeLocks, NEW r \in Requests, Client(r) \/ Step(r) \/ Abort(r)
  PROVE  /\ OthersRest(r)
         /\ Commit(r) \/ UNCHANGED <<enrollmentTables, progressTables>>
<1>1. CASE Client(r)
  BY <1>1 DEF Client, Receive, Goto, OthersRest, CascadeLocks, TypeInv, TypeOK, tables
<1>2. ASSUME Rollback(r)
      PROVE  OthersRest(r) /\ UNCHANGED <<enrollmentTables, progressTables>>
  BY <1>2, EndRests DEF Rollback
<1>3. CASE Abort(r) BY <1>2, <1>3 DEF Abort
<1>4. CASE EnrollmentGuard(r) \/ FastPath(r)
  <2>1. CASE Finish(r, {})
    BY <1>4, <2>1, EndRests DEF EnrollmentGuard, FastPath, tables
  <2>2. CASE \E next : Goto(r, next) /\ UNCHANGED <<arg, local, own>>
    BY <1>4, <2>2 DEF EnrollmentGuard, FastPath, Goto, OthersRest, CascadeLocks, TypeInv,
      TypeOK, tables
  <2> QED BY <1>4, <2>1, <2>2 DEF EnrollmentGuard, FastPath
<1>5. CASE \/ CaptureCourseCert(r) \/ CapturePathCert(r)
           \/ CountLessons(r) \/ CountSections(r) \/ CountCourses(r)
           \/ FindScope(r) \/ FindPosition(r) \/ FindCourseCert(r) \/ CountCompleted(r)
           \/ FindPathCert(r) \/ FindPathEnrollment(r) \/ CountCourseCerts(r)
  <2>1. \E next, locals : ReadsInto(r, next, locals)
    <3>1. CASE CaptureCourseCert(r) BY <3>1 DEF CaptureCourseCert
    <3>2. CASE CapturePathCert(r) BY <3>2 DEF CapturePathCert
    <3>3. CASE CountLessons(r) \/ CountSections(r) \/ CountCourses(r)
      BY <3>3 DEF CountLessons, CountSections, CountCourses
    <3>4. CASE FindScope(r) \/ FindPosition(r) BY <3>4 DEF FindScope, FindPosition
    <3>5. CASE FindCourseCert(r) \/ CountCompleted(r)
      BY <3>5 DEF FindCourseCert, CountCompleted
    <3>6. CASE FindPathCert(r) \/ FindPathEnrollment(r) \/ CountCourseCerts(r)
      BY <3>6 DEF FindPathCert, FindPathEnrollment, CountCourseCerts
    <3> QED BY <1>5, <3>1, <3>2, <3>3, <3>4, <3>5, <3>6
  <2> QED BY <2>1, ReadRests
<1>6. ASSUME NEW row, NEW next, NEW writes,
             WritesRow(r, row, next, writes), UNCHANGED analytics
      PROVE  OthersRest(r) /\ UNCHANGED <<enrollmentTables, progressTables>>
  BY <1>6, LockRests DEF WritesRow, Goto, OthersRest, TypeInv, TypeOK
<1>7. CASE UpsertLesson(r) \/ UpsertSection(r) \/ UpsertCourse(r) \/ UpsertPath(r)
  <2>1. \E row, next, writes : WritesRow(r, row, next, writes) /\ UNCHANGED analytics
    BY <1>7 DEF UpsertLesson, UpsertSection, UpsertCourse, UpsertPath
  <2> QED BY <1>6, <2>1
<1>8. CASE UpdatePosition(r) \/ CreatePosition(r)
  BY <1>2, <1>6, <1>8 DEF UpdatePosition, CreatePosition, WritePosition
<1>9. CASE IssueCourseCert(r) \/ IssuePathCert(r)
  <2>1. CASE Rollback(r) BY <1>2, <2>1
  <2>2. CASE ~Rollback(r)
    <3>1. \E row : Lockable(r, row) /\ Lock(r, row)
      BY <1>9, <2>2 DEF IssueCourseCert, IssuePathCert
    <3>2. /\ \A q \in Requests \ {r} :
               \A row \in Rows : rowLock'[row] = q <=> rowLock[row] = q
          /\ CascadeLocks'
      BY <3>1, LockRests
    <3> QED
      BY <1>9, <2>2, <3>2 DEF IssueCourseCert, IssuePathCert, Goto, OthersRest, TypeInv, TypeOK
  <2> QED BY <2>1, <2>2
<1>10. CASE Commit(r)
  BY <1>10, EndRests DEF Commit
<1> QED BY <1>1, <1>3, <1>4, <1>5, <1>7, <1>8, <1>9, <1>10 DEF Step
-----------------------------------------------------------------------------
(* No INSERT meets a row *)

(***************************************************************************)
(* Two requests of a user whose positions go to one scope are about one    *)
(* path, or about one standalone course, whose progress row both hold once *)
(* they are past it: they are the same request.                            *)
(***************************************************************************)
LEMMA OneInScope ==
  ASSUME TypeInv, CertificateInvariant, NEW r \in Requests, NEW q \in Requests,
         pc[r] \in AfterPathLock, pc[q] \in AfterPathLock,
         U(r) = U(q), ScopeOf(C(r)) = ScopeOf(C(q))
  PROVE  r = q
<1>1. HoldsRows(r) /\ HoldsRows(q) BY DEF CertificateInvariant, RequestInv
<1>2. pc[r] \in AfterCourseLock /\ pc[q] \in AfterCourseLock BY DEF AfterCourseLock
<1>3. pc[r] # "idle" /\ pc[q] # "idle" BY DEF AfterPathLock
<1>4. /\ C(r) \in Courses /\ C(q) \in Courses
      /\ InPath(r) => P(r) \in Paths
      /\ InPath(q) => P(q) \in Paths
  BY <1>3, RequestRows DEF TypeInv
<1>5. \/ InPath(r) /\ InPath(q) /\ P(r) = P(q)
      \/ C(r) = C(q)
  BY <1>4, DisjointScopes DEF ScopeOf, InPath, P
<1> QED BY <1>1, <1>2, <1>5 DEF HoldsRows

(***************************************************************************)
(* The certificate a request has inserted is one no other request has, and *)
(* no other request is about to insert.                                    *)
(***************************************************************************)
LEMMA OneIssuer ==
  ASSUME TypeInv, CertificateInvariant, NEW r \in Requests, NEW q \in Requests, U(r) = U(q)
  PROVE  /\ own[r].courseCert /\ C(r) = C(q) /\ pc[q] \in AfterCourseLock => r = q
         /\ own[r].pathCert /\ P(r) = P(q) /\ pc[q] \in AfterPathLock => r = q
<1>1. /\ HoldsRows(r) /\ HoldsRows(q) /\ WritesSoFar(r) /\ PathOnly(r)
  BY DEF CertificateInvariant, RequestInv, TypeInv
<1>2. own[r].courseCert => pc[r] \in AfterCourseLock
  BY <1>1 DEF WritesSoFar, CourseDecided, AfterCourseLock, AfterPathLock
<1>3. own[r].pathCert => pc[r] \in AfterPathLock /\ InPath(r)
  BY <1>1 DEF WritesSoFar, AfterPathLock, PathOnly
<1> QED BY <1>1, <1>2, <1>3 DEF HoldsRows, InPath

(***************************************************************************)
(* The requests that do not move keep their part.                          *)
(***************************************************************************)
LEMMA OthersPlaced ==
  ASSUME TypeInv, CertificateInvariant, InsertInvariant,
         NEW r \in Requests, OthersRest(r),
         Commit(r) \/ UNCHANGED <<enrollmentTables, progressTables>>,
         NEW q \in Requests, q # r
  PROVE  Placing(q)' /\ InsertLocks(q)'
<1>1. /\ pc'[q] = pc[q] /\ arg'[q] = arg[q] /\ local'[q] = local[q] /\ own'[q] = own[q]
      /\ \A row \in Rows : rowLock'[row] = q <=> rowLock[row] = q
  BY DEF OthersRest
<1>2. U(q)' = U(q) /\ C(q)' = C(q) /\ P(q)' = P(q) BY <1>1 DEF U, C, P, S, L
<1>3. Placing(q) /\ InsertLocks(q) BY DEF InsertInvariant
<1>4. InsertLocks(q)' BY <1>1, <1>2, <1>3 DEF InsertLocks, Rows
<1>5. ASSUME pc[q] = "writePosition", ~local[q].found
      PROVE  lastPosition'[<<U(q), local[q].scope>>] = NoRow
  <2>1. lastPosition[<<U(q), local[q].scope>>] = NoRow BY <1>3, <1>5 DEF Placing
  <2>2. CASE UNCHANGED progressTables BY <2>1, <2>2 DEF progressTables
  <2>3. CASE Commit(r) /\ own[r].position
    <3>1. /\ pc[r] = "commit" /\ lastPosition' = SeenPositions(r)
      BY <2>3 DEF Commit
    <3>2. Placing(r) BY DEF InsertInvariant
    <3>3. local[r].scope = ScopeOf(C(r)) /\ local[q].scope = ScopeOf(C(q))
      BY <1>3, <1>5, <3>1, <3>2 DEF Placing, Scoped, AfterPosition, CourseDecided
    <3>4. <<U(q), local[q].scope>> # <<U(r), local[r].scope>>
      BY <1>5, <3>1, <3>3, OneInScope DEF AfterPathLock
    <3>5. lastPosition \in [Users \X Scopes -> Lessons \cup {NoRow}]
      BY DEF TypeInv, TypeOK, TablesTypeOK
    <3>6. lastPosition' = [lastPosition EXCEPT ![<<U(r), local[r].scope>>] = L(r)]
      BY <2>3, <3>1 DEF SeenPositions
    <3> QED BY <2>1, <3>4, <3>5, <3>6
  <2>4. CASE Commit(r) /\ ~own[r].position
    BY <2>1, <2>4 DEF Commit, SeenPositions
  <2> QED BY <2>2, <2>3, <2>4
<1>6. Placing(q)' BY <1>1, <1>2, <1>3, <1>5 DEF Placing
<1> QED BY <1>4, <1>6

(***************************************************************************)
(* The request that moves: when it ends, it holds nothing and is nowhere.  *)
(***************************************************************************)
LEMMA EndPlaced ==
  ASSUME TypeInv, CertificateInvariant, InsertInvariant, NEW r \in Requests, NEW certificates,
         Finish(r, certificates),
         \/ Unlock(r)
         \/ pc[r] \in {"guard", "fastPath"} /\ UNCHANGED rowLock
  PROVE  Placing(r)' /\ InsertLocks(r)'
<1>1. pc'[r] = "idle" /\ own'[r] = NoWrites BY DEF Finish, Goto, TypeInv, TypeOK
<1>2. Placing(r)'
  BY <1>1 DEF Placing, Scoped, AfterPosition, CourseDecided, NoWrites
<1>3. CASE Unlock(r)
  <2>1. \A row \in Rows : rowLock'[row] # r
    BY <1>3, SentinelAssumption, RequestsAssumption DEF Unlock
  <2> QED BY <1>2, <2>1 DEF InsertLocks, Rows
<1>4. CASE pc[r] \in {"guard", "fastPath"} /\ UNCHANGED rowLock
  <2>1. ~own[r].courseCert /\ ~own[r].pathCert /\ ~own[r].position
    BY <1>4 DEF CertificateInvariant, RequestInv, WritesSoFar, InsertInvariant, Placing,
      AfterPosition, CourseDecided
  <2> QED BY <1>2, <1>4, <2>1 DEF InsertInvariant, InsertLocks
<1> QED BY <1>3, <1>4

(***************************************************************************)
(* When it reads, only where the position goes and whether it was found    *)
(* matter.                                                                 *)
(***************************************************************************)
LEMMA ReadPlaced ==
  ASSUME TypeInv, InsertInvariant, NEW r \in Requests, NEW next, NEW locals,
         ReadsInto(r, next, locals), pc[r] # "idle",
         \/ locals.scope = local[r].scope /\ locals.found = local[r].found
            /\ next # "writePosition"
            /\ (next \in Scoped => pc[r] \in Scoped)
            /\ (pc[r] \in AfterPosition => next \in AfterPosition)
         \/ /\ pc[r] = "findScope" /\ next = "findPosition"
            /\ locals.scope = ScopeOf(C(r))
         \/ /\ pc[r] = "findPosition" /\ next = "writePosition"
            /\ locals.scope = local[r].scope
            /\ ~locals.found => lastPosition[<<U(r), local[r].scope>>] = NoRow
  PROVE  Placing(r)' /\ InsertLocks(r)'
<1>1. /\ pc'[r] = next /\ local'[r] = locals /\ UNCHANGED <<arg, own, rowLock, lastPosition>>
  BY DEF ReadsInto, Goto, TypeInv, TypeOK, tables, progressTables
<1>2. U(r)' = U(r) /\ C(r)' = C(r) /\ P(r)' = P(r) BY <1>1 DEF U, C, P, S, L
<1>3. Placing(r) /\ InsertLocks(r) BY DEF InsertInvariant
<1>4. Placing(r)'
  BY <1>1, <1>2, <1>3 DEF Placing, Scoped, AfterPosition, CourseDecided
<1>5. own[r].position => locals.scope = local[r].scope
  BY <1>3 DEF Placing, AfterPosition, CourseDecided
<1>6. InsertLocks(r)' BY <1>1, <1>2, <1>3, <1>5 DEF InsertLocks
<1> QED BY <1>4, <1>6

(***************************************************************************)
(* When it writes, it locks the row it writes.                             *)
(***************************************************************************)
LEMMA WritePlaced ==
  ASSUME TypeInv, InsertInvariant, NEW r \in Requests, pc[r] # "idle",
         NEW row, NEW next, NEW writes, NEW locals,
         TakesRow(r, row, next, writes), local' = [local EXCEPT ![r] = locals],
         locals.scope = local[r].scope,
         (next \in Scoped => pc[r] \in Scoped), next # "writePosition",
         pc[r] \in AfterPosition \/ writes.position => next \in AfterPosition,
         own[r].courseCert => writes.courseCert,
         own[r].pathCert => writes.pathCert,
         own[r].position => writes.position,
         \/ row[1] \notin {"course_certificate", "path_certificate", "last_positions"}
         \/ row = <<"course_certificate", U(r), C(r)>> /\ writes.courseCert
         \/ row = <<"path_certificate", U(r), P(r)>> /\ writes.pathCert
         \/ row = <<"last_positions", U(r), local[r].scope>> /\ writes.position
  PROVE  Placing(r)' /\ InsertLocks(r)'
<1>1. /\ pc'[r] = next /\ local'[r] = locals /\ own'[r] = writes
      /\ UNCHANGED <<arg, lastPosition>>
  BY DEF TakesRow, Goto, TypeInv, TypeOK, progressTables
<1>2. U(r)' = U(r) /\ C(r)' = C(r) /\ P(r)' = P(r) BY <1>1 DEF U, C, P, S, L
<1>3. Placing(r) /\ InsertLocks(r) /\ CascadeLocks BY DEF InsertInvariant
<1>4. Placing(r)'
  BY <1>1, <1>2, <1>3 DEF Placing, Scoped, AfterPosition, CourseDecided
<1>5. \A other \in Rows : rowLock'[other] = r => rowLock[other] = r \/ other = row
  BY <1>3, LockRests DEF TakesRow
<1>6. ASSUME NEW u \in Users
      PROVE  /\ \A c \in Courses : rowLock'[<<"course_certificate", u, c>>] = r =>
                  writes.courseCert /\ u = U(r) /\ c = C(r)
             /\ \A p \in Paths : rowLock'[<<"path_certificate", u, p>>] = r =>
                  writes.pathCert /\ u = U(r) /\ p = P(r)
             /\ \A s \in Scopes : rowLock'[<<"last_positions", u, s>>] = r =>
                  writes.position /\ u = U(r) /\ s = local[r].scope
  <2>1. /\ \A c \in Courses : <<"course_certificate", u, c>> \in Rows
        /\ \A p \in Paths : <<"path_certificate", u, p>> \in Rows
        /\ \A s \in Scopes : <<"last_positions", u, s>> \in Rows
    BY DEF Rows
  <2>2. ASSUME NEW c \in Courses, rowLock'[<<"course_certificate", u, c>>] = r
        PROVE  writes.courseCert /\ u = U(r) /\ c = C(r)
    BY <1>3, <1>5, <2>1, <2>2 DEF InsertLocks
  <2>3. ASSUME NEW p \in Paths, rowLock'[<<"path_certificate", u, p>>] = r
        PROVE  writes.pathCert /\ u = U(r) /\ p = P(r)
    BY <1>3, <1>5, <2>1, <2>3 DEF InsertLocks
  <2>4. ASSUME NEW s \in Scopes, rowLock'[<<"last_positions", u, s>>] = r
        PROVE  writes.position /\ u = U(r) /\ s = local[r].scope
    BY <1>3, <1>5, <2>1, <2>4 DEF InsertLocks
  <2> QED BY <2>2, <2>3, <2>4
<1>7. InsertLocks(r)' BY <1>1, <1>2, <1>6 DEF InsertLocks
<1> QED BY <1>4, <1>7

\* What a request reads keeps what it has placed, and the locks it inserts under.
LEMMA ReadsPlaced ==
  ASSUME TypeInv, CertificateInvariant, InsertInvariant, NEW r \in Requests,
         \/ CaptureCourseCert(r) \/ CapturePathCert(r)
         \/ CountLessons(r) \/ CountSections(r) \/ CountCourses(r)
         \/ FindScope(r) \/ FindPosition(r) \/ FindCourseCert(r) \/ CountCompleted(r)
         \/ FindPathCert(r) \/ FindPathEnrollment(r) \/ CountCourseCerts(r)
  PROVE  Placing(r)' /\ InsertLocks(r)'
<1> USE DEF Scoped, AfterPosition, CourseDecided
<1>1. local[r] \in Locals /\ Enrolled(r) /\ Placing(r)
  BY DEF TypeInv, TypeOK, CertificateInvariant, RequestInv, InsertInvariant
<1>2. ASSUME NEW next, NEW locals, ReadsInto(r, next, locals), pc[r] # "idle",
             locals.scope = local[r].scope, locals.found = local[r].found,
             next # "writePosition", next \in Scoped => pc[r] \in Scoped,
             pc[r] \in AfterPosition => next \in AfterPosition
      PROVE  Placing(r)' /\ InsertLocks(r)'
  BY <1>2, ReadPlaced
<1>3. CASE CaptureCourseCert(r)
  <2> DEFINE locals == [local[r] EXCEPT !.preCourse =
                          IF <<U(r), C(r)>> \in courseCertificate
                          THEN "present" ELSE "absent"]
             next == IF InPath(r) /\ locals.prePath = "unread"
                     THEN "capture" ELSE "upsertLesson"
  <2>1. locals.scope = local[r].scope /\ locals.found = local[r].found BY <1>1 DEF Locals
  <2>2. next \in {"capture", "upsertLesson"} OBVIOUS
  <2>3. ReadsInto(r, next, locals) /\ pc[r] = "capture" BY <1>3 DEF CaptureCourseCert
  <2> HIDE DEF locals, next
  <2> QED BY <1>2, <2>1, <2>2, <2>3
<1>4. CASE CapturePathCert(r)
  <2> DEFINE locals == [local[r] EXCEPT !.prePath =
                          IF <<U(r), P(r)>> \in pathCertificate
                          THEN "present" ELSE "absent"]
             next == IF locals.preCourse = "unread" THEN "capture" ELSE "upsertLesson"
  <2>1. locals.scope = local[r].scope /\ locals.found = local[r].found BY <1>1 DEF Locals
  <2>2. next \in {"capture", "upsertLesson"} OBVIOUS
  <2>3. ReadsInto(r, next, locals) /\ pc[r] = "capture" BY <1>4 DEF CapturePathCert
  <2> HIDE DEF locals, next
  <2> QED BY <1>2, <2>1, <2>2, <2>3
<1>5. CASE CountLessons(r) \/ CountSections(r) \/ CountCourses(r)
  <2>1. ASSUME NEW n, NEW next, ReadsInto(r, next, [local[r] EXCEPT !.counted = n]),
               pc[r] \notin {"idle"} \cup Scoped, next \notin Scoped
        PROVE  Placing(r)' /\ InsertLocks(r)'
    <3> DEFINE locals == [local[r] EXCEPT !.counted = n]
    <3>1. locals.scope = local[r].scope /\ locals.found = local[r].found BY <1>1 DEF Locals
    <3>2. ReadsInto(r, next, locals) BY <2>1
    <3> HIDE DEF locals
    <3> QED BY <1>2, <2>1, <3>1, <3>2
  <2>2. CASE CountLessons(r) BY <2>1, <2>2 DEF CountLessons
  <2>3. CASE CountSections(r) BY <2>1, <2>3 DEF CountSections
  <2>4. CASE CountCourses(r) BY <2>1, <2>4 DEF CountCourses
  <2> QED BY <1>5, <2>2, <2>3, <2>4
<1>6. CASE FindScope(r)
  <2> DEFINE scope == IF InPath(r) /\ pathEnrollment[<<U(r), P(r)>>] > 0 THEN P(r) ELSE C(r)
             locals == [local[r] EXCEPT !.scope = scope]
  <2>1. /\ pc[r] = "findScope" /\ ReadsInto(r, "findPosition", locals)
    BY <1>6 DEF FindScope
  <2>2. scope = ScopeOf(C(r)) BY <1>1, <2>1 DEF Enrolled, ScopeOf, InPath, P
  <2>3. locals.scope = ScopeOf(C(r)) BY <1>1, <2>2 DEF Locals
  <2> HIDE DEF locals, scope
  <2> QED BY <2>1, <2>3, ReadPlaced
<1>7. CASE FindPosition(r)
  <2> DEFINE found == lastPosition[<<U(r), local[r].scope>>] # NoRow
             locals == [local[r] EXCEPT !.found = found]
  <2>1. pc[r] = "findPosition" /\ ReadsInto(r, "writePosition", locals)
    BY <1>7 DEF FindPosition
  <2>2. /\ locals.scope = local[r].scope
        /\ ~locals.found => lastPosition[<<U(r), local[r].scope>>] = NoRow
    BY <1>1 DEF Locals
  <2> HIDE DEF locals
  <2> QED BY <2>1, <2>2, ReadPlaced
<1>8. CASE FindCourseCert(r) \/ FindPathCert(r)
  <2>1. PICK next, locals : /\ ReadsInto(r, next, locals)
                            /\ pc[r] \in AfterPosition /\ next \in AfterPosition
                            /\ locals.scope = local[r].scope /\ locals.found = local[r].found
    <3>1. /\ [local[r] EXCEPT !.courseCert = TRUE].scope = local[r].scope
          /\ [local[r] EXCEPT !.courseCert = TRUE].found = local[r].found
          /\ [local[r] EXCEPT !.pathCert = TRUE].scope = local[r].scope
          /\ [local[r] EXCEPT !.pathCert = TRUE].found = local[r].found
      BY <1>1 DEF Locals
    <3>2. CASE FindCourseCert(r)
      BY <3>1, <3>2 DEF FindCourseCert, AfterCourseCheck
    <3>3. CASE FindPathCert(r)
      BY <3>1, <3>3 DEF FindPathCert
    <3> QED BY <1>8, <3>2, <3>3
  <2> QED BY <1>2, <2>1
<1>9. CASE CountCompleted(r) \/ FindPathEnrollment(r) \/ CountCourseCerts(r)
  <2>1. PICK next : /\ ReadsInto(r, next, local[r])
                    /\ pc[r] \in AfterPosition /\ next \in AfterPosition
    BY <1>9 DEF CountCompleted, FindPathEnrollment, CountCourseCerts, AfterCourseCheck
  <2> QED BY <1>2, <2>1
<1> QED BY <1>3, <1>4, <1>5, <1>6, <1>7, <1>8, <1>9

\* Likewise what it writes.
LEMMA WritesPlaced ==
  ASSUME TypeInv, InsertInvariant, NEW r \in Requests, ~Rollback(r),
         \/ UpsertLesson(r) \/ UpsertSection(r) \/ UpsertCourse(r) \/ UpsertPath(r)
         \/ UpdatePosition(r) \/ CreatePosition(r)
         \/ IssueCourseCert(r) \/ IssuePathCert(r)
  PROVE  Placing(r)' /\ InsertLocks(r)'
<1> USE DEF Scoped, AfterPosition, CourseDecided
<1>1. own[r] \in Writes /\ local[r] \in Locals /\ Placing(r)
  BY DEF TypeInv, TypeOK, InsertInvariant
<1>2. ASSUME NEW row, NEW next, NEW writes, WritesRow(r, row, next, writes)
      PROVE  TakesRow(r, row, next, writes) /\ local' = [local EXCEPT ![r] = local[r]]
  BY <1>2 DEF WritesRow, TakesRow, TypeInv, TypeOK
<1>3. CASE UpsertLesson(r) \/ UpsertSection(r) \/ UpsertCourse(r) \/ UpsertPath(r)
  <2>1. PICK row, next, writes :
          /\ WritesRow(r, row, next, writes)
          /\ row[1] \in {"lesson_progress", "section_progress", "course_progress",
                         "path_progress"}
          /\ pc[r] # "idle" /\ pc[r] \notin Scoped /\ next \notin Scoped
          /\ writes.courseCert = own[r].courseCert /\ writes.pathCert = own[r].pathCert
          /\ writes.position = own[r].position
    <3>1. CASE UpsertLesson(r) BY <1>1, <3>1 DEF UpsertLesson, Writes
    <3>2. CASE UpsertSection(r) BY <1>1, <3>2 DEF UpsertSection, Writes
    <3>3. CASE UpsertCourse(r) BY <1>1, <3>3 DEF UpsertCourse, Writes
    <3>4. CASE UpsertPath(r) BY <1>1, <3>4 DEF UpsertPath, Writes
    <3> QED BY <1>3, <3>1, <3>2, <3>3, <3>4
  <2>2. ~own[r].position BY <1>1, <2>1 DEF Placing
  <2> QED BY <1>2, <2>1, <2>2, WritePlaced
<1>4. CASE UpdatePosition(r) \/ CreatePosition(r)
  <2> DEFINE row == <<"last_positions", U(r), local[r].scope>>
             writes == [own[r] EXCEPT !.position = TRUE]
  <2>1. WritesRow(r, row, "findCourseCert", writes) /\ pc[r] = "writePosition"
    BY <1>4 DEF UpdatePosition, CreatePosition, WritePosition
  <2>2. /\ writes.courseCert = own[r].courseCert /\ writes.pathCert = own[r].pathCert
        /\ writes.position
    BY <1>1 DEF Writes
  <2>3. TakesRow(r, row, "findCourseCert", writes)
        /\ local' = [local EXCEPT ![r] = local[r]]
    BY <1>2, <2>1
  <2> HIDE DEF writes
  <2> QED BY <2>1, <2>2, <2>3, WritePlaced
<1>5. CASE IssueCourseCert(r)
  <2> DEFINE row == <<"course_certificate", U(r), C(r)>>
             writes == [own[r] EXCEPT !.courseCert = TRUE]
             locals == [local[r] EXCEPT !.courseCert = TRUE]
             next == AfterCourseCheck(r)
  <2>1. /\ TakesRow(r, row, next, writes) /\ local' = [local EXCEPT ![r] = locals]
        /\ pc[r] = "issueCourseCert"
    BY <1>5 DEF IssueCourseCert, TakesRow
  <2>2. /\ writes.courseCert /\ writes.pathCert = own[r].pathCert
        /\ writes.position = own[r].position /\ locals.scope = local[r].scope
    BY <1>1 DEF Writes, Locals
  <2>3. next \in {"findPathCert", "commit"} BY DEF AfterCourseCheck
  <2> HIDE DEF writes, locals, next
  <2> QED BY <2>1, <2>2, <2>3, WritePlaced
<1>6. CASE IssuePathCert(r)
  <2> DEFINE row == <<"path_certificate", U(r), P(r)>>
             writes == [own[r] EXCEPT !.pathCert = TRUE]
             locals == [local[r] EXCEPT !.pathCert = TRUE]
  <2>1. /\ TakesRow(r, row, "commit", writes) /\ local' = [local EXCEPT ![r] = locals]
        /\ pc[r] = "issuePathCert"
    BY <1>6 DEF IssuePathCert, TakesRow
  <2>2. /\ writes.pathCert /\ writes.courseCert = own[r].courseCert
        /\ writes.position = own[r].position /\ locals.scope = local[r].scope
    BY <1>1 DEF Writes, Locals
  <2> HIDE DEF writes, locals
  <2> QED BY <2>1, <2>2, WritePlaced
<1> QED BY <1>3, <1>4, <1>5, <1>6

(***************************************************************************)
(* A commit places its own lesson, under the scope of its course.          *)
(***************************************************************************)
LEMMA CommitPosition ==
  ASSUME TypeInv, CertificateInvariant, InsertInvariant, NEW r \in Requests, Commit(r)
  PROVE  PositionInScope'
<1>1. /\ pc[r] = "commit" /\ lastPosition' = SeenPositions(r)
      /\ lessonProgress' = SeenLessons(r)
  BY DEF Commit
<1>2. /\ Placing(r) /\ PositionInScope /\ WritesSoFar(r)
      /\ lastPosition \in [Users \X Scopes -> Lessons \cup {NoRow}]
  BY DEF InsertInvariant, CertificateInvariant, RequestInv, TypeInv, TypeOK, TablesTypeOK
<1>3. own[r].lesson /\ local[r].scope = ScopeOf(C(r))
  BY <1>1, <1>2 DEF WritesSoFar, Placing, Scoped, AfterPosition, CourseDecided,
    AfterLessonLock, AfterSectionLock, AfterCourseLock, AfterPathLock
<1>4. lessonProgress' = lessonProgress \cup {<<U(r), L(r)>>} BY <1>1, <1>3 DEF SeenLessons
<1>5. ASSUME NEW k \in Users \X Scopes, lastPosition'[k] # NoRow
      PROVE  /\ <<k[1], lastPosition'[k]>> \in lessonProgress'
             /\ k[2] = ScopeOf(CourseOf[SectionOf[lastPosition'[k]]])
  <2>1. CASE lastPosition'[k] = lastPosition[k]
    BY <1>2, <1>4, <1>5, <2>1 DEF PositionInScope, ScopeOf
  <2>2. CASE lastPosition'[k] # lastPosition[k]
    <3>1. k = <<U(r), local[r].scope>> /\ lastPosition'[k] = L(r)
      BY <1>1, <1>2, <2>2 DEF SeenPositions
    <3> QED BY <1>3, <1>4, <3>1 DEF C, S
  <2> QED BY <2>1, <2>2
<1>6. DOMAIN lastPosition' = Users \X Scopes BY <1>1, <1>2 DEF SeenPositions
<1> QED BY <1>5, <1>6 DEF PositionInScope, ScopeOf

\* Every step keeps the invariant of the inserts.
LEMMA InsertNext ==
  TypeInv /\ CertificateInvariant /\ InsertInvariant /\ [Next]_vars => InsertInvariant'
<1> SUFFICES ASSUME TypeInv, CertificateInvariant, InsertInvariant, [Next]_vars
             PROVE  InsertInvariant'
  OBVIOUS
<1>1. ASSUME NEW r \in Requests, Client(r) \/ Step(r) \/ Abort(r)
      PROVE  InsertInvariant'
  <2>1. CascadeLocks BY DEF InsertInvariant
  <2>2. OthersRest(r) /\ (Commit(r) \/ UNCHANGED <<enrollmentTables, progressTables>>)
    BY <1>1, <2>1, StepRests
  <2>3. PositionInScope'
    <3>1. CASE Commit(r) BY <3>1, CommitPosition
    <3>2. CASE UNCHANGED progressTables
      BY <3>2 DEF InsertInvariant, PositionInScope, progressTables
    <3> QED BY <2>2, <3>1, <3>2
  <2>4. Placing(r)' /\ InsertLocks(r)'
    <3>1. CASE Client(r)
      <4>1. /\ pc[r] = "idle" /\ pc'[r] = "guard" /\ own'[r] = own[r] /\ UNCHANGED rowLock
        BY <3>1 DEF Client, Receive, Goto, TypeInv, TypeOK, tables
      <4>2. own[r] = NoWrites BY <4>1 DEF TypeInv, PathOnly
      <4>3. InsertLocks(r) BY DEF InsertInvariant
      <4> QED
        BY <4>1, <4>2, <4>3 DEF Placing, InsertLocks, NoWrites, Scoped, AfterPosition,
          CourseDecided
    <3>2. CASE Rollback(r)
      <4>1. Finish(r, {}) BY <3>2 DEF Rollback
      <4>2. Unlock(r) BY <3>2 DEF Rollback
      <4> QED BY <4>1, <4>2, EndPlaced
    <3>3. CASE Abort(r) BY <3>2, <3>3 DEF Abort
    <3>4. CASE Commit(r)
      <4>1. Finish(r, CertificatesIssued(r)) BY <3>4 DEF Commit
      <4>2. Unlock(r) BY <3>4 DEF Commit
      <4> QED BY <4>1, <4>2, EndPlaced
    <3>5. CASE EnrollmentGuard(r) \/ FastPath(r)
      <4>1. CASE Finish(r, {})
        BY <3>5, <4>1, EndPlaced DEF EnrollmentGuard, FastPath, tables
      <4>2. CASE \E next \in {"fastPath", "capture"} :
                   Goto(r, next) /\ UNCHANGED <<arg, local, own>>
        <5>1. PICK next \in {"fastPath", "capture"} :
                Goto(r, next) /\ UNCHANGED <<arg, local, own>>
          BY <4>2
        <5>2. pc'[r] = next /\ pc[r] \in {"guard", "fastPath"}
              /\ UNCHANGED <<arg, local, own, rowLock>>
          BY <3>5, <5>1 DEF EnrollmentGuard, FastPath, Goto, TypeInv, TypeOK, tables
        <5>3. Placing(r) /\ InsertLocks(r) BY DEF InsertInvariant
        <5> QED
          BY <5>2, <5>3 DEF Placing, InsertLocks, Scoped, AfterPosition, CourseDecided,
            U, C, P, S, L
      <4> QED BY <3>5, <4>1, <4>2 DEF EnrollmentGuard, FastPath
    <3>6. CASE ~Rollback(r) /\ Step(r) /\ ~Commit(r) /\ ~EnrollmentGuard(r) /\ ~FastPath(r)
      BY <3>6, ReadsPlaced, WritesPlaced DEF Step
    <3> QED BY <1>1, <3>1, <3>2, <3>3, <3>4, <3>5, <3>6
  <2>5. \A q \in Requests : Placing(q)' /\ InsertLocks(q)' BY <2>2, <2>4, OthersPlaced
  <2> QED BY <2>2, <2>3, <2>5 DEF InsertInvariant, OthersRest
<1>2. CASE UNCHANGED vars
  <2>1. /\ UNCHANGED <<pc, arg, local, own, rowLock, lastPosition, lessonProgress>>
    BY <1>2 DEF vars, tables, progressTables, cascadeVars
  <2>2. PositionInScope' BY <2>1 DEF InsertInvariant, PositionInScope
  <2>3. ASSUME NEW r \in Requests PROVE Placing(r)' /\ InsertLocks(r)'
    BY <2>1 DEF InsertInvariant, Placing, InsertLocks, U, C, P, S, L
  <2>4. CascadeLocks' BY <2>1 DEF InsertInvariant, CascadeLocks, InsertRows
  <2> QED BY <2>2, <2>3, <2>4 DEF InsertInvariant
<1> QED BY <1>1, <1>2 DEF Next

\* It holds at first.
LEMMA InsertInit == Init => InsertInvariant
<1> SUFFICES ASSUME Init PROVE InsertInvariant OBVIOUS
<1>1. /\ rowLock = [row \in Rows |-> Free] /\ lastPosition = [k \in Users \X Scopes |-> NoRow]
      /\ pc = [r \in Requests |-> "idle"] /\ own = [r \in Requests |-> NoWrites]
  BY DEF Init, NothingCompleted, CascadeIdle
<1>2. PositionInScope BY <1>1 DEF PositionInScope
<1>3. ASSUME NEW r \in Requests PROVE Placing(r)
  BY <1>1 DEF Placing, NoWrites, Scoped, AfterPosition, CourseDecided
<1>4. ASSUME NEW r \in Requests PROVE InsertLocks(r)
  BY <1>1, SentinelAssumption, RequestsAssumption DEF InsertLocks, Rows
<1>5. CascadeLocks BY <1>1, InsertRowsAreRows DEF CascadeLocks
<1> QED BY <1>2, <1>3, <1>4, <1>5 DEF InsertInvariant

(***************************************************************************)
(* Positions are in their scope, and every key that is locked has been     *)
(* inserted by its holder, whatever requests overlap.                      *)
(***************************************************************************)
THEOREM InsertsKept == Spec => []InsertInvariant
BY InsertInit, InsertNext, TypeCorrect, CertificatesKept, PTL DEF Spec

(***************************************************************************)
(* A learner resumes from a lesson they completed, in the scope it is of.  *)
(***************************************************************************)
THEOREM PositionsInScope == Spec => []PositionInScope
<1>1. InsertInvariant => PositionInScope BY DEF InsertInvariant
<1> QED BY <1>1, InsertsKept, PTL

\* About to INSERT, a request holds the row, or meets it free, and it is not there.
LEMMA ConflictFree ==
  TypeInv /\ CertificateInvariant /\ InsertInvariant => InsertsNeverConflict
<1> SUFFICES ASSUME TypeInv, CertificateInvariant, InsertInvariant, NEW r \in Requests
             PROVE  /\ pc[r] = "issueCourseCert" =>
                         /\ <<U(r), C(r)>> \notin courseCertificate
                         /\ Lockable(r, <<"course_certificate", U(r), C(r)>>)
                    /\ pc[r] = "issuePathCert" =>
                         /\ <<U(r), P(r)>> \notin pathCertificate
                         /\ Lockable(r, <<"path_certificate", U(r), P(r)>>)
                    /\ pc[r] = "writePosition" =>
                         /\ ~local[r].found => lastPosition[<<U(r), local[r].scope>>] = NoRow
                         /\ Lockable(r, <<"last_positions", U(r), local[r].scope>>)
  BY DEF InsertsNeverConflict
<1>1. /\ CascadeLocks /\ Placing(r)
      /\ \A q \in Requests : Placing(q) /\ InsertLocks(q)
      /\ CourseDecision(r) /\ PathDecision(r) /\ PathOnly(r)
  BY DEF InsertInvariant, CertificateInvariant, RequestInv, TypeInv
<1>2. pc[r] # "idle" =>
        /\ U(r) \in Users /\ C(r) \in Courses /\ (InPath(r) => P(r) \in Paths)
  BY RequestRows DEF TypeInv
<1>3. CASE pc[r] = "issueCourseCert"
  <2> DEFINE row == <<"course_certificate", U(r), C(r)>>
  <2>1. row \in InsertRows BY <1>2, <1>3 DEF InsertRows
  <2>2. ASSUME NEW q \in Requests, rowLock[row] = q PROVE q = r
    <3>1. own[q].courseCert /\ U(q) = U(r) /\ C(q) = C(r)
      BY <1>1, <1>2, <1>3, <2>2 DEF InsertLocks
    <3> QED BY <1>3, <3>1, OneIssuer DEF AfterCourseLock, AfterPathLock
  <2> QED BY <1>1, <1>3, <2>1, <2>2 DEF CourseDecision, Lockable, CascadeLocks
<1>4. CASE pc[r] = "issuePathCert"
  <2> DEFINE row == <<"path_certificate", U(r), P(r)>>
  <2>0. P(r) \in Paths BY <1>1, <1>2, <1>4 DEF PathOnly, PathStatements
  <2>1. row \in InsertRows BY <1>2, <1>4, <2>0 DEF InsertRows
  <2>2. ASSUME NEW q \in Requests, rowLock[row] = q PROVE q = r
    <3>1. own[q].pathCert /\ U(q) = U(r) /\ P(q) = P(r)
      BY <1>1, <1>2, <1>4, <2>0, <2>2 DEF InsertLocks
    <3> QED BY <1>4, <3>1, OneIssuer DEF AfterPathLock
  <2> QED BY <1>1, <1>4, <2>1, <2>2 DEF PathDecision, Lockable, CascadeLocks
<1>5. CASE pc[r] = "writePosition"
  <2> DEFINE row == <<"last_positions", U(r), local[r].scope>>
  <2>1. local[r].scope = ScopeOf(C(r)) BY <1>1, <1>5 DEF Placing, Scoped
  <2>2. local[r].scope \in Scopes
    BY <1>2, <1>5, <2>1 DEF ScopeOf, Scopes, InPath, P
  <2>3. row \in InsertRows BY <1>2, <1>5, <2>2 DEF InsertRows
  <2>4. ASSUME NEW q \in Requests, rowLock[row] = q PROVE q = r
    <3>1. own[q].position /\ U(q) = U(r) /\ local[q].scope = local[r].scope
      BY <1>1, <1>2, <1>5, <2>2, <2>4 DEF InsertLocks
    <3>2. pc[q] \in AfterPosition /\ local[q].scope = ScopeOf(C(q))
      BY <1>1, <3>1 DEF Placing, Scoped
    <3>3. pc[q] \in AfterPathLock /\ pc[r] \in AfterPathLock
      BY <1>5, <3>2 DEF AfterPosition, CourseDecided, AfterPathLock
    <3> QED BY <2>1, <3>1, <3>2, <3>3, OneInScope
  <2> QED BY <1>1, <1>5, <2>3, <2>4 DEF Placing, Lockable, CascadeLocks
<1> QED BY <1>3, <1>4, <1>5

(***************************************************************************)
(* The INSERTs of certificates and positions never meet a row, committed   *)
(* or not: a request about to make one holds a progress row that excludes  *)
(* every other request that could have.                                    *)
(***************************************************************************)
THEOREM NoConflict == Spec => []InsertsNeverConflict
BY ConflictFree, InsertsKept, TypeCorrect, CertificatesKept, PTL
-----------------------------------------------------------------------------
(* Every certificate is announced *)

(***************************************************************************)
(* A step that leaves what the request has been returned and has inserted  *)
(* alone leaves its announcement alone.                                    *)
(***************************************************************************)
LEMMA AnnouncementKept ==
  ASSUME NEW r, Announcing(r), U(r)' = U(r), C(r)' = C(r), P(r)' = P(r),
         local'[r].preCourse = local[r].preCourse, local'[r].prePath = local[r].prePath,
         local[r].courseCert => local'[r].courseCert,
         local[r].pathCert => local'[r].pathCert,
         own'[r].courseCert = own[r].courseCert, own'[r].pathCert = own[r].pathCert,
         UNCHANGED <<courseCertificate, pathCertificate>>, analytics \subseteq analytics'
  PROVE  Announcing(r)'
BY DEF Announcing

\* What another request has captured and listed stays right.
LEMMA OthersAnnounce ==
  ASSUME TypeInv, CertificateInvariant, AnnouncementInvariant,
         NEW r \in Requests, OthersRest(r),
         Commit(r) \/ UNCHANGED <<enrollmentTables, progressTables>>,
         NEW q \in Requests, q # r
  PROVE  Announcing(q)'
<1>1. /\ arg'[q] = arg[q] /\ local'[q] = local[q] /\ own'[q] = own[q]
      /\ analytics \subseteq analytics'
  BY DEF OthersRest
<1>2. U(q)' = U(q) /\ C(q)' = C(q) /\ P(q)' = P(q) BY <1>1 DEF U, C, P, S, L
<1>3. Announcing(q) BY DEF AnnouncementInvariant
<1>4. CASE UNCHANGED progressTables
  BY <1>1, <1>2, <1>3, <1>4, AnnouncementKept DEF progressTables
<1>5. CASE Commit(r)
  <2>1. courseCertificate' = SeenCourseCerts(r) /\ pathCertificate' = SeenPathCerts(r)
    BY <1>5 DEF Commit
  <2>2. WritesSoFar(q) BY DEF CertificateInvariant, RequestInv
  <2>3. own[q].courseCert /\ own[r].courseCert => <<U(q), C(q)>> # <<U(r), C(r)>>
    BY <2>2, OneIssuer DEF WritesSoFar, CourseDecided, AfterCourseLock, AfterPathLock
  <2>4. own[q].pathCert /\ own[r].pathCert => <<U(q), P(q)>> # <<U(r), P(r)>>
    BY <2>2, OneIssuer DEF WritesSoFar, AfterPathLock
  <2> QED
    BY <1>1, <1>2, <1>3, <2>1, <2>3, <2>4 DEF Announcing, SeenCourseCerts, SeenPathCerts
<1> QED BY <1>4, <1>5

\* A request that ends has nothing left to announce.
LEMMA EndAnnounced ==
  ASSUME TypeInv, NEW r \in Requests, NEW certificates, Finish(r, certificates)
  PROVE  Announcing(r)'
<1>1. local'[r] = NoLocals /\ own'[r] = NoWrites BY DEF Finish, TypeInv, TypeOK
<1> QED BY <1>1 DEF Announcing, NoLocals, NoWrites

\* What a request reads keeps its announcement right.
LEMMA ReadsAnnounced ==
  ASSUME TypeInv, AnnouncementInvariant, NEW r \in Requests,
         \/ CaptureCourseCert(r) \/ CapturePathCert(r)
         \/ CountLessons(r) \/ CountSections(r) \/ CountCourses(r)
         \/ FindScope(r) \/ FindPosition(r) \/ FindCourseCert(r) \/ CountCompleted(r)
         \/ FindPathCert(r) \/ FindPathEnrollment(r) \/ CountCourseCerts(r)
  PROVE  Announcing(r)'
<1>1. local[r] \in Locals /\ Announcing(r)
  BY DEF TypeInv, TypeOK, AnnouncementInvariant
<1>2. ASSUME NEW next, NEW locals, ReadsInto(r, next, locals),
             \/ locals.preCourse = local[r].preCourse
             \/ locals.preCourse = "present" => <<U(r), C(r)>> \in courseCertificate,
             \/ locals.prePath = local[r].prePath
             \/ locals.prePath = "present" => <<U(r), P(r)>> \in pathCertificate,
             local[r].courseCert => locals.courseCert,
             local[r].pathCert => locals.pathCert
      PROVE  Announcing(r)'
  <2>1. /\ local'[r] = locals
        /\ UNCHANGED <<arg, own, analytics, courseCertificate, pathCertificate>>
    BY <1>2 DEF ReadsInto, TypeInv, TypeOK, tables, progressTables
  <2> QED BY <1>1, <1>2, <2>1 DEF Announcing, U, C, P, S, L
<1>3. CASE CaptureCourseCert(r)
  <2> DEFINE captured == IF <<U(r), C(r)>> \in courseCertificate THEN "present" ELSE "absent"
             locals == [local[r] EXCEPT !.preCourse = captured]
             next == IF InPath(r) /\ locals.prePath = "unread"
                     THEN "capture" ELSE "upsertLesson"
  <2>1. ReadsInto(r, next, locals) BY <1>3 DEF CaptureCourseCert
  <2>2. captured = "present" => <<U(r), C(r)>> \in courseCertificate OBVIOUS
  <2> HIDE DEF captured
  <2>3. /\ locals.preCourse = captured /\ locals.prePath = local[r].prePath
        /\ locals.courseCert = local[r].courseCert /\ locals.pathCert = local[r].pathCert
    BY <1>1 DEF Locals
  <2> HIDE DEF locals, next
  <2> QED BY <1>2, <2>1, <2>2, <2>3
<1>4. CASE CapturePathCert(r)
  <2> DEFINE captured == IF <<U(r), P(r)>> \in pathCertificate THEN "present" ELSE "absent"
             locals == [local[r] EXCEPT !.prePath = captured]
             next == IF locals.preCourse = "unread" THEN "capture" ELSE "upsertLesson"
  <2>1. ReadsInto(r, next, locals) BY <1>4 DEF CapturePathCert
  <2>2. captured = "present" => <<U(r), P(r)>> \in pathCertificate OBVIOUS
  <2> HIDE DEF captured
  <2>3. /\ locals.prePath = captured /\ locals.preCourse = local[r].preCourse
        /\ locals.courseCert = local[r].courseCert /\ locals.pathCert = local[r].pathCert
    BY <1>1 DEF Locals
  <2> HIDE DEF locals, next
  <2> QED BY <1>2, <2>1, <2>2, <2>3
<1>5. CASE \/ CountLessons(r) \/ CountSections(r) \/ CountCourses(r)
           \/ FindScope(r) \/ FindPosition(r)
  <2>1. ASSUME NEW x, NEW next,
               \/ ReadsInto(r, next, [local[r] EXCEPT !.counted = x])
               \/ ReadsInto(r, next, [local[r] EXCEPT !.scope = x])
               \/ ReadsInto(r, next, [local[r] EXCEPT !.found = x])
        PROVE  Announcing(r)'
    <3>1. PICK locals : /\ ReadsInto(r, next, locals)
                        /\ locals.preCourse = local[r].preCourse
                        /\ locals.prePath = local[r].prePath
                        /\ locals.courseCert = local[r].courseCert
                        /\ locals.pathCert = local[r].pathCert
      <4>1. CASE ReadsInto(r, next, [local[r] EXCEPT !.counted = x])
        BY <1>1, <4>1 DEF Locals
      <4>2. CASE ReadsInto(r, next, [local[r] EXCEPT !.scope = x])
        BY <1>1, <4>2 DEF Locals
      <4>3. CASE ReadsInto(r, next, [local[r] EXCEPT !.found = x])
        BY <1>1, <4>3 DEF Locals
      <4> QED BY <2>1, <4>1, <4>2, <4>3
    <3> QED BY <1>2, <3>1
  <2>2. CASE CountLessons(r) BY <2>1, <2>2 DEF CountLessons
  <2>3. CASE CountSections(r) BY <2>1, <2>3 DEF CountSections
  <2>4. CASE CountCourses(r) BY <2>1, <2>4 DEF CountCourses
  <2>5. CASE FindScope(r) BY <2>1, <2>5 DEF FindScope
  <2>6. CASE FindPosition(r) BY <2>1, <2>6 DEF FindPosition
  <2> QED BY <1>5, <2>2, <2>3, <2>4, <2>5, <2>6
<1>6. CASE FindCourseCert(r) \/ FindPathCert(r)
  <2>1. PICK next, locals : /\ ReadsInto(r, next, locals)
                            /\ locals.preCourse = local[r].preCourse
                            /\ locals.prePath = local[r].prePath
                            /\ local[r].courseCert => locals.courseCert
                            /\ local[r].pathCert => locals.pathCert
    <3> DEFINE l1 == [local[r] EXCEPT !.courseCert = TRUE]
               l2 == [local[r] EXCEPT !.pathCert = TRUE]
    <3>1. /\ l1.preCourse = local[r].preCourse /\ l1.prePath = local[r].prePath
          /\ l1.courseCert /\ l1.pathCert = local[r].pathCert
          /\ l2.preCourse = local[r].preCourse /\ l2.prePath = local[r].prePath
          /\ l2.pathCert /\ l2.courseCert = local[r].courseCert
      BY <1>1 DEF Locals
    <3>2. CASE FindCourseCert(r)
      <4>1. \E next : ReadsInto(r, next, l1) \/ ReadsInto(r, next, local[r])
        BY <3>2 DEF FindCourseCert
      <4> HIDE DEF l1, l2
      <4> QED BY <3>1, <4>1
    <3>3. CASE FindPathCert(r)
      <4>1. \E next : ReadsInto(r, next, l2) \/ ReadsInto(r, next, local[r])
        BY <3>3 DEF FindPathCert
      <4> HIDE DEF l1, l2
      <4> QED BY <3>1, <4>1
    <3> QED BY <1>6, <3>2, <3>3
  <2> QED BY <1>2, <2>1
<1>7. CASE CountCompleted(r) \/ FindPathEnrollment(r) \/ CountCourseCerts(r)
  <2>1. \E next : ReadsInto(r, next, local[r])
    BY <1>7 DEF CountCompleted, FindPathEnrollment, CountCourseCerts
  <2> QED BY <1>2, <2>1
<1> QED BY <1>3, <1>4, <1>5, <1>6, <1>7

\* Likewise what it writes.
LEMMA WritesAnnounced ==
  ASSUME TypeInv, AnnouncementInvariant, NEW r \in Requests, ~Rollback(r),
         \/ UpsertLesson(r) \/ UpsertSection(r) \/ UpsertCourse(r) \/ UpsertPath(r)
         \/ UpdatePosition(r) \/ CreatePosition(r)
         \/ IssueCourseCert(r) \/ IssuePathCert(r)
  PROVE  Announcing(r)'
<1>1. own[r] \in Writes /\ local[r] \in Locals /\ Announcing(r)
  BY DEF TypeInv, TypeOK, AnnouncementInvariant
<1>2. ASSUME NEW row, NEW next, NEW writes, WritesRow(r, row, next, writes), UNCHANGED analytics,
             writes.courseCert = own[r].courseCert, writes.pathCert = own[r].pathCert
      PROVE  Announcing(r)'
  <2>1. own'[r] = writes
        /\ UNCHANGED <<arg, local, analytics, courseCertificate, pathCertificate>>
    BY <1>2 DEF WritesRow, TypeInv, TypeOK, progressTables
  <2> QED BY <1>1, <1>2, <2>1 DEF Announcing, U, C, P, S, L
<1>3. ASSUME NEW x
      PROVE  /\ [own[r] EXCEPT !.lesson = x].courseCert = own[r].courseCert
             /\ [own[r] EXCEPT !.lesson = x].pathCert = own[r].pathCert
             /\ [own[r] EXCEPT !.section = x].courseCert = own[r].courseCert
             /\ [own[r] EXCEPT !.section = x].pathCert = own[r].pathCert
             /\ [own[r] EXCEPT !.course = x].courseCert = own[r].courseCert
             /\ [own[r] EXCEPT !.course = x].pathCert = own[r].pathCert
             /\ [own[r] EXCEPT !.path = x].courseCert = own[r].courseCert
             /\ [own[r] EXCEPT !.path = x].pathCert = own[r].pathCert
             /\ [own[r] EXCEPT !.position = x].courseCert = own[r].courseCert
             /\ [own[r] EXCEPT !.position = x].pathCert = own[r].pathCert
  BY <1>1 DEF Writes
<1>4. CASE UpsertLesson(r) BY <1>2, <1>3, <1>4 DEF UpsertLesson
<1>5. CASE UpsertSection(r) BY <1>2, <1>3, <1>5 DEF UpsertSection
<1>6. CASE UpsertCourse(r) BY <1>2, <1>3, <1>6 DEF UpsertCourse
<1>7. CASE UpsertPath(r) BY <1>2, <1>3, <1>7 DEF UpsertPath
<1>8. CASE UpdatePosition(r) \/ CreatePosition(r)
  BY <1>2, <1>3, <1>8 DEF UpdatePosition, CreatePosition, WritePosition
<1>9. CASE IssueCourseCert(r)
  <2> DEFINE writes == [own[r] EXCEPT !.courseCert = TRUE]
             locals == [local[r] EXCEPT !.courseCert = TRUE]
  <2>1. /\ <<U(r), C(r)>> \notin courseCertificate
        /\ own'[r] = writes /\ local'[r] = locals
        /\ analytics' = analytics \cup {<<"COURSE", U(r), C(r)>>}
        /\ UNCHANGED <<arg, courseCertificate, pathCertificate>>
    BY <1>9 DEF IssueCourseCert, TypeInv, TypeOK, progressTables
  <2>2. /\ writes.courseCert /\ writes.pathCert = own[r].pathCert
        /\ locals.courseCert /\ locals.pathCert = local[r].pathCert
        /\ locals.preCourse = local[r].preCourse /\ locals.prePath = local[r].prePath
    BY <1>1 DEF Writes, Locals
  <2> HIDE DEF writes, locals
  <2> QED BY <1>1, <2>1, <2>2 DEF Announcing, U, C, P, S, L
<1>10. CASE IssuePathCert(r)
  <2> DEFINE writes == [own[r] EXCEPT !.pathCert = TRUE]
             locals == [local[r] EXCEPT !.pathCert = TRUE]
  <2>1. /\ <<U(r), P(r)>> \notin pathCertificate
        /\ own'[r] = writes /\ local'[r] = locals
        /\ analytics' = analytics \cup {<<"PATH", U(r), P(r)>>}
        /\ UNCHANGED <<arg, courseCertificate, pathCertificate>>
    BY <1>10 DEF IssuePathCert, TypeInv, TypeOK, progressTables
  <2>2. /\ writes.pathCert /\ writes.courseCert = own[r].courseCert
        /\ locals.pathCert /\ locals.courseCert = local[r].courseCert
        /\ locals.preCourse = local[r].preCourse /\ locals.prePath = local[r].prePath
    BY <1>1 DEF Writes, Locals
  <2> HIDE DEF writes, locals
  <2> QED BY <1>1, <2>1, <2>2 DEF Announcing, U, C, P, S, L
<1> QED BY <1>4, <1>5, <1>6, <1>7, <1>8, <1>9, <1>10

\* Every step keeps the invariant of the announcements.
LEMMA AnnouncementNext ==
  TypeInv /\ CertificateInvariant /\ InsertInvariant /\ AnnouncementInvariant /\ [Next]_vars
    => AnnouncementInvariant'
<1> SUFFICES ASSUME TypeInv, CertificateInvariant, InsertInvariant, AnnouncementInvariant,
                    [Next]_vars
             PROVE  AnnouncementInvariant'
  OBVIOUS
<1>1. ASSUME NEW r \in Requests, Client(r) \/ Step(r) \/ Abort(r)
      PROVE  AnnouncementInvariant'
  <2>1. CascadeLocks BY DEF InsertInvariant
  <2>2. OthersRest(r) /\ (Commit(r) \/ UNCHANGED <<enrollmentTables, progressTables>>)
    BY <1>1, <2>1, StepRests
  <2>3. Announcing(r)'
    <3>1. CASE Client(r)
      <4>1. pc[r] = "idle" /\ local'[r] = local[r] /\ own'[r] = own[r]
        BY <3>1 DEF Client, Receive
      <4>2. local[r] = NoLocals /\ own[r] = NoWrites BY <4>1 DEF TypeInv, PathOnly
      <4> QED BY <4>1, <4>2 DEF Announcing, NoLocals, NoWrites
    <3>2. CASE \E certificates : Finish(r, certificates) BY <3>2, EndAnnounced
    <3>3. CASE Rollback(r) \/ Abort(r) \/ Commit(r)
      BY <3>2, <3>3 DEF Rollback, Abort, Commit
    <3>4. CASE EnrollmentGuard(r) \/ FastPath(r)
      <4>1. CASE UNCHANGED <<arg, local, own>>
        <5>1. UNCHANGED <<arg, local, own, analytics, courseCertificate, pathCertificate>>
          BY <3>4, <4>1 DEF EnrollmentGuard, FastPath, tables, progressTables
        <5>2. Announcing(r) BY DEF AnnouncementInvariant
        <5> QED BY <5>1, <5>2 DEF Announcing, U, C, P, S, L
      <4> QED BY <3>2, <3>4, <4>1 DEF EnrollmentGuard, FastPath
    <3>5. CASE ~Rollback(r) /\ Step(r) /\ ~Commit(r) /\ ~EnrollmentGuard(r) /\ ~FastPath(r)
      BY <3>5, ReadsAnnounced, WritesAnnounced DEF Step
    <3> QED BY <1>1, <3>1, <3>3, <3>4, <3>5
  <2> QED BY <2>2, <2>3, OthersAnnounce DEF AnnouncementInvariant
<1>2. CASE UNCHANGED vars
  <2>1. UNCHANGED <<arg, local, own, analytics, courseCertificate, pathCertificate>>
    BY <1>2 DEF vars, tables, progressTables, cascadeVars
  <2> QED BY <2>1 DEF AnnouncementInvariant, Announcing, U, C, P, S, L
<1> QED BY <1>1, <1>2 DEF Next

(***************************************************************************)
(* A certificate about to be committed was not there before, and its       *)
(* response and its event name it.                                         *)
(***************************************************************************)
THEOREM AnnouncementsKept == Spec => []AnnouncementInvariant
<1>1. Init => AnnouncementInvariant
  BY DEF Init, CascadeIdle, AnnouncementInvariant, Announcing, NoLocals, NoWrites
<1> QED
  BY <1>1, AnnouncementNext, TypeCorrect, CertificatesKept, InsertsKept, PTL DEF Spec

\* A step that commits a certificate: who is told, and what was captured.
Announced ==
  \A cert \in Committed' \ Committed :
    (\E r \in Requests : cert \in issued'[r]) /\ cert \in analytics

\* A certificate that a step commits is listed in the answer of that step.
LEMMA AnnouncedNext ==
  ASSUME TypeInv, CertificateInvariant, InsertInvariant, AnnouncementInvariant, [Next]_vars
  PROVE  [Announced]_vars
<1>0. /\ TypeInv /\ CertificateInvariant /\ InsertInvariant /\ AnnouncementInvariant
      /\ [Next]_vars
  OBVIOUS
<1> USE DEF Announced
<1>1. ASSUME NEW r \in Requests, Client(r) \/ Step(r) \/ Abort(r)
      PROVE  Announced
  <2>1. CascadeLocks BY <1>0 DEF InsertInvariant
  <2>2. Commit(r) \/ UNCHANGED <<enrollmentTables, progressTables>>
    BY <1>0, <1>1, <2>1, StepRests
  <2>3. CASE UNCHANGED progressTables BY <2>3 DEF progressTables, Committed
  <2>4. CASE Commit(r)
    <3>1. /\ courseCertificate' = SeenCourseCerts(r) /\ pathCertificate' = SeenPathCerts(r)
          /\ issued'[r] = CertificatesIssued(r)
      BY <1>0, <2>4 DEF Commit, Finish, TypeInv, TypeOK
    <3>2. Announcing(r) BY <1>0 DEF AnnouncementInvariant
    <3>3. ASSUME NEW cert \in Committed' \ Committed
          PROVE  \/ cert = <<"COURSE", U(r), C(r)>> /\ own[r].courseCert
                 \/ cert = <<"PATH", U(r), P(r)>> /\ own[r].pathCert
      <4>1. CASE \E k \in courseCertificate' : cert = <<"COURSE", k[1], k[2]>>
        BY <3>1, <4>1 DEF Committed, SeenCourseCerts
      <4>2. CASE \E k \in pathCertificate' : cert = <<"PATH", k[1], k[2]>>
        BY <3>1, <4>2 DEF Committed, SeenPathCerts
      <4> QED BY <4>1, <4>2 DEF Committed
    <3>4. own[r].courseCert => <<"COURSE", U(r), C(r)>> \in CertificatesIssued(r) \cap analytics
      BY <3>2 DEF Announcing, CertificatesIssued
    <3>5. own[r].pathCert => <<"PATH", U(r), P(r)>> \in CertificatesIssued(r) \cap analytics
      BY <3>2 DEF Announcing, CertificatesIssued
    <3> QED BY <3>1, <3>3, <3>4, <3>5
  <2> QED BY <2>2, <2>3, <2>4
<1> QED BY <1>0, <1>1 DEF Next

(***************************************************************************)
(* No step commits a certificate without answering a request that lists    *)
(* it; its event has been captured by then.                                *)
(***************************************************************************)
THEOREM CertificatesAnnounced == Spec => IssuanceAnnounced
<1>1. TypeInv /\ CertificateInvariant /\ InsertInvariant /\ AnnouncementInvariant /\ [Next]_vars
        => [\A cert \in Committed' \ Committed :
              /\ \E r \in Requests : cert \in issued'[r]
              /\ cert \in analytics]_vars
  BY AnnouncedNext DEF Announced
<1> QED
  BY <1>1, TypeCorrect, CertificatesKept, InsertsKept, AnnouncementsKept, PTL
  DEF Spec, IssuanceAnnounced
-----------------------------------------------------------------------------
(* No progress row is overstated *)

(***************************************************************************)
(* A status is COMPLETED when everything there is was counted.             *)
(***************************************************************************)
LEMMA CompletedStatus ==
  ASSUME NEW n, NEW total
  PROVE  DeriveStatus(n, total) = "COMPLETED" <=> total > 0 /\ n = total
BY DEF DeriveStatus

(***************************************************************************)
(* The lessons, sections and courses that are finished are numbers, and    *)
(* with more lessons completed there are no fewer of them.                 *)
(***************************************************************************)
LEMMA FinishedNumbers ==
  ASSUME NEW done, NEW u
  PROVE  /\ \A s : /\ Cardinality(CompletedOf(done, u, s)) \in Nat
                   /\ Cardinality(LessonsIn(s)) \in Nat
                   /\ Cardinality(CompletedOf(done, u, s)) <= Cardinality(LessonsIn(s))
         /\ \A c : /\ Cardinality(FinishedSectionsOf(done, u, c)) \in Nat
                   /\ Cardinality(SectionsIn(c)) \in Nat
                   /\ Cardinality(FinishedSectionsOf(done, u, c)) <= Cardinality(SectionsIn(c))
         /\ \A p : /\ Cardinality(FinishedCoursesOf(done, u, p)) \in Nat
                   /\ IsFiniteSet(CoursesIn(p))
<1>1. \A s : /\ CompletedOf(done, u, s) \in SUBSET LessonsIn(s)
             /\ LessonsIn(s) \in SUBSET Lessons
  BY DEF CompletedOf, LessonsIn
<1>2. \A c : /\ FinishedSectionsOf(done, u, c) \in SUBSET SectionsIn(c)
             /\ SectionsIn(c) \in SUBSET Sections
  BY DEF FinishedSectionsOf, SectionsIn
<1>3. \A p : /\ FinishedCoursesOf(done, u, p) \in SUBSET CoursesIn(p)
             /\ CoursesIn(p) \in SUBSET Courses
  BY DEF FinishedCoursesOf, CoursesIn
<1>4. /\ \A s : IsFiniteSet(LessonsIn(s))
      /\ \A c : IsFiniteSet(SectionsIn(c))
      /\ \A p : IsFiniteSet(CoursesIn(p))
  BY <1>1, <1>2, <1>3, FiniteContent, FS_Subset
<1>5. ASSUME NEW big, IsFiniteSet(big), NEW small \in SUBSET big
      PROVE  /\ Cardinality(small) \in Nat /\ Cardinality(big) \in Nat
             /\ Cardinality(small) <= Cardinality(big)
  BY <1>5, FS_Subset, FS_CardinalityType
<1> QED BY <1>1, <1>2, <1>3, <1>4, <1>5

\* With more lessons completed no count is smaller, level by level.
LEMMA FinishedGrows ==
  ASSUME NEW done, NEW more, done \subseteq more, NEW u
  PROVE  /\ \A s : Cardinality(CompletedOf(done, u, s)) <= Cardinality(CompletedOf(more, u, s))
         /\ \A c : Cardinality(FinishedSectionsOf(done, u, c))
                     <= Cardinality(FinishedSectionsOf(more, u, c))
         /\ \A p : Cardinality(FinishedCoursesOf(done, u, p))
                     <= Cardinality(FinishedCoursesOf(more, u, p))
<1>1. ASSUME NEW big, IsFiniteSet(big), NEW small \in SUBSET big
      PROVE  Cardinality(small) <= Cardinality(big)
  BY <1>1, FS_Subset
<1>2. ASSUME NEW s
      PROVE  Cardinality(CompletedOf(done, u, s)) <= Cardinality(CompletedOf(more, u, s))
  <2>1. CompletedOf(more, u, s) \in SUBSET Lessons BY DEF CompletedOf, LessonsIn
  <2>2. IsFiniteSet(CompletedOf(more, u, s)) BY <2>1, FiniteContent, FS_Subset
  <2>3. CompletedOf(done, u, s) \in SUBSET CompletedOf(more, u, s) BY DEF CompletedOf
  <2> QED BY <1>1, <2>2, <2>3
<1>3. ASSUME NEW c
      PROVE  Cardinality(FinishedSectionsOf(done, u, c))
               <= Cardinality(FinishedSectionsOf(more, u, c))
  <2>1. FinishedSectionsOf(more, u, c) \in SUBSET Sections
    BY DEF FinishedSectionsOf, SectionsIn
  <2>2. IsFiniteSet(FinishedSectionsOf(more, u, c)) BY <2>1, FiniteContent, FS_Subset
  <2>3. ASSUME NEW s \in FinishedSectionsOf(done, u, c)
        PROVE  s \in FinishedSectionsOf(more, u, c)
    <3>1. /\ s \in SectionsIn(c) /\ Cardinality(LessonsIn(s)) > 0
          /\ Cardinality(CompletedOf(done, u, s)) = Cardinality(LessonsIn(s))
      BY CompletedStatus DEF FinishedSectionsOf
    <3>2. Cardinality(CompletedOf(more, u, s)) = Cardinality(LessonsIn(s))
      BY <1>2, <3>1, FinishedNumbers
    <3> QED BY <3>1, <3>2, CompletedStatus DEF FinishedSectionsOf
  <2> QED BY <1>1, <2>2, <2>3
<1>4. ASSUME NEW p
      PROVE  Cardinality(FinishedCoursesOf(done, u, p))
               <= Cardinality(FinishedCoursesOf(more, u, p))
  <2>1. FinishedCoursesOf(more, u, p) \in SUBSET Courses
    BY DEF FinishedCoursesOf, CoursesIn
  <2>2. IsFiniteSet(FinishedCoursesOf(more, u, p)) BY <2>1, FiniteContent, FS_Subset
  <2>3. ASSUME NEW c \in FinishedCoursesOf(done, u, p)
        PROVE  c \in FinishedCoursesOf(more, u, p)
    <3>1. /\ c \in CoursesIn(p) /\ Cardinality(SectionsIn(c)) > 0
          /\ Cardinality(FinishedSectionsOf(done, u, c)) = Cardinality(SectionsIn(c))
      BY CompletedStatus DEF FinishedCoursesOf
    <3>2. Cardinality(FinishedSectionsOf(more, u, c)) = Cardinality(SectionsIn(c))
      BY <1>3, <3>1, FinishedNumbers
    <3> QED BY <3>1, <3>2, CompletedStatus DEF FinishedCoursesOf
  <2> QED BY <1>1, <2>2, <2>3
<1> QED BY <1>2, <1>3, <1>4

(***************************************************************************)
(* What a count was justified by stays: lessons are not taken back.        *)
(***************************************************************************)
LEMMA CountsStay ==
  ASSUME NEW r, arg'[r] = arg[r], SeenLessons(r) \subseteq SeenLessons(r)', NEW n \in Nat
  PROVE  /\ CountedSection(r, n) => CountedSection(r, n)'
         /\ CountedCourse(r, n) => CountedCourse(r, n)'
         /\ CountedPath(r, n) => CountedPath(r, n)'
<1>1. U(r)' = U(r) /\ S(r)' = S(r) /\ C(r)' = C(r) /\ P(r)' = P(r) BY DEF U, S, C, P, L
<1> DEFINE seen == SeenLessons(r)
           later == SeenLessons(r)'
<1>2. /\ Cardinality(CompletedOf(seen, U(r), S(r)))
           <= Cardinality(CompletedOf(later, U(r), S(r)))
      /\ Cardinality(FinishedSectionsOf(seen, U(r), C(r)))
           <= Cardinality(FinishedSectionsOf(later, U(r), C(r)))
      /\ Cardinality(FinishedCoursesOf(seen, U(r), P(r)))
           <= Cardinality(FinishedCoursesOf(later, U(r), P(r)))
  BY FinishedGrows
<1>3. /\ Cardinality(CompletedOf(seen, U(r), S(r))) \in Nat
      /\ Cardinality(CompletedOf(later, U(r), S(r))) \in Nat
      /\ Cardinality(FinishedSectionsOf(seen, U(r), C(r))) \in Nat
      /\ Cardinality(FinishedSectionsOf(later, U(r), C(r))) \in Nat
      /\ Cardinality(FinishedCoursesOf(seen, U(r), P(r))) \in Nat
      /\ Cardinality(FinishedCoursesOf(later, U(r), P(r))) \in Nat
  BY FinishedNumbers
<1>4. /\ CompletedOf(SeenLessons(r), U(r), S(r))' = CompletedOf(later, U(r), S(r))
      /\ FinishedSectionsOf(SeenLessons(r), U(r), C(r))' = FinishedSectionsOf(later, U(r), C(r))
      /\ FinishedCoursesOf(SeenLessons(r), U(r), P(r))' = FinishedCoursesOf(later, U(r), P(r))
  BY <1>1 DEF CompletedOf, FinishedSectionsOf, FinishedCoursesOf
<1> HIDE DEF seen, later
<1> QED BY <1>2, <1>3, <1>4 DEF CountedSection, CountedCourse, CountedPath, seen

(***************************************************************************)
(* The three counts are justified by the lessons the transaction sees.     *)
(***************************************************************************)
LEMMA LessonsJustified ==
  ASSUME NEW r
  PROVE  CountedSection(r, Cardinality(DoneLessons(r, LessonsIn(S(r)))))
<1>1. DoneLessons(r, LessonsIn(S(r))) = CompletedOf(SeenLessons(r), U(r), S(r))
  BY DEF DoneLessons, CompletedOf
<1>2. Cardinality(CompletedOf(SeenLessons(r), U(r), S(r))) \in Nat BY FinishedNumbers
<1> QED BY <1>1, <1>2 DEF CountedSection

\* The sections a request counts as done are no more than the lessons justify.
LEMMA SectionsJustified ==
  ASSUME TypeInv, ProgressInvariant, NEW r \in Requests, pc[r] # "idle"
  PROVE  CountedCourse(r, Cardinality(DoneSections(r)))
<1> DEFINE seen == SeenLessons(r)
           finished == FinishedSectionsOf(seen, U(r), C(r))
<1>1. /\ U(r) \in Users /\ S(r) \in Sections
      /\ own[r] \in Writes /\ sectionProgress \in [Users \X Sections -> Nat \cup {NoRow}]
  BY RequestRows DEF TypeInv, TypeOK, TablesTypeOK
<1>2. lessonProgress \subseteq seen BY DEF SeenLessons
<1>3. ASSUME NEW s \in DoneSections(r) PROVE s \in finished
  <2> DEFINE row == SeenSections(r)[<<U(r), s>>]
             completed == Cardinality(CompletedOf(seen, U(r), s))
             total == Cardinality(LessonsIn(s))
  <2>1. s \in SectionsIn(C(r)) /\ row # NoRow /\ total > 0 /\ row = total
    BY CompletedStatus DEF DoneSections
  <2>2. completed \in Nat /\ total \in Nat /\ completed <= total BY FinishedNumbers
  <2>3. s \in Sections BY <2>1 DEF SectionsIn
  <2>4. row <= completed
    <3>1. CASE own[r].section # NoRow /\ s = S(r)
      <4>1. row = own[r].section BY <1>1, <3>1 DEF SeenSections
      <4> QED BY <3>1, <4>1 DEF ProgressInvariant, Justified, CountedSection
    <3>2. CASE ~(own[r].section # NoRow /\ s = S(r))
      <4>1. row = sectionProgress[<<U(r), s>>] BY <1>1, <2>3, <3>2 DEF SeenSections
      <4>2. row <= Cardinality(CompletedOf(lessonProgress, U(r), s))
        BY <1>1, <2>1, <2>3, <4>1 DEF ProgressInvariant, NeverOverstated, CompletedIn
      <4>3. Cardinality(CompletedOf(lessonProgress, U(r), s)) <= completed
        BY <1>2, FinishedGrows
      <4>4. Cardinality(CompletedOf(lessonProgress, U(r), s)) \in Nat BY FinishedNumbers
      <4> QED BY <2>1, <2>2, <4>2, <4>3, <4>4
    <3> QED BY <3>1, <3>2
  <2>5. completed = total BY <2>1, <2>2, <2>4
  <2> QED BY <2>1, <2>5, CompletedStatus DEF FinishedSectionsOf
<1>4. IsFiniteSet(finished)
  <2>1. finished \in SUBSET Sections BY DEF FinishedSectionsOf, SectionsIn
  <2> QED BY <2>1, FiniteContent, FS_Subset
<1>5. DoneSections(r) \in SUBSET finished BY <1>3
<1> QED BY <1>4, <1>5, FS_Subset DEF CountedCourse

\* Likewise the courses.
LEMMA CoursesJustified ==
  ASSUME TypeInv, ProgressInvariant, NEW r \in Requests, pc[r] # "idle"
  PROVE  CountedPath(r, Cardinality(DoneCourses(r)))
<1> DEFINE seen == SeenLessons(r)
           finished == FinishedCoursesOf(seen, U(r), P(r))
<1>1. /\ U(r) \in Users /\ C(r) \in Courses
      /\ own[r] \in Writes /\ courseProgress \in [Users \X Courses -> Nat \cup {NoRow}]
  BY RequestRows DEF TypeInv, TypeOK, TablesTypeOK
<1>2. lessonProgress \subseteq seen BY DEF SeenLessons
<1>3. ASSUME NEW c \in DoneCourses(r) PROVE c \in finished
  <2> DEFINE row == SeenCourses(r)[<<U(r), c>>]
             done == Cardinality(FinishedSectionsOf(seen, U(r), c))
             total == Cardinality(SectionsIn(c))
  <2>1. c \in CoursesIn(P(r)) /\ row # NoRow /\ total > 0 /\ row = total
    BY CompletedStatus DEF DoneCourses
  <2>2. done \in Nat /\ total \in Nat /\ done <= total BY FinishedNumbers
  <2>3. c \in Courses BY <2>1 DEF CoursesIn
  <2>4. row <= done
    <3>1. CASE own[r].course # NoRow /\ c = C(r)
      <4>1. row = own[r].course BY <1>1, <3>1 DEF SeenCourses
      <4> QED BY <3>1, <4>1 DEF ProgressInvariant, Justified, CountedCourse
    <3>2. CASE ~(own[r].course # NoRow /\ c = C(r))
      <4>1. row = courseProgress[<<U(r), c>>] BY <1>1, <2>3, <3>2 DEF SeenCourses
      <4>2. row <= Cardinality(FinishedSectionsOf(lessonProgress, U(r), c))
        BY <1>1, <2>1, <2>3, <4>1 DEF ProgressInvariant, NeverOverstated, FinishedSections
      <4>3. Cardinality(FinishedSectionsOf(lessonProgress, U(r), c)) <= done
        BY <1>2, FinishedGrows
      <4>4. Cardinality(FinishedSectionsOf(lessonProgress, U(r), c)) \in Nat
        BY FinishedNumbers
      <4> QED BY <2>1, <2>2, <4>2, <4>3, <4>4
    <3> QED BY <3>1, <3>2
  <2>5. done = total BY <2>1, <2>2, <2>4
  <2> QED BY <2>1, <2>5, CompletedStatus DEF FinishedCoursesOf
<1>4. IsFiniteSet(finished)
  <2>1. finished \in SUBSET Courses BY DEF FinishedCoursesOf, CoursesIn
  <2> QED BY <2>1, FiniteContent, FS_Subset
<1>5. DoneCourses(r) \in SUBSET finished BY <1>3
<1> QED BY <1>4, <1>5, FS_Subset DEF CountedPath

(***************************************************************************)
(* A request about the same lesson that writes no other count stays        *)
(* justified, wherever it goes but to an upsert of a row it has counted.   *)
(***************************************************************************)
LEMMA JustifiedStays ==
  ASSUME TypeInv, NEW r \in Requests, Justified(r), arg'[r] = arg[r],
         SeenLessons(r) \subseteq SeenLessons(r)',
         own'[r].section = own[r].section, own'[r].course = own[r].course,
         own'[r].path = own[r].path,
         \/ pc'[r] = pc[r] /\ local'[r] = local[r]
         \/ pc'[r] \notin {"upsertSection", "upsertCourse", "upsertPath"}
  PROVE  Justified(r)'
<1>1. own[r] \in Writes /\ local[r] \in Locals BY DEF TypeInv, TypeOK
<1>2. /\ own[r].section \in Nat \cup {NoRow} /\ own[r].course \in Nat \cup {NoRow}
      /\ own[r].path \in Nat \cup {NoRow} /\ local[r].counted \in Nat
  BY <1>1 DEF Writes, Locals
<1>3. ASSUME NEW n \in Nat
      PROVE  /\ CountedSection(r, n) => CountedSection(r, n)'
             /\ CountedCourse(r, n) => CountedCourse(r, n)'
             /\ CountedPath(r, n) => CountedPath(r, n)'
  BY CountsStay
<1> QED BY <1>2, <1>3 DEF Justified

\* What another request has counted stays justified: lessons stay completed.
LEMMA OthersJustified ==
  ASSUME TypeInv, ProgressInvariant, NEW r \in Requests, OthersRest(r),
         Commit(r) \/ UNCHANGED <<enrollmentTables, progressTables>>,
         NEW q \in Requests, q # r
  PROVE  Justified(q)'
<1>1. pc'[q] = pc[q] /\ arg'[q] = arg[q] /\ local'[q] = local[q] /\ own'[q] = own[q]
  BY DEF OthersRest
<1>2. lessonProgress \subseteq lessonProgress'
  BY DEF Commit, SeenLessons, progressTables
<1>3. SeenLessons(q) \subseteq SeenLessons(q)' BY <1>1, <1>2 DEF SeenLessons, U, L
<1>4. Justified(q) BY DEF ProgressInvariant
<1> QED BY <1>1, <1>3, <1>4, JustifiedStays

\* A request that ends has counted nothing.
LEMMA EndJustified ==
  ASSUME TypeInv, NEW r \in Requests, NEW certificates, Finish(r, certificates)
  PROVE  Justified(r)'
<1>1. pc'[r] = "idle" /\ own'[r] = NoWrites BY DEF Finish, Goto, TypeInv, TypeOK
<1> QED BY <1>1 DEF Justified, NoWrites

\* What a request reads and counts is justified.
LEMMA ReadsJustified ==
  ASSUME TypeInv, ProgressInvariant, NEW r \in Requests,
         \/ CaptureCourseCert(r) \/ CapturePathCert(r)
         \/ CountLessons(r) \/ CountSections(r) \/ CountCourses(r)
         \/ FindScope(r) \/ FindPosition(r) \/ FindCourseCert(r) \/ CountCompleted(r)
         \/ FindPathCert(r) \/ FindPathEnrollment(r) \/ CountCourseCerts(r)
  PROVE  Justified(r)'
<1>1. own[r] \in Writes /\ local[r] \in Locals /\ Justified(r)
  BY DEF TypeInv, TypeOK, ProgressInvariant
<1>2. ASSUME NEW next, NEW locals, ReadsInto(r, next, locals)
      PROVE  /\ pc'[r] = next /\ local'[r] = locals /\ own'[r] = own[r] /\ arg'[r] = arg[r]
             /\ SeenLessons(r)' = SeenLessons(r)
  <2>1. /\ pc'[r] = next /\ local'[r] = locals /\ UNCHANGED <<own, arg, lessonProgress>>
    BY <1>2 DEF ReadsInto, Goto, TypeInv, TypeOK, tables, progressTables
  <2> QED BY <2>1 DEF SeenLessons, U, L
<1>3. ASSUME NEW next, NEW locals, ReadsInto(r, next, locals),
             next \notin {"upsertSection", "upsertCourse", "upsertPath"}
      PROVE  Justified(r)'
  BY <1>1, <1>2, <1>3, JustifiedStays
<1>4. ASSUME NEW next, NEW n \in Nat, ReadsInto(r, next, [local[r] EXCEPT !.counted = n]),
             next = "upsertSection" => CountedSection(r, n),
             next = "upsertCourse" => CountedCourse(r, n),
             next = "upsertPath" => CountedPath(r, n)
      PROVE  Justified(r)'
  <2> DEFINE locals == [local[r] EXCEPT !.counted = n]
  <2>1. locals.counted = n BY <1>1 DEF Locals
  <2>2. ReadsInto(r, next, locals) BY <1>4
  <2> HIDE DEF locals
  <2>3. /\ pc'[r] = next /\ local'[r].counted = n /\ own'[r] = own[r] /\ arg'[r] = arg[r]
        /\ SeenLessons(r)' = SeenLessons(r)
    BY <1>2, <2>1, <2>2
  <2>4. /\ own[r].section \in Nat \cup {NoRow} /\ own[r].course \in Nat \cup {NoRow}
        /\ own[r].path \in Nat \cup {NoRow}
    BY <1>1 DEF Writes
  <2>5. ASSUME NEW m \in Nat
        PROVE  /\ CountedSection(r, m) => CountedSection(r, m)'
               /\ CountedCourse(r, m) => CountedCourse(r, m)'
               /\ CountedPath(r, m) => CountedPath(r, m)'
    BY <2>3, CountsStay
  <2> QED BY <1>1, <1>4, <2>3, <2>4, <2>5 DEF Justified
<1>5. CASE CaptureCourseCert(r) \/ CapturePathCert(r)
  <2>1. \E next \in {"capture", "upsertLesson"} : \E locals : ReadsInto(r, next, locals)
    <3>1. CASE CaptureCourseCert(r) BY <3>1 DEF CaptureCourseCert
    <3>2. CASE CapturePathCert(r) BY <3>2 DEF CapturePathCert
    <3> QED BY <1>5, <3>1, <3>2
  <2> QED BY <1>3, <2>1
<1>6. CASE CountLessons(r)
  <2>1. Cardinality(DoneLessons(r, LessonsIn(S(r)))) \in Nat
    BY CountsAreNumbers DEF LessonsIn
  <2> QED BY <1>4, <1>6, <2>1, LessonsJustified DEF CountLessons
<1>7. CASE CountSections(r)
  <2>1. pc[r] # "idle" BY <1>7 DEF CountSections
  <2> QED BY <1>4, <1>7, <2>1, CountsAreNumbers, SectionsJustified DEF CountSections
<1>8. CASE CountCourses(r)
  <2>1. pc[r] # "idle" BY <1>8 DEF CountCourses
  <2> QED BY <1>4, <1>8, <2>1, CountsAreNumbers, CoursesJustified DEF CountCourses
<1>9. CASE FindScope(r) BY <1>3, <1>9 DEF FindScope
<1>10. CASE FindPosition(r) BY <1>3, <1>10 DEF FindPosition
<1>11. CASE FindCourseCert(r) BY <1>3, <1>11 DEF FindCourseCert, AfterCourseCheck
<1>12. CASE CountCompleted(r) BY <1>3, <1>12 DEF CountCompleted, AfterCourseCheck
<1>13. CASE FindPathCert(r) BY <1>3, <1>13 DEF FindPathCert
<1>14. CASE FindPathEnrollment(r) BY <1>3, <1>14 DEF FindPathEnrollment
<1>15. CASE CountCourseCerts(r) BY <1>3, <1>15 DEF CountCourseCerts
<1> QED
  BY <1>5, <1>6, <1>7, <1>8, <1>9, <1>10, <1>11, <1>12, <1>13, <1>14, <1>15

\* So is what it writes.
LEMMA WritesJustified ==
  ASSUME TypeInv, ProgressInvariant, NEW r \in Requests, ~Rollback(r),
         \/ UpsertLesson(r) \/ UpsertSection(r) \/ UpsertCourse(r) \/ UpsertPath(r)
         \/ UpdatePosition(r) \/ CreatePosition(r)
         \/ IssueCourseCert(r) \/ IssuePathCert(r)
  PROVE  Justified(r)'
<1>1. own[r] \in Writes /\ local[r] \in Locals /\ Justified(r)
  BY DEF TypeInv, TypeOK, ProgressInvariant
<1>2. ASSUME NEW row, NEW next, NEW writes, TakesRow(r, row, next, writes),
             next \notin {"upsertSection", "upsertCourse", "upsertPath"},
             own[r].lesson => writes.lesson,
             \/ writes.section = own[r].section
             \/ writes.section \in Nat /\ CountedSection(r, writes.section),
             \/ writes.course = own[r].course
             \/ writes.course \in Nat /\ CountedCourse(r, writes.course),
             \/ writes.path = own[r].path
             \/ writes.path \in Nat /\ CountedPath(r, writes.path)
      PROVE  Justified(r)'
  <2>1. /\ pc'[r] = next /\ own'[r] = writes /\ arg'[r] = arg[r] /\ UNCHANGED lessonProgress
    BY <1>2 DEF TakesRow, Goto, TypeInv, TypeOK, progressTables
  <2>2. SeenLessons(r) \subseteq SeenLessons(r)' BY <1>2, <2>1 DEF SeenLessons, U, L
  <2>3. /\ own[r].section \in Nat \cup {NoRow} /\ own[r].course \in Nat \cup {NoRow}
        /\ own[r].path \in Nat \cup {NoRow}
    BY <1>1 DEF Writes
  <2>4. ASSUME NEW m \in Nat
        PROVE  /\ CountedSection(r, m) => CountedSection(r, m)'
               /\ CountedCourse(r, m) => CountedCourse(r, m)'
               /\ CountedPath(r, m) => CountedPath(r, m)'
    BY <2>1, <2>2, CountsStay
  <2> QED BY <1>1, <1>2, <2>1, <2>3, <2>4 DEF Justified
<1>3. ASSUME NEW row, NEW next, NEW writes, WritesRow(r, row, next, writes)
      PROVE  TakesRow(r, row, next, writes)
  BY <1>3 DEF WritesRow, TakesRow
<1>4. local[r].counted \in Nat BY <1>1 DEF Locals
<1>5. CASE UpsertLesson(r)
  <2> DEFINE writes == [own[r] EXCEPT !.lesson = TRUE]
  <2>1. TakesRow(r, <<"lesson_progress", U(r), L(r)>>, "countLessons", writes)
    BY <1>3, <1>5 DEF UpsertLesson
  <2>2. /\ writes.lesson /\ writes.section = own[r].section
        /\ writes.course = own[r].course /\ writes.path = own[r].path
    BY <1>1 DEF Writes
  <2> HIDE DEF writes
  <2> QED BY <1>2, <2>1, <2>2
<1>6. CASE UpsertSection(r)
  <2> DEFINE n == local[r].counted
             writes == [own[r] EXCEPT !.section = n]
  <2>1. /\ TakesRow(r, <<"section_progress", U(r), S(r)>>, "countSections", writes)
        /\ CountedSection(r, n)
    BY <1>1, <1>3, <1>6 DEF UpsertSection, Justified
  <2>2. /\ writes.lesson = own[r].lesson /\ writes.section = n
        /\ writes.course = own[r].course /\ writes.path = own[r].path
    BY <1>1 DEF Writes
  <2> HIDE DEF writes
  <2> QED BY <1>2, <1>4, <2>1, <2>2
<1>7. CASE UpsertCourse(r)
  <2> DEFINE n == local[r].counted
             writes == [own[r] EXCEPT !.course = n]
             next == IF InPath(r) THEN "countCourses" ELSE "findScope"
  <2>1. /\ TakesRow(r, <<"course_progress", U(r), C(r)>>, next, writes)
        /\ CountedCourse(r, n)
    BY <1>1, <1>3, <1>7 DEF UpsertCourse, Justified
  <2>2. /\ writes.lesson = own[r].lesson /\ writes.section = own[r].section
        /\ writes.course = n /\ writes.path = own[r].path
    BY <1>1 DEF Writes
  <2>3. next \in {"countCourses", "findScope"} OBVIOUS
  <2> HIDE DEF writes, next
  <2> QED BY <1>2, <1>4, <2>1, <2>2, <2>3
<1>8. CASE UpsertPath(r)
  <2> DEFINE n == local[r].counted
             writes == [own[r] EXCEPT !.path = n]
  <2>1. /\ TakesRow(r, <<"path_progress", U(r), P(r)>>, "findScope", writes)
        /\ CountedPath(r, n)
    BY <1>1, <1>3, <1>8 DEF UpsertPath, Justified
  <2>2. /\ writes.lesson = own[r].lesson /\ writes.section = own[r].section
        /\ writes.course = own[r].course /\ writes.path = n
    BY <1>1 DEF Writes
  <2> HIDE DEF writes
  <2> QED BY <1>2, <1>4, <2>1, <2>2
<1>9. CASE UpdatePosition(r) \/ CreatePosition(r)
  <2> DEFINE writes == [own[r] EXCEPT !.position = TRUE]
  <2>1. TakesRow(r, <<"last_positions", U(r), local[r].scope>>, "findCourseCert", writes)
    BY <1>3, <1>9 DEF UpdatePosition, CreatePosition, WritePosition
  <2>2. /\ writes.lesson = own[r].lesson /\ writes.section = own[r].section
        /\ writes.course = own[r].course /\ writes.path = own[r].path
    BY <1>1 DEF Writes
  <2> HIDE DEF writes
  <2> QED BY <1>2, <2>1, <2>2
<1>10. CASE IssueCourseCert(r)
  <2> DEFINE writes == [own[r] EXCEPT !.courseCert = TRUE]
             next == AfterCourseCheck(r)
  <2>1. TakesRow(r, <<"course_certificate", U(r), C(r)>>, next, writes)
    BY <1>10 DEF IssueCourseCert, TakesRow
  <2>2. /\ writes.lesson = own[r].lesson /\ writes.section = own[r].section
        /\ writes.course = own[r].course /\ writes.path = own[r].path
    BY <1>1 DEF Writes
  <2>3. next \in {"findPathCert", "commit"} BY DEF AfterCourseCheck
  <2> HIDE DEF writes, next
  <2> QED BY <1>2, <2>1, <2>2, <2>3
<1>11. CASE IssuePathCert(r)
  <2> DEFINE writes == [own[r] EXCEPT !.pathCert = TRUE]
  <2>1. TakesRow(r, <<"path_certificate", U(r), P(r)>>, "commit", writes)
    BY <1>11 DEF IssuePathCert, TakesRow
  <2>2. /\ writes.lesson = own[r].lesson /\ writes.section = own[r].section
        /\ writes.course = own[r].course /\ writes.path = own[r].path
    BY <1>1 DEF Writes
  <2> HIDE DEF writes
  <2> QED BY <1>2, <2>1, <2>2
<1> QED BY <1>5, <1>6, <1>7, <1>8, <1>9, <1>10, <1>11

(***************************************************************************)
(* What a commit publishes is justified by the lessons it publishes.       *)
(***************************************************************************)
LEMMA CommitJustified ==
  ASSUME TypeInv, ProgressInvariant, NEW r \in Requests, Commit(r)
  PROVE  NeverOverstated'
<1> DEFINE seen == SeenLessons(r)
<1>1. /\ lessonProgress' = seen /\ sectionProgress' = SeenSections(r)
      /\ courseProgress' = SeenCourses(r) /\ pathProgress' = SeenPaths(r)
  BY DEF Commit
<1>2. /\ sectionProgress \in [Users \X Sections -> Nat \cup {NoRow}]
      /\ courseProgress \in [Users \X Courses -> Nat \cup {NoRow}]
      /\ pathProgress \in [Users \X Paths -> Nat \cup {NoRow}]
      /\ Justified(r) /\ NeverOverstated
  BY DEF TypeInv, TypeOK, TablesTypeOK, ProgressInvariant
<1>3. lessonProgress \subseteq seen BY DEF SeenLessons
<1> HIDE DEF seen
<1>4. ASSUME NEW u \in Users, NEW s \in Sections, sectionProgress'[<<u, s>>] # NoRow
      PROVE  sectionProgress'[<<u, s>>] <= Cardinality(CompletedOf(seen, u, s))
  <2>1. CASE own[r].section # NoRow /\ <<u, s>> = <<U(r), S(r)>>
    <3>1. sectionProgress'[<<u, s>>] = own[r].section BY <1>1, <1>2, <2>1 DEF SeenSections
    <3> QED BY <1>2, <2>1, <3>1 DEF Justified, CountedSection, seen
  <2>2. CASE ~(own[r].section # NoRow /\ <<u, s>> = <<U(r), S(r)>>)
    <3>1. sectionProgress'[<<u, s>>] = sectionProgress[<<u, s>>]
      BY <1>1, <1>2, <2>2 DEF SeenSections
    <3>2. sectionProgress[<<u, s>>] <= Cardinality(CompletedOf(lessonProgress, u, s))
      BY <1>2, <1>4, <3>1 DEF NeverOverstated, CompletedIn
    <3>3. /\ Cardinality(CompletedOf(lessonProgress, u, s))
               <= Cardinality(CompletedOf(seen, u, s))
          /\ Cardinality(CompletedOf(lessonProgress, u, s)) \in Nat
          /\ Cardinality(CompletedOf(seen, u, s)) \in Nat
      BY <1>3, FinishedGrows, FinishedNumbers
    <3>4. sectionProgress[<<u, s>>] \in Nat BY <1>2, <1>4, <3>1
    <3> QED BY <3>1, <3>2, <3>3, <3>4
  <2> QED BY <2>1, <2>2
<1>5. ASSUME NEW u \in Users, NEW c \in Courses, courseProgress'[<<u, c>>] # NoRow
      PROVE  courseProgress'[<<u, c>>] <= Cardinality(FinishedSectionsOf(seen, u, c))
  <2>1. CASE own[r].course # NoRow /\ <<u, c>> = <<U(r), C(r)>>
    <3>1. courseProgress'[<<u, c>>] = own[r].course BY <1>1, <1>2, <2>1 DEF SeenCourses
    <3> QED BY <1>2, <2>1, <3>1 DEF Justified, CountedCourse, seen
  <2>2. CASE ~(own[r].course # NoRow /\ <<u, c>> = <<U(r), C(r)>>)
    <3>1. courseProgress'[<<u, c>>] = courseProgress[<<u, c>>]
      BY <1>1, <1>2, <2>2 DEF SeenCourses
    <3>2. courseProgress[<<u, c>>] <= Cardinality(FinishedSectionsOf(lessonProgress, u, c))
      BY <1>2, <1>5, <3>1 DEF NeverOverstated, FinishedSections
    <3>3. /\ Cardinality(FinishedSectionsOf(lessonProgress, u, c))
               <= Cardinality(FinishedSectionsOf(seen, u, c))
          /\ Cardinality(FinishedSectionsOf(lessonProgress, u, c)) \in Nat
          /\ Cardinality(FinishedSectionsOf(seen, u, c)) \in Nat
      BY <1>3, FinishedGrows, FinishedNumbers
    <3>4. courseProgress[<<u, c>>] \in Nat BY <1>2, <1>5, <3>1
    <3> QED BY <3>1, <3>2, <3>3, <3>4
  <2> QED BY <2>1, <2>2
<1>6. ASSUME NEW u \in Users, NEW p \in Paths, pathProgress'[<<u, p>>] # NoRow
      PROVE  pathProgress'[<<u, p>>] <= Cardinality(FinishedCoursesOf(seen, u, p))
  <2>1. CASE own[r].path # NoRow /\ <<u, p>> = <<U(r), P(r)>>
    <3>1. pathProgress'[<<u, p>>] = own[r].path BY <1>1, <1>2, <2>1 DEF SeenPaths
    <3> QED BY <1>2, <2>1, <3>1 DEF Justified, CountedPath, seen
  <2>2. CASE ~(own[r].path # NoRow /\ <<u, p>> = <<U(r), P(r)>>)
    <3>1. pathProgress'[<<u, p>>] = pathProgress[<<u, p>>]
      BY <1>1, <1>2, <2>2 DEF SeenPaths
    <3>2. pathProgress[<<u, p>>] <= Cardinality(FinishedCoursesOf(lessonProgress, u, p))
      BY <1>2, <1>6, <3>1 DEF NeverOverstated, FinishedCourses
    <3>3. /\ Cardinality(FinishedCoursesOf(lessonProgress, u, p))
               <= Cardinality(FinishedCoursesOf(seen, u, p))
          /\ Cardinality(FinishedCoursesOf(lessonProgress, u, p)) \in Nat
          /\ Cardinality(FinishedCoursesOf(seen, u, p)) \in Nat
      BY <1>3, FinishedGrows, FinishedNumbers
    <3>4. pathProgress[<<u, p>>] \in Nat BY <1>2, <1>6, <3>1
    <3> QED BY <3>1, <3>2, <3>3, <3>4
  <2> QED BY <2>1, <2>2
<1>7. /\ \A u, s : CompletedIn(u, s)' = CompletedOf(seen, u, s)
      /\ \A u, c : FinishedSections(u, c)' = FinishedSectionsOf(seen, u, c)
      /\ \A u, p : FinishedCourses(u, p)' = FinishedCoursesOf(seen, u, p)
  BY <1>1 DEF CompletedIn, FinishedSections, FinishedCourses, CompletedOf, FinishedSectionsOf,
    FinishedCoursesOf
<1> QED BY <1>4, <1>5, <1>6, <1>7 DEF NeverOverstated

\* Every step keeps the invariant of the progress rows.
LEMMA ProgressNext ==
  TypeInv /\ InsertInvariant /\ ProgressInvariant /\ [Next]_vars => ProgressInvariant'
<1> SUFFICES ASSUME TypeInv, InsertInvariant, ProgressInvariant, [Next]_vars
             PROVE  ProgressInvariant'
  OBVIOUS
<1>0. ASSUME UNCHANGED progressTables PROVE NeverOverstated'
  <2>1. UNCHANGED <<lessonProgress, sectionProgress, courseProgress, pathProgress>>
    BY <1>0 DEF progressTables
  <2>2. /\ \A u, s : CompletedIn(u, s)' = CompletedIn(u, s)
        /\ \A u, c : FinishedSections(u, c)' = FinishedSections(u, c)
        /\ \A u, p : FinishedCourses(u, p)' = FinishedCourses(u, p)
    BY <2>1 DEF CompletedIn, FinishedSections, FinishedCourses, CompletedOf,
      FinishedSectionsOf, FinishedCoursesOf
  <2> QED BY <2>1, <2>2 DEF ProgressInvariant, NeverOverstated
<1>1. ASSUME NEW r \in Requests, Client(r) \/ Step(r) \/ Abort(r)
      PROVE  ProgressInvariant'
  <2>1. CascadeLocks BY DEF InsertInvariant
  <2>2. OthersRest(r) /\ (Commit(r) \/ UNCHANGED <<enrollmentTables, progressTables>>)
    BY <1>1, <2>1, StepRests
  <2>3. Justified(r)'
    <3>1. CASE Client(r)
      <4>1. pc[r] = "idle" /\ own'[r] = own[r] /\ pc'[r] = "guard"
        BY <3>1 DEF Client, Receive, Goto, TypeInv, TypeOK
      <4>2. own[r] = NoWrites BY <4>1 DEF TypeInv, PathOnly
      <4> QED BY <4>1, <4>2 DEF Justified, NoWrites
    <3>2. CASE \E certificates : Finish(r, certificates) BY <3>2, EndJustified
    <3>3. CASE Rollback(r) \/ Abort(r) \/ Commit(r)
      BY <3>2, <3>3 DEF Rollback, Abort, Commit
    <3>4. CASE EnrollmentGuard(r) \/ FastPath(r)
      <4>1. CASE UNCHANGED <<arg, local, own>>
        <5>1. /\ UNCHANGED <<arg, local, own, lessonProgress>>
              /\ pc'[r] \notin {"upsertSection", "upsertCourse", "upsertPath"}
          BY <3>4, <4>1 DEF EnrollmentGuard, FastPath, Goto, Finish, TypeInv, TypeOK, tables,
            progressTables
        <5>2. Justified(r) /\ SeenLessons(r)' = SeenLessons(r)
          BY <5>1 DEF ProgressInvariant, SeenLessons, U, L
        <5> QED BY <5>1, <5>2, JustifiedStays
      <4> QED BY <3>2, <3>4, <4>1 DEF EnrollmentGuard, FastPath
    <3>5. CASE ~Rollback(r) /\ Step(r) /\ ~Commit(r) /\ ~EnrollmentGuard(r) /\ ~FastPath(r)
      BY <3>5, ReadsJustified, WritesJustified DEF Step
    <3> QED BY <1>1, <3>1, <3>3, <3>4, <3>5
  <2>4. NeverOverstated' BY <1>0, <2>2, CommitJustified
  <2> QED BY <2>2, <2>3, <2>4, OthersJustified DEF ProgressInvariant
<1>2. CASE UNCHANGED vars
  <2>1. UNCHANGED <<pc, arg, local, own, lessonProgress>> /\ UNCHANGED progressTables
    BY <1>2 DEF vars, tables, progressTables, cascadeVars
  <2>2. ASSUME NEW r \in Requests PROVE Justified(r)'
    <3>1. Justified(r) /\ SeenLessons(r)' = SeenLessons(r)
      BY <2>1 DEF ProgressInvariant, SeenLessons, U, L
    <3> QED BY <2>1, <3>1, JustifiedStays
  <2> QED BY <1>0, <2>1, <2>2 DEF ProgressInvariant
<1> QED BY <1>1, <1>2 DEF Next

\* It holds at first.
LEMMA ProgressInit == Init => ProgressInvariant
<1> SUFFICES ASSUME Init PROVE ProgressInvariant OBVIOUS
<1>1. PICK paths \in SUBSET (Users \X Paths),
           courses \in SUBSET {k \in Users \X Courses : PathOf[k[2]] = NoPath} :
        SeededBy(paths, courses)
  BY DEF Init
<1>2. /\ \A k \in Users \X Sections : sectionProgress[k] \in {0, NoRow}
      /\ \A k \in Users \X Courses : courseProgress[k] \in {0, NoRow}
      /\ \A k \in Users \X Paths : pathProgress[k] \in {0, NoRow}
  BY <1>1 DEF SeededBy
<1>3. \A u : /\ \A s : Cardinality(CompletedIn(u, s)) \in Nat
             /\ \A c : Cardinality(FinishedSections(u, c)) \in Nat
             /\ \A p : Cardinality(FinishedCourses(u, p)) \in Nat
  BY FinishedNumbers DEF CompletedIn, FinishedSections, FinishedCourses
<1>4. NeverOverstated BY <1>2, <1>3 DEF NeverOverstated
<1>5. ASSUME NEW r \in Requests PROVE Justified(r)
  BY DEF Init, CascadeIdle, Justified, NoWrites
<1> QED BY <1>4, <1>5 DEF ProgressInvariant

(***************************************************************************)
(* What is written and what is about to be is justified by lessons that    *)
(* are completed, or will be with it.                                      *)
(***************************************************************************)
THEOREM ProgressKept == Spec => []ProgressInvariant
BY ProgressInit, ProgressNext, TypeCorrect, InsertsKept, PTL DEF Spec

(***************************************************************************)
(* No progress row claims more than the committed lessons justify, however *)
(* stale the counts it was written from.                                   *)
(***************************************************************************)
THEOREM ProgressNeverOverstated == Spec => []NeverOverstated
<1>1. ProgressInvariant => NeverOverstated BY DEF ProgressInvariant
<1> QED BY <1>1, ProgressKept, PTL
-----------------------------------------------------------------------------
(* A learner who sends one request at a time *)

\* What a user has finished depends on that user's lessons alone, a section on
\* its own lessons, a course and a path on what is in them.
LEMMA FinishedAlike ==
  ASSUME NEW done, NEW more, NEW u
  PROVE  /\ \A s : (\A l \in LessonsIn(s) : <<u, l>> \in done <=> <<u, l>> \in more) =>
              CompletedOf(done, u, s) = CompletedOf(more, u, s)
         /\ \A c : (\A s \in SectionsIn(c) :
                      CompletedOf(done, u, s) = CompletedOf(more, u, s)) =>
              FinishedSectionsOf(done, u, c) = FinishedSectionsOf(more, u, c)
         /\ \A p : (\A c \in CoursesIn(p) :
                      FinishedSectionsOf(done, u, c) = FinishedSectionsOf(more, u, c)) =>
              FinishedCoursesOf(done, u, p) = FinishedCoursesOf(more, u, p)
<1>1. ASSUME NEW s, \A l \in LessonsIn(s) : <<u, l>> \in done <=> <<u, l>> \in more
      PROVE  CompletedOf(done, u, s) = CompletedOf(more, u, s)
  BY <1>1 DEF CompletedOf
<1>2. ASSUME NEW c,
             \A s \in SectionsIn(c) : CompletedOf(done, u, s) = CompletedOf(more, u, s)
      PROVE  FinishedSectionsOf(done, u, c) = FinishedSectionsOf(more, u, c)
  BY <1>2 DEF FinishedSectionsOf
<1>3. ASSUME NEW p,
             \A c \in CoursesIn(p) :
               FinishedSectionsOf(done, u, c) = FinishedSectionsOf(more, u, c)
      PROVE  FinishedCoursesOf(done, u, p) = FinishedCoursesOf(more, u, p)
  BY <1>3 DEF FinishedCoursesOf
<1> QED BY <1>1, <1>2, <1>3

\* What is finished for a learner depends on that learner's lessons only.
LEMMA SameUser ==
  ASSUME NEW done, NEW more, NEW u, \A l : <<u, l>> \in done <=> <<u, l>> \in more
  PROVE  /\ \A s : CompletedOf(done, u, s) = CompletedOf(more, u, s)
         /\ \A c : FinishedSectionsOf(done, u, c) = FinishedSectionsOf(more, u, c)
         /\ \A p : FinishedCoursesOf(done, u, p) = FinishedCoursesOf(more, u, p)
<1>1. \A s : CompletedOf(done, u, s) = CompletedOf(more, u, s) BY FinishedAlike
<1>2. \A c : FinishedSectionsOf(done, u, c) = FinishedSectionsOf(more, u, c)
  BY <1>1, FinishedAlike
<1>3. \A p : FinishedCoursesOf(done, u, p) = FinishedCoursesOf(more, u, p)
  BY <1>2, FinishedAlike
<1> QED BY <1>1, <1>2, <1>3

\* A request sees more than what is committed in its own section, course and
\* path only.
LEMMA ElsewhereCommitted ==
  ASSUME TypeInv, NEW r \in Requests, pc[r] # "idle", NEW u
  PROVE  /\ \A s \in Sections : <<u, s>> # <<U(r), S(r)>> =>
              CompletedOf(SeenLessons(r), u, s) = CompletedIn(u, s)
         /\ \A c \in Courses : <<u, c>> # <<U(r), C(r)>> =>
              FinishedSectionsOf(SeenLessons(r), u, c) = FinishedSections(u, c)
         /\ \A p \in Paths : <<u, p>> # <<U(r), P(r)>> =>
              FinishedCoursesOf(SeenLessons(r), u, p) = FinishedCourses(u, p)
<1>0. SeenLessons(r) \subseteq lessonProgress \cup {<<U(r), L(r)>>}
      /\ lessonProgress \subseteq SeenLessons(r)
  BY DEF SeenLessons
<1>1. ASSUME NEW s \in Sections, <<u, s>> # <<U(r), S(r)>>
      PROVE  CompletedOf(SeenLessons(r), u, s) = CompletedIn(u, s)
  <2>1. \A l \in LessonsIn(s) : <<u, l>> \in SeenLessons(r) <=> <<u, l>> \in lessonProgress
    BY <1>0, <1>1 DEF LessonsIn, S
  <2> QED BY <2>1, FinishedAlike DEF CompletedIn
<1>2. ASSUME NEW c \in Courses, <<u, c>> # <<U(r), C(r)>>
      PROVE  FinishedSectionsOf(SeenLessons(r), u, c) = FinishedSections(u, c)
  <2>1. \A s \in SectionsIn(c) :
          CompletedOf(SeenLessons(r), u, s) = CompletedOf(lessonProgress, u, s)
    BY <1>1, <1>2 DEF SectionsIn, C, CompletedIn
  <2> QED BY <2>1, FinishedAlike DEF FinishedSections
<1>3. ASSUME NEW p \in Paths, <<u, p>> # <<U(r), P(r)>>
      PROVE  FinishedCoursesOf(SeenLessons(r), u, p) = FinishedCourses(u, p)
  <2>1. \A c \in CoursesIn(p) :
          FinishedSectionsOf(SeenLessons(r), u, c) = FinishedSectionsOf(lessonProgress, u, c)
    BY <1>2, <1>3 DEF CoursesIn, P, FinishedSections
  <2> QED BY <2>1, FinishedAlike DEF FinishedCourses
<1> QED BY <1>1, <1>2, <1>3

\* A count of what a request sees stays right while its learner's lessons stay.
LEMMA CountsStayExact ==
  ASSUME NEW r, arg'[r] = arg[r], NEW n,
         \A l : <<U(r), l>> \in SeenLessons(r) <=> <<U(r), l>> \in SeenLessons(r)'
  PROVE  /\ CountsSection(r, n)' <=> CountsSection(r, n)
         /\ CountsCourse(r, n)' <=> CountsCourse(r, n)
         /\ CountsPath(r, n)' <=> CountsPath(r, n)
<1>1. U(r)' = U(r) /\ S(r)' = S(r) /\ C(r)' = C(r) /\ P(r)' = P(r) BY DEF U, S, C, P, L
<1> DEFINE seen == SeenLessons(r)
           later == SeenLessons(r)'
<1>2. /\ CompletedOf(seen, U(r), S(r)) = CompletedOf(later, U(r), S(r))
      /\ FinishedSectionsOf(seen, U(r), C(r)) = FinishedSectionsOf(later, U(r), C(r))
      /\ FinishedCoursesOf(seen, U(r), P(r)) = FinishedCoursesOf(later, U(r), P(r))
  BY SameUser
<1>3. /\ CompletedOf(SeenLessons(r), U(r), S(r))' = CompletedOf(later, U(r), S(r))
      /\ FinishedSectionsOf(SeenLessons(r), U(r), C(r))' = FinishedSectionsOf(later, U(r), C(r))
      /\ FinishedCoursesOf(SeenLessons(r), U(r), P(r))' = FinishedCoursesOf(later, U(r), P(r))
  BY <1>1 DEF CompletedOf, FinishedSectionsOf, FinishedCoursesOf
<1> HIDE DEF seen, later
<1> QED BY <1>2, <1>3 DEF CountsSection, CountsCourse, CountsPath, seen

\* The rows of its learner as a request sees them are exact once it has written
\* its section, and those of courses once it has written its course.
LEMMA SectionsCountExact ==
  ASSUME TypeInv, ExactInvariant, NEW r \in Requests, pc[r] \in AfterSectionLock
  PROVE  CountsCourse(r, Cardinality(DoneSections(r)))
<1>1. /\ U(r) \in Users /\ S(r) \in Sections /\ own[r] \in Writes /\ pc[r] # "idle"
      /\ sectionProgress \in [Users \X Sections -> Nat \cup {NoRow}]
  BY RequestRows DEF TypeInv, TypeOK, TablesTypeOK, AfterSectionLock, AfterCourseLock,
    AfterPathLock
<1>2. CountsSection(r, own[r].section) BY DEF ExactInvariant, Exact
<1>3. ASSUME NEW s \in SectionsIn(C(r))
      PROVE  s \in DoneSections(r) <=> s \in FinishedSectionsOf(SeenLessons(r), U(r), C(r))
  <2> DEFINE row == SeenSections(r)[<<U(r), s>>]
             completed == Cardinality(CompletedOf(SeenLessons(r), U(r), s))
             total == Cardinality(LessonsIn(s))
  <2>1. completed \in Nat /\ total \in Nat BY FinishedNumbers
  <2>2. s \in Sections BY DEF SectionsIn
  <2>3. row = completed \/ (row = NoRow /\ completed = 0)
    <3>1. CASE s = S(r)
      <4>1. own[r].section = completed BY <1>2, <3>1 DEF CountsSection
      <4>2. own[r].section # NoRow BY <2>1, <4>1, SentinelAssumption
      <4>3. row = own[r].section BY <1>1, <3>1, <4>2 DEF SeenSections
      <4> QED BY <4>1, <4>3
    <3>2. CASE s # S(r)
      <4>1. row = sectionProgress[<<U(r), s>>] BY <1>1, <2>2, <3>2 DEF SeenSections
      <4>2. CompletedOf(SeenLessons(r), U(r), s) = CompletedIn(U(r), s)
        BY <1>1, <2>2, <3>2, ElsewhereCommitted
      <4>3. IF row = NoRow THEN CompletedIn(U(r), s) = {}
            ELSE row = Cardinality(CompletedIn(U(r), s))
        BY <1>1, <2>2, <4>1 DEF ExactInvariant, AggregatesExact
      <4> QED BY <4>2, <4>3, FS_EmptySet
    <3> QED BY <3>1, <3>2
  <2>4. s \in DoneSections(r) <=> row # NoRow /\ total > 0 /\ row = total
    BY CompletedStatus DEF DoneSections
  <2>5. s \in FinishedSectionsOf(SeenLessons(r), U(r), C(r)) <=> total > 0 /\ completed = total
    BY CompletedStatus DEF FinishedSectionsOf
  <2> HIDE DEF row, completed, total
  <2> QED BY <2>1, <2>3, <2>4, <2>5, SentinelAssumption
<1>4. DoneSections(r) = FinishedSectionsOf(SeenLessons(r), U(r), C(r))
  BY <1>3 DEF DoneSections, FinishedSectionsOf
<1> QED BY <1>4 DEF CountsCourse

\* The course rows a request sees are finished exactly when their courses are.
LEMMA CoursesCountExact ==
  ASSUME TypeInv, ExactInvariant, NEW r \in Requests, pc[r] \in AfterCourseLock
  PROVE  CountsPath(r, Cardinality(DoneCourses(r)))
<1>1. /\ U(r) \in Users /\ C(r) \in Courses /\ own[r] \in Writes /\ pc[r] # "idle"
      /\ courseProgress \in [Users \X Courses -> Nat \cup {NoRow}]
  BY RequestRows DEF TypeInv, TypeOK, TablesTypeOK, AfterCourseLock, AfterPathLock
<1>2. CountsCourse(r, own[r].course) BY DEF ExactInvariant, Exact
<1>3. ASSUME NEW c \in CoursesIn(P(r))
      PROVE  c \in DoneCourses(r) <=> c \in FinishedCoursesOf(SeenLessons(r), U(r), P(r))
  <2> DEFINE row == SeenCourses(r)[<<U(r), c>>]
             finished == Cardinality(FinishedSectionsOf(SeenLessons(r), U(r), c))
             total == Cardinality(SectionsIn(c))
  <2>1. finished \in Nat /\ total \in Nat BY FinishedNumbers
  <2>2. c \in Courses BY DEF CoursesIn
  <2>3. row = finished \/ (row = NoRow /\ finished = 0)
    <3>1. CASE c = C(r)
      <4>1. own[r].course = finished BY <1>2, <3>1 DEF CountsCourse
      <4>2. own[r].course # NoRow BY <2>1, <4>1, SentinelAssumption
      <4>3. row = own[r].course BY <1>1, <3>1, <4>2 DEF SeenCourses
      <4> QED BY <4>1, <4>3
    <3>2. CASE c # C(r)
      <4>1. row = courseProgress[<<U(r), c>>] BY <1>1, <2>2, <3>2 DEF SeenCourses
      <4>2. FinishedSectionsOf(SeenLessons(r), U(r), c) = FinishedSections(U(r), c)
        BY <1>1, <2>2, <3>2, ElsewhereCommitted
      <4>3. IF row = NoRow THEN FinishedSections(U(r), c) = {}
            ELSE row = Cardinality(FinishedSections(U(r), c))
        BY <1>1, <2>2, <4>1 DEF ExactInvariant, AggregatesExact
      <4> QED BY <4>2, <4>3, FS_EmptySet
    <3> QED BY <3>1, <3>2
  <2>4. c \in DoneCourses(r) <=> row # NoRow /\ total > 0 /\ row = total
    BY CompletedStatus DEF DoneCourses
  <2>5. c \in FinishedCoursesOf(SeenLessons(r), U(r), P(r)) <=> total > 0 /\ finished = total
    BY CompletedStatus DEF FinishedCoursesOf
  <2> HIDE DEF row, finished, total
  <2> QED BY <2>1, <2>3, <2>4, <2>5, SentinelAssumption
<1>4. DoneCourses(r) = FinishedCoursesOf(SeenLessons(r), U(r), P(r))
  BY <1>3 DEF DoneCourses, FinishedCoursesOf
<1> QED BY <1>4 DEF CountsPath

\* A statement that writes no progress row leaves what is exact exact, wherever
\* it goes but to an upsert of a row it has counted.
LEMMA ExactStays ==
  ASSUME TypeInv, NEW r \in Requests, Exact(r), arg'[r] = arg[r],
         own'[r].lesson = own[r].lesson, own'[r].section = own[r].section,
         own'[r].course = own[r].course, own'[r].path = own[r].path,
         \A l : <<U(r), l>> \in SeenLessons(r) <=> <<U(r), l>> \in SeenLessons(r)',
         \/ pc'[r] = pc[r] /\ local'[r] = local[r]
         \/ /\ pc'[r] \notin {"upsertSection", "upsertCourse", "upsertPath"}
            /\ pc'[r] \in AfterLessonLock => pc[r] \in AfterLessonLock
            /\ pc'[r] \in AfterSectionLock => pc[r] \in AfterSectionLock
            /\ pc'[r] \in AfterCourseLock => pc[r] \in AfterCourseLock
            /\ pc'[r] \in AfterPathLock => pc[r] \in AfterPathLock
  PROVE  Exact(r)'
<1>1. \A n : /\ CountsSection(r, n)' <=> CountsSection(r, n)
             /\ CountsCourse(r, n)' <=> CountsCourse(r, n)
             /\ CountsPath(r, n)' <=> CountsPath(r, n)
  BY CountsStayExact
<1>2. InPath(r)' <=> InPath(r) BY DEF InPath, P, C, S, L
<1> QED BY <1>1, <1>2 DEF Exact

\* A request that ends has counted nothing.
LEMMA EndExact ==
  ASSUME TypeInv, NEW r \in Requests, NEW certificates, Finish(r, certificates)
  PROVE  Exact(r)'
<1>1. pc'[r] = "idle" BY DEF Finish, Goto, TypeInv, TypeOK
<1> QED BY <1>1 DEF Exact, AfterLessonLock, AfterSectionLock, AfterCourseLock, AfterPathLock

\* What a request counts is what its view of the lessons gives.
LEMMA ReadsExact ==
  ASSUME TypeInv, ExactInvariant, NEW r \in Requests,
         \/ CaptureCourseCert(r) \/ CapturePathCert(r)
         \/ CountLessons(r) \/ CountSections(r) \/ CountCourses(r)
         \/ FindScope(r) \/ FindPosition(r) \/ FindCourseCert(r) \/ CountCompleted(r)
         \/ FindPathCert(r) \/ FindPathEnrollment(r) \/ CountCourseCerts(r)
  PROVE  Exact(r)'
<1> USE DEF AfterLessonLock, AfterSectionLock, AfterCourseLock, AfterPathLock
<1>1. own[r] \in Writes /\ local[r] \in Locals /\ Exact(r)
  BY DEF TypeInv, TypeOK, ExactInvariant
<1>2. ASSUME NEW next, NEW locals, ReadsInto(r, next, locals)
      PROVE  /\ pc'[r] = next /\ local'[r] = locals /\ own'[r] = own[r] /\ arg'[r] = arg[r]
             /\ SeenLessons(r)' = SeenLessons(r)
  <2>1. /\ pc'[r] = next /\ local'[r] = locals /\ UNCHANGED <<own, arg, lessonProgress>>
    BY <1>2 DEF ReadsInto, Goto, TypeInv, TypeOK, tables, progressTables
  <2> QED BY <2>1 DEF SeenLessons, U, L
<1>3. ASSUME NEW next, NEW locals, ReadsInto(r, next, locals),
             next \notin {"upsertSection", "upsertCourse", "upsertPath"},
             next \in AfterLessonLock => pc[r] \in AfterLessonLock,
             next \in AfterSectionLock => pc[r] \in AfterSectionLock,
             next \in AfterCourseLock => pc[r] \in AfterCourseLock,
             next \in AfterPathLock => pc[r] \in AfterPathLock
      PROVE  Exact(r)'
  <2>1. /\ pc'[r] = next /\ own'[r] = own[r] /\ arg'[r] = arg[r]
        /\ SeenLessons(r)' = SeenLessons(r)
    BY <1>2, <1>3
  <2> QED BY <1>1, <1>3, <2>1, ExactStays
<1>4. ASSUME NEW next \in {"upsertSection", "upsertCourse", "upsertPath"}, NEW n,
             ReadsInto(r, next, [local[r] EXCEPT !.counted = n]),
             next = "upsertSection" => pc[r] = "countLessons" /\ CountsSection(r, n),
             next = "upsertCourse" => pc[r] = "countSections" /\ CountsCourse(r, n),
             next = "upsertPath" => pc[r] = "countCourses" /\ CountsPath(r, n)
      PROVE  Exact(r)'
  <2> DEFINE locals == [local[r] EXCEPT !.counted = n]
  <2>1. locals.counted = n BY <1>1 DEF Locals
  <2>2. ReadsInto(r, next, locals) BY <1>4
  <2> HIDE DEF locals
  <2>3. /\ pc'[r] = next /\ local'[r].counted = n /\ own'[r] = own[r] /\ arg'[r] = arg[r]
        /\ SeenLessons(r)' = SeenLessons(r)
    BY <1>2, <2>1, <2>2
  <2>4. \A m : /\ CountsSection(r, m)' <=> CountsSection(r, m)
               /\ CountsCourse(r, m)' <=> CountsCourse(r, m)
               /\ CountsPath(r, m)' <=> CountsPath(r, m)
    BY <2>3, CountsStayExact
  <2> QED BY <1>1, <1>4, <2>3, <2>4 DEF Exact
<1>5. CASE CaptureCourseCert(r) \/ CapturePathCert(r)
  <2>1. \E next \in {"capture", "upsertLesson"} : \E locals : ReadsInto(r, next, locals)
    <3>1. CASE CaptureCourseCert(r) BY <3>1 DEF CaptureCourseCert
    <3>2. CASE CapturePathCert(r) BY <3>2 DEF CapturePathCert
    <3> QED BY <1>5, <3>1, <3>2
  <2> QED BY <1>3, <2>1
<1>6. CASE CountLessons(r)
  <2>1. DoneLessons(r, LessonsIn(S(r))) = CompletedOf(SeenLessons(r), U(r), S(r))
    BY DEF DoneLessons, CompletedOf
  <2>2. CountsSection(r, Cardinality(DoneLessons(r, LessonsIn(S(r)))))
    BY <2>1 DEF CountsSection
  <2> QED BY <1>4, <1>6, <2>2 DEF CountLessons
<1>7. CASE CountSections(r)
  <2>1. pc[r] \in AfterSectionLock BY <1>7 DEF CountSections
  <2> QED BY <1>4, <1>7, <2>1, SectionsCountExact DEF CountSections
<1>8. CASE CountCourses(r)
  <2>1. pc[r] \in AfterCourseLock BY <1>8 DEF CountCourses
  <2> QED BY <1>4, <1>8, <2>1, CoursesCountExact DEF CountCourses
<1>9. CASE FindScope(r) BY <1>3, <1>9 DEF FindScope
<1>10. CASE FindPosition(r) BY <1>3, <1>10 DEF FindPosition
<1>11. CASE FindCourseCert(r) BY <1>3, <1>11 DEF FindCourseCert, AfterCourseCheck
<1>12. CASE CountCompleted(r) BY <1>3, <1>12 DEF CountCompleted, AfterCourseCheck
<1>13. CASE FindPathCert(r) BY <1>3, <1>13 DEF FindPathCert
<1>14. CASE FindPathEnrollment(r) BY <1>3, <1>14 DEF FindPathEnrollment
<1>15. CASE CountCourseCerts(r) BY <1>3, <1>15 DEF CountCourseCerts
<1> QED
  BY <1>5, <1>6, <1>7, <1>8, <1>9, <1>10, <1>11, <1>12, <1>13, <1>14, <1>15

\* So is what it writes.
LEMMA WritesExact ==
  ASSUME TypeInv, ExactInvariant, NEW r \in Requests, ~Rollback(r),
         \/ UpsertLesson(r) \/ UpsertSection(r) \/ UpsertCourse(r) \/ UpsertPath(r)
         \/ UpdatePosition(r) \/ CreatePosition(r)
         \/ IssueCourseCert(r) \/ IssuePathCert(r)
  PROVE  Exact(r)'
<1> USE DEF AfterLessonLock, AfterSectionLock, AfterCourseLock, AfterPathLock
<1>1. own[r] \in Writes /\ local[r] \in Locals /\ Exact(r)
  BY DEF TypeInv, TypeOK, ExactInvariant
<1>2. ASSUME NEW row, NEW next, NEW writes, TakesRow(r, row, next, writes)
      PROVE  pc'[r] = next /\ own'[r] = writes /\ arg'[r] = arg[r] /\ UNCHANGED lessonProgress
  BY <1>2 DEF TakesRow, Goto, TypeInv, TypeOK, progressTables
<1>3. ASSUME NEW row, NEW next, NEW writes, WritesRow(r, row, next, writes)
      PROVE  TakesRow(r, row, next, writes)
  BY <1>3 DEF WritesRow, TakesRow
\* A row that is no progress row.
<1>4. ASSUME NEW row, NEW next \in {"findCourseCert", "findPathCert", "commit"},
             NEW writes, TakesRow(r, row, next, writes),
             writes.lesson = own[r].lesson, writes.section = own[r].section,
             writes.course = own[r].course, writes.path = own[r].path,
             pc[r] \in AfterPathLock
      PROVE  Exact(r)'
  <2>1. pc'[r] = next /\ own'[r] = writes /\ arg'[r] = arg[r] /\ UNCHANGED lessonProgress
    BY <1>2, <1>4
  <2>2. SeenLessons(r)' = SeenLessons(r) BY <1>4, <2>1 DEF SeenLessons, U, L
  <2> QED BY <1>1, <1>4, <2>1, <2>2, ExactStays
\* A progress row other than the lesson's.
<1>5. ASSUME NEW row, NEW next, NEW writes, TakesRow(r, row, next, writes),
             own[r].lesson, writes.lesson,
             next \notin {"upsertSection", "upsertCourse", "upsertPath"},
             next \in AfterSectionLock => CountsSection(r, writes.section),
             next \in AfterCourseLock => CountsCourse(r, writes.course),
             next \in AfterPathLock /\ InPath(r) => CountsPath(r, writes.path)
      PROVE  Exact(r)'
  <2>1. pc'[r] = next /\ own'[r] = writes /\ arg'[r] = arg[r] /\ UNCHANGED lessonProgress
    BY <1>2, <1>5
  <2>2. SeenLessons(r)' = SeenLessons(r) BY <1>5, <2>1 DEF SeenLessons, U, L
  <2>3. InPath(r)' <=> InPath(r) BY <2>1 DEF InPath, P, C, S, L
  <2>4. \A m : /\ CountsSection(r, m)' <=> CountsSection(r, m)
               /\ CountsCourse(r, m)' <=> CountsCourse(r, m)
               /\ CountsPath(r, m)' <=> CountsPath(r, m)
    BY <2>1, <2>2, CountsStayExact
  <2> QED BY <1>5, <2>1, <2>3, <2>4 DEF Exact
<1>6. CASE UpsertLesson(r)
  <2> DEFINE writes == [own[r] EXCEPT !.lesson = TRUE]
  <2>1. TakesRow(r, <<"lesson_progress", U(r), L(r)>>, "countLessons", writes)
    BY <1>3, <1>6 DEF UpsertLesson
  <2>2. writes.lesson BY <1>1 DEF Writes
  <2> HIDE DEF writes
  <2>3. pc'[r] = "countLessons" /\ own'[r] = writes BY <1>2, <2>1
  <2> QED BY <2>2, <2>3 DEF Exact
<1>7. CASE UpsertSection(r)
  <2> DEFINE n == local[r].counted
             writes == [own[r] EXCEPT !.section = n]
             next == "countSections"
  <2>1. /\ TakesRow(r, <<"section_progress", U(r), S(r)>>, next, writes)
        /\ CountsSection(r, n) /\ own[r].lesson
    BY <1>1, <1>3, <1>7 DEF UpsertSection, Exact
  <2>2. writes.lesson = own[r].lesson /\ writes.section = n BY <1>1 DEF Writes
  <2>3. /\ next \notin {"upsertSection", "upsertCourse", "upsertPath"}
        /\ next \notin AfterCourseLock /\ next \notin AfterPathLock
    OBVIOUS
  <2> HIDE DEF writes, n, next
  <2>4. CountsSection(r, writes.section) BY <2>1, <2>2
  <2> QED BY <1>5, <2>1, <2>2, <2>3, <2>4
<1>8. CASE UpsertCourse(r)
  <2> DEFINE n == local[r].counted
             writes == [own[r] EXCEPT !.course = n]
             next == IF InPath(r) THEN "countCourses" ELSE "findScope"
  <2>1. /\ TakesRow(r, <<"course_progress", U(r), C(r)>>, next, writes)
        /\ CountsCourse(r, n) /\ CountsSection(r, own[r].section) /\ own[r].lesson
    BY <1>1, <1>3, <1>8 DEF UpsertCourse, Exact
  <2>2. writes.lesson = own[r].lesson /\ writes.section = own[r].section /\ writes.course = n
    BY <1>1 DEF Writes
  <2>3. next \in {"countCourses", "findScope"} /\ (next = "findScope" => ~InPath(r)) OBVIOUS
  <2> HIDE DEF writes, n, next
  <2>4. CountsSection(r, writes.section) /\ CountsCourse(r, writes.course) BY <2>1, <2>2
  <2> QED BY <1>5, <2>1, <2>2, <2>3, <2>4
<1>9. CASE UpsertPath(r)
  <2> DEFINE n == local[r].counted
             writes == [own[r] EXCEPT !.path = n]
             next == "findScope"
  <2>1. /\ TakesRow(r, <<"path_progress", U(r), P(r)>>, next, writes)
        /\ CountsPath(r, n) /\ CountsSection(r, own[r].section)
        /\ CountsCourse(r, own[r].course) /\ own[r].lesson
    BY <1>1, <1>3, <1>9 DEF UpsertPath, Exact
  <2>2. /\ writes.lesson = own[r].lesson /\ writes.section = own[r].section
        /\ writes.course = own[r].course /\ writes.path = n
    BY <1>1 DEF Writes
  <2>3. next \notin {"upsertSection", "upsertCourse", "upsertPath"} OBVIOUS
  <2> HIDE DEF writes, n, next
  <2>4. /\ CountsSection(r, writes.section) /\ CountsCourse(r, writes.course)
        /\ CountsPath(r, writes.path)
    BY <2>1, <2>2
  <2> QED BY <1>5, <2>1, <2>2, <2>3, <2>4
<1>10. CASE UpdatePosition(r) \/ CreatePosition(r)
  <2> DEFINE writes == [own[r] EXCEPT !.position = TRUE]
  <2>1. /\ TakesRow(r, <<"last_positions", U(r), local[r].scope>>, "findCourseCert", writes)
        /\ pc[r] = "writePosition"
    BY <1>3, <1>10 DEF UpdatePosition, CreatePosition, WritePosition
  <2>2. /\ writes.lesson = own[r].lesson /\ writes.section = own[r].section
        /\ writes.course = own[r].course /\ writes.path = own[r].path
    BY <1>1 DEF Writes
  <2> HIDE DEF writes
  <2> QED BY <1>4, <2>1, <2>2
<1>11. CASE IssueCourseCert(r)
  <2> DEFINE writes == [own[r] EXCEPT !.courseCert = TRUE]
             next == AfterCourseCheck(r)
  <2>1. /\ TakesRow(r, <<"course_certificate", U(r), C(r)>>, next, writes)
        /\ pc[r] = "issueCourseCert"
    BY <1>11 DEF IssueCourseCert, TakesRow
  <2>2. /\ writes.lesson = own[r].lesson /\ writes.section = own[r].section
        /\ writes.course = own[r].course /\ writes.path = own[r].path
    BY <1>1 DEF Writes
  <2>3. next \in {"findPathCert", "commit"} BY DEF AfterCourseCheck
  <2> HIDE DEF writes, next
  <2> QED BY <1>4, <2>1, <2>2, <2>3
<1>12. CASE IssuePathCert(r)
  <2> DEFINE writes == [own[r] EXCEPT !.pathCert = TRUE]
  <2>1. /\ TakesRow(r, <<"path_certificate", U(r), P(r)>>, "commit", writes)
        /\ pc[r] = "issuePathCert"
    BY <1>12 DEF IssuePathCert, TakesRow
  <2>2. /\ writes.lesson = own[r].lesson /\ writes.section = own[r].section
        /\ writes.course = own[r].course /\ writes.path = own[r].path
    BY <1>1 DEF Writes
  <2> HIDE DEF writes
  <2> QED BY <1>4, <2>1, <2>2
<1> QED BY <1>6, <1>7, <1>8, <1>9, <1>10, <1>11, <1>12

-----------------------------------------------------------------------------
(* What a step leaves alone, and what a commit publishes *)

Alone(r) ==
  /\ \A q \in Requests \ {r} :
       pc'[q] = pc[q] /\ arg'[q] = arg[q] /\ local'[q] = local[q] /\ own'[q] = own[q]
  /\ Commit(r) \/ UNCHANGED progressTables

\* A request that ends moves no other.
LEMMA FinishAlone ==
  ASSUME TypeInv, NEW r \in Requests, NEW certificates, Finish(r, certificates),
         Commit(r) \/ UNCHANGED progressTables
  PROVE  Alone(r)
BY DEF Finish, Goto, Alone, TypeInv, TypeOK

\* No step of a request moves another.
LEMMA StepAlone ==
  ASSUME TypeInv, NEW r \in Requests, Client(r) \/ Step(r) \/ Abort(r)
  PROVE  Alone(r)
<1>1. CASE Client(r)
  BY <1>1 DEF Client, Receive, Goto, Alone, TypeInv, TypeOK, tables
<1>2. ASSUME Rollback(r) PROVE Alone(r) BY <1>2, FinishAlone DEF Rollback
<1>3. CASE Abort(r) BY <1>2, <1>3 DEF Abort
<1>4. CASE EnrollmentGuard(r) \/ FastPath(r)
  <2>1. CASE Finish(r, {}) BY <1>4, <2>1, FinishAlone DEF EnrollmentGuard, FastPath, tables
  <2>2. CASE \E next : Goto(r, next) /\ UNCHANGED <<arg, local, own>>
    BY <1>4, <2>2 DEF EnrollmentGuard, FastPath, Goto, Alone, TypeInv, TypeOK, tables
  <2> QED BY <1>4, <2>1, <2>2 DEF EnrollmentGuard, FastPath
<1>5. CASE \/ CaptureCourseCert(r) \/ CapturePathCert(r)
           \/ CountLessons(r) \/ CountSections(r) \/ CountCourses(r)
           \/ FindScope(r) \/ FindPosition(r) \/ FindCourseCert(r) \/ CountCompleted(r)
           \/ FindPathCert(r) \/ FindPathEnrollment(r) \/ CountCourseCerts(r)
  <2>1. \E next, locals : ReadsInto(r, next, locals)
    <3>1. CASE CaptureCourseCert(r) BY <3>1 DEF CaptureCourseCert
    <3>2. CASE CapturePathCert(r) BY <3>2 DEF CapturePathCert
    <3>3. CASE CountLessons(r) \/ CountSections(r) \/ CountCourses(r)
      BY <3>3 DEF CountLessons, CountSections, CountCourses
    <3>4. CASE FindScope(r) \/ FindPosition(r) BY <3>4 DEF FindScope, FindPosition
    <3>5. CASE FindCourseCert(r) \/ CountCompleted(r)
      BY <3>5 DEF FindCourseCert, CountCompleted
    <3>6. CASE FindPathCert(r) \/ FindPathEnrollment(r) \/ CountCourseCerts(r)
      BY <3>6 DEF FindPathCert, FindPathEnrollment, CountCourseCerts
    <3> QED BY <1>5, <3>1, <3>2, <3>3, <3>4, <3>5, <3>6
  <2> QED BY <2>1 DEF ReadsInto, Goto, Alone, TypeInv, TypeOK, tables
<1>6. ASSUME NEW row, NEW next, NEW writes, WritesRow(r, row, next, writes)
      PROVE  Alone(r)
  BY <1>6 DEF WritesRow, Goto, Alone, TypeInv, TypeOK
<1>7. CASE UpsertLesson(r) \/ UpsertSection(r) \/ UpsertCourse(r) \/ UpsertPath(r)
  <2>1. \E row, next, writes : WritesRow(r, row, next, writes)
    BY <1>7 DEF UpsertLesson, UpsertSection, UpsertCourse, UpsertPath
  <2> QED BY <1>6, <2>1
<1>8. CASE UpdatePosition(r) \/ CreatePosition(r)
  BY <1>2, <1>6, <1>8 DEF UpdatePosition, CreatePosition, WritePosition
<1>9. CASE IssueCourseCert(r) \/ IssuePathCert(r)
  <2>1. CASE Rollback(r) BY <1>2, <2>1
  <2>2. CASE ~Rollback(r)
    BY <1>9, <2>2 DEF IssueCourseCert, IssuePathCert, Goto, Alone, TypeInv, TypeOK
  <2> QED BY <2>1, <2>2
<1>10. CASE Commit(r) BY <1>10, FinishAlone DEF Commit
<1> QED BY <1>1, <1>3, <1>4, <1>5, <1>7, <1>8, <1>9, <1>10 DEF Step

\* What r commits is another learner's business than that of the requests open
\* beside it.
LEMMA OthersExact ==
  ASSUME TypeInv, OneAtATime, NEW r \in Requests, Alone(r),
         NEW q \in Requests, q # r, Exact(q)
  PROVE  Exact(q)'
<1>1. pc'[q] = pc[q] /\ arg'[q] = arg[q] /\ local'[q] = local[q] /\ own'[q] = own[q]
  BY DEF Alone
<1>2. CASE pc[q] = "idle"
  BY <1>1, <1>2 DEF Exact, AfterLessonLock, AfterSectionLock, AfterCourseLock, AfterPathLock
<1>3. CASE pc[q] # "idle"
  <2>1. \A l : <<U(q), l>> \in lessonProgress <=> <<U(q), l>> \in lessonProgress'
    <3>1. CASE Commit(r)
      <4>1. U(q) # U(r) BY <1>3, <3>1 DEF OneAtATime, Commit
      <4>2. /\ lessonProgress' \subseteq lessonProgress \cup {<<U(r), L(r)>>}
            /\ lessonProgress \subseteq lessonProgress'
        BY <3>1 DEF Commit, SeenLessons
      <4> QED BY <4>1, <4>2
    <3>2. CASE UNCHANGED progressTables BY <3>2 DEF progressTables
    <3> QED BY <3>1, <3>2 DEF Alone
  <2>2. \A l : <<U(q), l>> \in SeenLessons(q) <=> <<U(q), l>> \in SeenLessons(q)'
    BY <1>1, <2>1 DEF SeenLessons, U, L
  <2> QED BY <1>1, <2>2, ExactStays
<1> QED BY <1>2, <1>3

\* A commit publishes exact rows.
LEMMA CommitExact ==
  ASSUME TypeInv, ExactInvariant, NEW r \in Requests, Commit(r)
  PROVE  AggregatesExact'
<1> DEFINE seen == SeenLessons(r)
<1>1. /\ lessonProgress' = seen /\ sectionProgress' = SeenSections(r)
      /\ courseProgress' = SeenCourses(r) /\ pathProgress' = SeenPaths(r) /\ pc[r] = "commit"
  BY DEF Commit
<1>2. /\ sectionProgress \in [Users \X Sections -> Nat \cup {NoRow}]
      /\ courseProgress \in [Users \X Courses -> Nat \cup {NoRow}]
      /\ pathProgress \in [Users \X Paths -> Nat \cup {NoRow}]
      /\ own[r] \in Writes /\ AggregatesExact
  BY DEF TypeInv, TypeOK, TablesTypeOK, ExactInvariant
<1>3. /\ CountsSection(r, own[r].section) /\ CountsCourse(r, own[r].course)
      /\ InPath(r) => CountsPath(r, own[r].path)
  BY <1>1 DEF ExactInvariant, Exact, AfterLessonLock, AfterSectionLock, AfterCourseLock,
    AfterPathLock
<1>4. /\ own[r].section # NoRow /\ own[r].course # NoRow
      /\ InPath(r) => own[r].path # NoRow
  BY <1>3, FinishedNumbers, SentinelAssumption DEF CountsSection, CountsCourse, CountsPath
<1> HIDE DEF seen
<1>5. ASSUME NEW u \in Users, NEW s \in Sections
      PROVE  IF sectionProgress'[<<u, s>>] = NoRow THEN CompletedOf(seen, u, s) = {}
             ELSE sectionProgress'[<<u, s>>] = Cardinality(CompletedOf(seen, u, s))
  <2>1. CASE <<u, s>> = <<U(r), S(r)>>
    <3>1. sectionProgress'[<<u, s>>] = own[r].section BY <1>1, <1>2, <1>4, <2>1 DEF SeenSections
    <3> QED BY <1>3, <1>4, <2>1, <3>1 DEF CountsSection, seen
  <2>2. CASE <<u, s>> # <<U(r), S(r)>>
    <3>1. sectionProgress'[<<u, s>>] = sectionProgress[<<u, s>>]
      BY <1>1, <1>2, <2>2 DEF SeenSections
    <3>2. CompletedOf(seen, u, s) = CompletedIn(u, s)
      BY <1>1, <2>2, ElsewhereCommitted DEF seen
    <3> QED BY <1>2, <3>1, <3>2 DEF AggregatesExact
  <2> QED BY <2>1, <2>2
<1>6. ASSUME NEW u \in Users, NEW c \in Courses
      PROVE  IF courseProgress'[<<u, c>>] = NoRow THEN FinishedSectionsOf(seen, u, c) = {}
             ELSE courseProgress'[<<u, c>>] = Cardinality(FinishedSectionsOf(seen, u, c))
  <2>1. CASE <<u, c>> = <<U(r), C(r)>>
    <3>1. courseProgress'[<<u, c>>] = own[r].course BY <1>1, <1>2, <1>4, <2>1 DEF SeenCourses
    <3> QED BY <1>3, <1>4, <2>1, <3>1 DEF CountsCourse, seen
  <2>2. CASE <<u, c>> # <<U(r), C(r)>>
    <3>1. courseProgress'[<<u, c>>] = courseProgress[<<u, c>>]
      BY <1>1, <1>2, <2>2 DEF SeenCourses
    <3>2. FinishedSectionsOf(seen, u, c) = FinishedSections(u, c)
      BY <1>1, <2>2, ElsewhereCommitted DEF seen
    <3> QED BY <1>2, <3>1, <3>2 DEF AggregatesExact
  <2> QED BY <2>1, <2>2
<1>7. ASSUME NEW u \in Users, NEW p \in Paths
      PROVE  IF pathProgress'[<<u, p>>] = NoRow THEN FinishedCoursesOf(seen, u, p) = {}
             ELSE pathProgress'[<<u, p>>] = Cardinality(FinishedCoursesOf(seen, u, p))
  <2>1. CASE <<u, p>> = <<U(r), P(r)>>
    <3>0. InPath(r) BY <2>1, ContentAssumption DEF InPath
    <3>1. pathProgress'[<<u, p>>] = own[r].path
      BY <1>1, <1>2, <1>4, <2>1, <3>0 DEF SeenPaths
    <3> QED BY <1>3, <1>4, <2>1, <3>0, <3>1 DEF CountsPath, seen
  <2>2. CASE <<u, p>> # <<U(r), P(r)>>
    <3>1. pathProgress'[<<u, p>>] = pathProgress[<<u, p>>] BY <1>1, <1>2, <2>2 DEF SeenPaths
    <3>2. FinishedCoursesOf(seen, u, p) = FinishedCourses(u, p)
      BY <1>1, <2>2, ElsewhereCommitted DEF seen
    <3> QED BY <1>2, <3>1, <3>2 DEF AggregatesExact
  <2> QED BY <2>1, <2>2
<1>8. /\ \A u, s : CompletedIn(u, s)' = CompletedOf(seen, u, s)
      /\ \A u, c : FinishedSections(u, c)' = FinishedSectionsOf(seen, u, c)
      /\ \A u, p : FinishedCourses(u, p)' = FinishedCoursesOf(seen, u, p)
  BY <1>1 DEF CompletedIn, FinishedSections, FinishedCourses, CompletedOf, FinishedSectionsOf,
    FinishedCoursesOf
<1> QED BY <1>5, <1>6, <1>7, <1>8 DEF AggregatesExact

\* Rows that nobody writes stay exact.
LEMMA RowsStayExact ==
  ASSUME AggregatesExact, UNCHANGED progressTables
  PROVE  AggregatesExact'
<1>1. UNCHANGED <<lessonProgress, sectionProgress, courseProgress, pathProgress>>
  BY DEF progressTables
<1>2. /\ \A u, s : CompletedIn(u, s)' = CompletedIn(u, s)
      /\ \A u, c : FinishedSections(u, c)' = FinishedSections(u, c)
      /\ \A u, p : FinishedCourses(u, p)' = FinishedCourses(u, p)
  BY <1>1 DEF CompletedIn, FinishedSections, FinishedCourses, CompletedOf,
    FinishedSectionsOf, FinishedCoursesOf
<1> QED BY <1>1, <1>2 DEF AggregatesExact

\* A cascade, alone with the data of its learner, keeps the rows exact.
LEMMA CascadeExact ==
  ASSUME TypeInv, ExactInvariant, OneAtATime, NEW r \in Requests,
         Client(r) \/ Step(r) \/ Abort(r)
  PROVE  ExactInvariant'
<1>1. Alone(r) BY StepAlone
<1>2. AggregatesExact'
  <2>1. CASE Commit(r) BY <2>1, CommitExact
  <2>2. CASE UNCHANGED progressTables
    BY <2>2, RowsStayExact DEF ExactInvariant
  <2> QED BY <1>1, <2>1, <2>2 DEF Alone
<1>3. Exact(r)'
  <2>0. Exact(r) BY DEF ExactInvariant
  <2>1. CASE Client(r)
    <3>1. pc'[r] = "guard" BY <2>1 DEF Client, Receive, Goto, TypeInv, TypeOK
    <3> QED
      BY <3>1 DEF Exact, AfterLessonLock, AfterSectionLock, AfterCourseLock, AfterPathLock
  <2>2. CASE \E certificates : Finish(r, certificates) BY <2>2, EndExact
  <2>3. CASE Rollback(r) \/ Abort(r) \/ Commit(r)
    BY <2>2, <2>3 DEF Rollback, Abort, Commit
  <2>4. CASE EnrollmentGuard(r) \/ FastPath(r)
    <3>1. CASE Finish(r, {}) BY <2>2, <3>1
    <3>2. CASE \E next \in {"fastPath", "capture"} : Goto(r, next)
      <4>1. pc'[r] \in {"fastPath", "capture"} BY <3>2 DEF Goto, TypeInv, TypeOK
      <4> QED
        BY <4>1 DEF Exact, AfterLessonLock, AfterSectionLock, AfterCourseLock, AfterPathLock
    <3> QED BY <2>4, <3>1, <3>2 DEF EnrollmentGuard, FastPath
  <2>5. CASE ~Rollback(r) /\ Step(r) /\ ~Commit(r) /\ ~EnrollmentGuard(r) /\ ~FastPath(r)
    BY <2>5, ReadsExact, WritesExact DEF Step
  <2> QED BY <2>1, <2>3, <2>4, <2>5
<1> QED BY <1>1, <1>2, <1>3, OthersExact DEF ExactInvariant

\* A request that rests is as exact as it was.
LEMMA RestingExact ==
  ASSUME TypeInv, NEW r \in Requests, Exact(r), UNCHANGED <<pc, arg, local, own>>,
         lessonProgress' = lessonProgress
  PROVE  Exact(r)'
<1>1. SeenLessons(r)' = SeenLessons(r) BY DEF SeenLessons, U, L
<1> QED BY <1>1, ExactStays

\* A step that moves no request and writes no progress row.
LEMMA NothingMoves ==
  ASSUME TypeInv, ExactInvariant, UNCHANGED <<pc, arg, local, own>>, UNCHANGED progressTables
  PROVE  ExactInvariant'
<1>1. AggregatesExact' BY RowsStayExact DEF ExactInvariant
<1>2. \A r \in Requests : Exact(r)' BY RestingExact DEF ExactInvariant, progressTables
<1> QED BY <1>1, <1>2 DEF ExactInvariant

\* With no lesson completed there is nothing to count.
LEMMA NothingExact ==
  ASSUME lessonProgress = {},
         \A k \in Users \X Sections : sectionProgress[k] \in {0, NoRow},
         \A k \in Users \X Courses : courseProgress[k] \in {0, NoRow},
         \A k \in Users \X Paths : pathProgress[k] \in {0, NoRow},
         \A r \in Requests : pc[r] = "idle"
  PROVE  ExactInvariant
<1>0. Cardinality({}) = 0 BY FS_EmptySet
<1>1. \A u, s : CompletedIn(u, s) = {} BY DEF CompletedIn, CompletedOf
<1>2. \A u, c : FinishedSections(u, c) = {}
  BY <1>0, <1>1, CompletedStatus, FinishedNumbers
  DEF FinishedSections, FinishedSectionsOf, CompletedIn
<1>3. \A u, p : FinishedCourses(u, p) = {}
  BY <1>0, <1>2, CompletedStatus, FinishedNumbers
  DEF FinishedCourses, FinishedCoursesOf, FinishedSections
<1>4. AggregatesExact BY <1>0, <1>1, <1>2, <1>3 DEF AggregatesExact
<1>5. ASSUME NEW r \in Requests PROVE Exact(r)
  BY DEF Exact, AfterLessonLock, AfterSectionLock, AfterCourseLock, AfterPathLock
<1> QED BY <1>4, <1>5 DEF ExactInvariant

(***************************************************************************)
(* As long as a learner sends one request at a time, every committed       *)
(* progress row is what counting the committed lessons gives, through      *)
(* crashes and retries and whatever other learners do.                     *)
(***************************************************************************)
THEOREM ExactOneAtATime == Spec /\ []OneAtATime => []AggregatesExact
<1>1. Init => ExactInvariant
  <2> SUFFICES ASSUME Init PROVE ExactInvariant OBVIOUS
  <2>1. PICK paths \in SUBSET (Users \X Paths),
             courses \in SUBSET {k \in Users \X Courses : PathOf[k[2]] = NoPath} :
          SeededBy(paths, courses)
    BY DEF Init
  <2>2. /\ \A k \in Users \X Sections : sectionProgress[k] \in {0, NoRow}
        /\ \A k \in Users \X Courses : courseProgress[k] \in {0, NoRow}
        /\ \A k \in Users \X Paths : pathProgress[k] \in {0, NoRow}
    BY <2>1 DEF SeededBy
  <2> QED BY <2>2, NothingExact DEF Init, NothingCompleted, CascadeIdle
<1>2. TypeInv /\ ExactInvariant /\ OneAtATime /\ [Next]_vars => ExactInvariant'
  <2> SUFFICES ASSUME TypeInv, ExactInvariant, OneAtATime, [Next]_vars
               PROVE  ExactInvariant'
    OBVIOUS
  <2>1. CASE Next BY <2>1, CascadeExact DEF Next
  <2>2. CASE UNCHANGED vars
    <3>1. UNCHANGED <<pc, arg, local, own>> /\ UNCHANGED progressTables
      BY <2>2 DEF vars, cascadeVars, tables
    <3> QED BY <3>1, NothingMoves
  <2> QED BY <2>1, <2>2
<1>3. ExactInvariant => AggregatesExact BY DEF ExactInvariant
<1> QED BY <1>1, <1>2, <1>3, TypeCorrect, PTL DEF Spec
=============================================================================
