------------------------- MODULE CascadeProperties -------------------------
(***************************************************************************)
(* What the lesson-completion cascade must guarantee to learners whose     *)
(* requests overlap, fail and are retried.                                 *)
(***************************************************************************)
EXTENDS Cascade

Ledger == INSTANCE CertificateLedger WITH
  lessonProgress <- lessonProgress, courseCertificate <- courseCertificate,
  pathCertificate <- pathCertificate

(***************************************************************************)
(* A user holds a course certificate exactly when every lesson of the      *)
(* course is committed COMPLETED, whatever requests overlapped.  Nothing   *)
(* repairs a missed certificate later: a completed lesson takes the fast   *)
(* path of completeLesson, which issues nothing.                           *)
(***************************************************************************)
CourseCertificatesExact == courseCertificate = Ledger!CourseDue(lessonProgress)

(***************************************************************************)
(* A user holds a path certificate exactly when every course of the path   *)
(* is certified, also when two of its courses were finished by requests    *)
(* that overlapped and neither saw the other's course certificate.         *)
(***************************************************************************)
PathCertificatesExact == pathCertificate = Ledger!PathDue(courseCertificate)

(***************************************************************************)
(* The INSERTs that issueCertificate and updateLastPosition make after a   *)
(* find that found nothing never meet a row: neither a committed one nor   *)
(* one another open transaction has written.  The partial unique indexes   *)
(* are a safety net; the upserts before them already serialise requests.   *)
(***************************************************************************)
InsertsNeverConflict ==
  \A r \in Requests :
    /\ pc[r] = "issueCourseCert" =>
         /\ <<U(r), C(r)>> \notin courseCertificate
         /\ Lockable(r, <<"course_certificate", U(r), C(r)>>)
    /\ pc[r] = "issuePathCert" =>
         /\ <<U(r), P(r)>> \notin pathCertificate
         /\ Lockable(r, <<"path_certificate", U(r), P(r)>>)
    /\ pc[r] = "writePosition" =>
         /\ ~local[r].found => lastPosition[<<U(r), local[r].scope>>] = NoRow
         /\ Lockable(r, <<"last_positions", U(r), local[r].scope>>)

-----------------------------------------------------------------------------
\* What the completed lessons alone say a user has finished.
CompletedOf(done, u, s) == {l \in LessonsIn(s) : <<u, l>> \in done}

FinishedSectionsOf(done, u, c) ==
  {s \in SectionsIn(c) :
     DeriveStatus(Cardinality(CompletedOf(done, u, s)),
                  Cardinality(LessonsIn(s))) = "COMPLETED"}

FinishedCoursesOf(done, u, p) ==
  {c \in CoursesIn(p) :
     DeriveStatus(Cardinality(FinishedSectionsOf(done, u, c)),
                  Cardinality(SectionsIn(c))) = "COMPLETED"}

CompletedIn(u, s) == CompletedOf(lessonProgress, u, s)
FinishedSections(u, c) == FinishedSectionsOf(lessonProgress, u, c)
FinishedCourses(u, p) == FinishedCoursesOf(lessonProgress, u, p)

(***************************************************************************)
(* No progress row ever claims more than the committed lessons justify,    *)
(* also when it was computed before other transactions committed, rolled   *)
(* back or overwrote the rows it was computed from.                        *)
(***************************************************************************)
NeverOverstated ==
  \A u \in Users :
    /\ \A s \in Sections :
         sectionProgress[<<u, s>>] # NoRow =>
           sectionProgress[<<u, s>>] <= Cardinality(CompletedIn(u, s))
    /\ \A c \in Courses :
         courseProgress[<<u, c>>] # NoRow =>
           courseProgress[<<u, c>>] <= Cardinality(FinishedSections(u, c))
    /\ \A p \in Paths :
         pathProgress[<<u, p>>] # NoRow =>
           pathProgress[<<u, p>>] <= Cardinality(FinishedCourses(u, p))

(***************************************************************************)
(* The committed progress rows are what the three recalculations return    *)
(* when they count the committed lessons: the cascade is one atomic unit.  *)
(* It holds while a learner sends one request at a time, crashes and       *)
(* retries included; two overlapping requests break it for good.           *)
(***************************************************************************)
AggregatesExact ==
  \A u \in Users :
    /\ \A s \in Sections :
         IF sectionProgress[<<u, s>>] = NoRow THEN CompletedIn(u, s) = {}
         ELSE sectionProgress[<<u, s>>] = Cardinality(CompletedIn(u, s))
    /\ \A c \in Courses :
         IF courseProgress[<<u, c>>] = NoRow THEN FinishedSections(u, c) = {}
         ELSE courseProgress[<<u, c>>] = Cardinality(FinishedSections(u, c))
    /\ \A p \in Paths :
         IF pathProgress[<<u, p>>] = NoRow THEN FinishedCourses(u, p) = {}
         ELSE pathProgress[<<u, p>>] = Cardinality(FinishedCourses(u, p))

\* A learner waits for the answer before the next request.
OneAtATime ==
  \A r, q \in Requests :
    pc[r] # "idle" /\ pc[q] # "idle" /\ U(r) = U(q) => r = q

-----------------------------------------------------------------------------
(***************************************************************************)
(* The position a learner resumes from is a lesson they completed, kept    *)
(* under its path when its course has one and under its course otherwise.  *)
(***************************************************************************)
PositionInScope ==
  \A k \in DOMAIN lastPosition :
    LET l == lastPosition[k]
        c == CourseOf[SectionOf[l]]
    IN  l # NoRow =>
          /\ <<k[1], l>> \in lessonProgress
          /\ k[2] = IF PathOf[c] # NoPath THEN PathOf[c] ELSE c

Committed ==
  {<<"COURSE", k[1], k[2]>> : k \in courseCertificate}
    \cup {<<"PATH", k[1], k[2]>> : k \in pathCertificate}

(***************************************************************************)
(* The step that commits a certificate answers a request whose             *)
(* certificatesIssued lists it, so the learner is told at least once; and  *)
(* its certificate_issued event has been captured.                         *)
(***************************************************************************)
IssuanceAnnounced ==
  [][\A cert \in Committed' \ Committed :
       /\ \E r \in Requests : cert \in issued'[r]
       /\ cert \in analytics]_vars

(***************************************************************************)
(* The cascade implements the ledger: whatever statements interleave,      *)
(* crash or retry, each step of the committed lessons and certificates is  *)
(* one atomic completion or leaves them alone.                             *)
(***************************************************************************)
ImplementsLedger == Ledger!Spec

(***************************************************************************)
(* A request that was received is answered: the upserts take their row     *)
(* locks from the lesson up, so no two cascades wait for each other.       *)
(***************************************************************************)
RequestsAnswered ==
  \A r \in Requests : pc[r] # "idle" ~> pc[r] = "idle"

-----------------------------------------------------------------------------
(* What the documentation says and the code does not do. *)

(***************************************************************************)
(* "If any step throws, the whole transaction rolls back and no            *)
(* certificate is issued, no analytics event is emitted": an event names   *)
(* a certificate that is committed or about to be.                         *)
(***************************************************************************)
EventsOnlyForIssued ==
  analytics \subseteq Committed
    \cup {<<"COURSE", U(r), C(r)>> : r \in {q \in Requests : own[q].courseCert}}
    \cup {<<"PATH", U(r), P(r)>> : r \in {q \in Requests : own[q].pathCert}}
=============================================================================
