------------------------- MODULE CertificateLedger -------------------------
(***************************************************************************)
(* What completing lessons promises, with no transaction in sight: each    *)
(* completion is one atomic step, after which a user holds exactly the     *)
(* course certificates of the courses they finished and the path           *)
(* certificates of the paths all of whose courses are certified.           *)
(***************************************************************************)
EXTENDS Content

VARIABLES lessonProgress, courseCertificate, pathCertificate

ledger == <<lessonProgress, courseCertificate, pathCertificate>>

\* The certificates due to users who completed exactly the lessons in done.
CourseDue(done) ==
  {k \in Users \X Courses :
     /\ CourseLessons(k[2]) # {}
     /\ \A l \in CourseLessons(k[2]) : <<k[1], l>> \in done}

\* The path certificates due to the holders of these course certificates.
PathDue(certified) ==
  {k \in Users \X Paths :
     /\ CoursesIn(k[2]) # {}
     /\ \A c \in CoursesIn(k[2]) : <<k[1], c>> \in certified}

Init ==
  /\ lessonProgress = {}
  /\ courseCertificate = {}
  /\ pathCertificate = {}

Complete(u, l) ==
  /\ lessonProgress' = lessonProgress \cup {<<u, l>>}
  /\ courseCertificate' = CourseDue(lessonProgress')
  /\ pathCertificate' = PathDue(courseCertificate')

Next == \E u \in Users, l \in Lessons : Complete(u, l)

Spec == Init /\ [][Next]_ledger
=============================================================================
