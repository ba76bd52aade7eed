--------------------------- MODULE LearningProofs ---------------------------
(***************************************************************************)
(* Enrollment: one per learner and path, all of it or nothing; and the     *)
(* learners who enroll while their lessons are being completed.            *)
(*                                                                         *)
(* Why it holds: every enrollment inserts a row under a unique key, and a  *)
(* transaction that got past that INSERT holds the row, which nobody else  *)
(* has committed, until it ends.  So of two enrollments in one scope only  *)
(* one commits, however stale the findFirst of the other was.              *)
(***************************************************************************)
EXTENDS Learning, CertificateProofs

AboutPath == {"findEnrollment"} \cup PathSteps
AboutCourse == {"findCourse", "createCourseEnrollment"} \cup CourseSteps

\* A request is about a path or about a standalone course, and has left to seed
\* some of its courses or sections.
EnrollerTypes(e) ==
  /\ step[e] \in {"idle"} \cup AboutPath \cup AboutCourse
  /\ step[e] \in AboutPath => Learner(e) \in Users /\ Scope(e) \in Paths
  /\ step[e] \in AboutCourse => Learner(e) \in Users /\ Scope(e) \in Courses
  /\ step[e] \in AboutCourse \ {"findCourse"} => PathOf[Scope(e)] = NoPath
  /\ step[e] = "createCourseRows" => todo[e] \subseteq CoursesIn(Scope(e))
  /\ step[e] = "createSectionRows" => todo[e] \subseteq SectionsIn(Scope(e))
  /\ step[e] \in {"commitPath", "commitCourse"} => todo[e] = {}

\* t holds the row and nobody has committed it.
HoldsPath(t, u, p) ==
  rowLock[<<"path_progress", u, p>>] = t /\ pathProgress[<<u, p>>] = NoRow
HoldsCourse(t, u, c) ==
  rowLock[<<"course_progress", u, c>>] = t /\ courseProgress[<<u, c>>] = NoRow
HoldsSection(t, u, s) ==
  rowLock[<<"section_progress", u, s>>] = t /\ sectionProgress[<<u, s>>] = NoRow
HoldsEnrollment(t, u, c) ==
  rowLock[<<"course_enrollments", u, c>>] = t /\ <<u, c>> \notin courseEnrollment

\* What an enrollment has inserted so far.
Inserted(e) ==
  /\ step[e] \in {"createCourseRows", "commitPath"} =>
       /\ HoldsPath(e, Learner(e), Scope(e))
       /\ \A c \in CoursesIn(Scope(e)) \ todo[e] : HoldsCourse(e, Learner(e), c)
  /\ step[e] \in CourseSteps => HoldsEnrollment(e, Learner(e), Scope(e))
  /\ step[e] \in {"createSectionRows", "commitCourse"} =>
       /\ HoldsCourse(e, Learner(e), Scope(e))
       /\ \A s \in SectionsIn(Scope(e)) \ todo[e] : HoldsSection(e, Learner(e), s)

EnrollersHold ==
  /\ TablesTypeOK
  /\ DOMAIN step = Enrollers /\ DOMAIN target = Enrollers
  /\ DOMAIN todo = Enrollers /\ DOMAIN answer = Enrollers
  /\ \A e \in Enrollers : EnrollerTypes(e) /\ Inserted(e)

\* A section of a standalone course has a row only once its learner is enrolled.
SectionsSeeded ==
  \A u \in Users, s \in Sections :
    PathOf[CourseOf[s]] = NoPath /\ sectionProgress[<<u, s>>] # NoRow =>
      <<u, CourseOf[s]>> \in courseEnrollment

EnrollInvariant ==
  EnrollersHold /\ OneEnrollmentPerPath /\ EnrolledIffSeeded /\ SectionsSeeded
-----------------------------------------------------------------------------
(* Locks and the steps of an enrollment *)

\* The rows an enrollment inserts are rows of the lock table.
LEMMA EnrollRows ==
  ASSUME NEW u \in Users
  PROVE  /\ \A p \in Paths : <<"path_progress", u, p>> \in Rows
         /\ \A c \in Courses : <<"course_progress", u, c>> \in Rows
         /\ \A c \in Courses : <<"course_enrollments", u, c>> \in Rows
         /\ \A s \in Sections : <<"section_progress", u, s>> \in Rows
BY DEF Rows

\* No transaction but f loses a row.
OthersKeepLocks(f) ==
  \A t \in Transactions \ {f} : \A row \in Rows : rowLock[row] = t => rowLock'[row] = t

\* Taking a row leaves the rows of others to them.
LEMMA LockKeeps ==
  ASSUME TablesTypeOK, NEW f \in Transactions, NEW row, Lockable(f, row), Lock(f, row)
  PROVE  OthersKeepLocks(f) /\ rowLock' \in [Rows -> Transactions \cup {Free}]
         /\ (row \in Rows => rowLock'[row] = f)
         /\ \A other \in Rows : rowLock[other] = f => rowLock'[other] = f
<1>1. rowLock \in [Rows -> Transactions \cup {Free}] BY DEF TablesTypeOK
<1>2. rowLock' = [rowLock EXCEPT ![row] = f] /\ rowLock[row] \in {Free, f}
  BY DEF Lockable, Lock
<1> QED BY <1>1, <1>2, SentinelAssumption DEF OthersKeepLocks

\* So does giving up all of one's own.
LEMMA UnlockKeeps ==
  ASSUME TablesTypeOK, NEW f \in Transactions, Unlock(f)
  PROVE  OthersKeepLocks(f) /\ rowLock' \in [Rows -> Transactions \cup {Free}]
BY SentinelAssumption DEF TablesTypeOK, Unlock, OthersKeepLocks

\* Whatever another transaction holds and nobody has committed stays so.
OthersKeepHeld(f) ==
  /\ OthersKeepLocks(f)
  /\ \A t \in Transactions \ {f} : \A u \in Users :
       /\ \A p \in Paths : HoldsPath(t, u, p) => HoldsPath(t, u, p)'
       /\ \A c \in Courses : HoldsCourse(t, u, c) => HoldsCourse(t, u, c)'
       /\ \A c \in Courses : HoldsEnrollment(t, u, c) => HoldsEnrollment(t, u, c)'
       /\ \A s \in Sections : HoldsSection(t, u, s) => HoldsSection(t, u, s)'

\* Only e is at another step, or is about anything else.
OnlyEnrollerMoves(e) ==
  /\ DOMAIN step' = Enrollers /\ DOMAIN target' = Enrollers
  /\ DOMAIN todo' = Enrollers /\ DOMAIN answer' = Enrollers
  /\ \A f \in Enrollers \ {e} :
       step'[f] = step[f] /\ target'[f] = target[f] /\ todo'[f] = todo[f] /\ answer'[f] = answer[f]

\* A statement that publishes nothing.
Quiet(e) ==
  /\ UNCHANGED <<enrollmentTables, progressTables>>
  /\ TablesTypeOK' /\ OthersKeepHeld(e) /\ OnlyEnrollerMoves(e)

\* A step that publishes nothing and keeps to its locks disturbs no other's.
LEMMA PublishesNothing ==
  ASSUME NEW f \in Transactions, OthersKeepLocks(f),
         UNCHANGED <<enrollmentTables, progressTables>>
  PROVE  OthersKeepHeld(f)
BY EnrollRows DEF OthersKeepLocks, OthersKeepHeld, HoldsPath, HoldsCourse, HoldsEnrollment,
  HoldsSection, enrollmentTables, progressTables

\* A refusal or a failure publishes nothing.
LEMMA ThrowIsQuiet ==
  ASSUME EnrollersHold, NEW e \in Enrollers, NEW how, Throw(e, how)
  PROVE  Quiet(e) /\ step'[e] = "idle" /\ answer'[e] = how
<1>1. e \in Transactions BY EnrollersAssumption
<1>2. Unlock(e) /\ UNCHANGED <<enrollmentTables, progressTables>> BY DEF Throw
<1>3. OthersKeepLocks(e) /\ rowLock' \in [Rows -> Transactions \cup {Free}]
  BY <1>1, <1>2, UnlockKeeps DEF EnrollersHold
<1>4. OthersKeepHeld(e) BY <1>1, <1>2, <1>3, PublishesNothing
<1>5. TablesTypeOK'
  BY <1>2, <1>3 DEF EnrollersHold, TablesTypeOK, enrollmentTables, progressTables
<1>6. OnlyEnrollerMoves(e) /\ step'[e] = "idle" /\ answer'[e] = how
  BY DEF Throw, Reply, OnlyEnrollerMoves, EnrollersHold
<1> QED BY <1>2, <1>4, <1>5, <1>6 DEF Quiet

\* e goes on, about the same scope.
GoesOn(e, next, left) ==
  step'[e] = next /\ todo'[e] = left /\ target'[e] = target[e] /\ answer'[e] = answer[e]

\* An INSERT waits, fails on a committed row, or takes the row.
LEMMA InsertIsQuiet ==
  ASSUME EnrollersHold, NEW e \in Enrollers, NEW row \in Rows, NEW taken \in BOOLEAN,
         NEW next, NEW left, NEW error,
         Insert(e, row, taken, next, left, error)
  PROVE  /\ Quiet(e)
         /\ \/ taken /\ step'[e] = "idle" /\ answer'[e] = error
            \/ /\ ~taken /\ GoesOn(e, next, left) /\ rowLock'[row] = e
               /\ \A other \in Rows : rowLock[other] = e => rowLock'[other] = e
<1>1. CASE taken
  <2>1. Throw(e, error) BY <1>1 DEF Insert
  <2> QED BY <1>1, <2>1, ThrowIsQuiet
<1>2. CASE ~taken
  <2>1. e \in Transactions BY EnrollersAssumption
  <2>2. /\ Lockable(e, row) /\ Lock(e, row) /\ Continue(e, next, left)
        /\ UNCHANGED <<enrollmentTables, progressTables>>
    BY <1>2 DEF Insert
  <2>3. /\ OthersKeepLocks(e) /\ rowLock' \in [Rows -> Transactions \cup {Free}]
        /\ rowLock'[row] = e /\ \A other \in Rows : rowLock[other] = e => rowLock'[other] = e
    BY <2>1, <2>2, LockKeeps DEF EnrollersHold
  <2>4. OthersKeepHeld(e) BY <2>1, <2>2, <2>3, PublishesNothing
  <2>5. TablesTypeOK'
    BY <2>2, <2>3 DEF EnrollersHold, TablesTypeOK, enrollmentTables, progressTables
  <2>6. OnlyEnrollerMoves(e) /\ GoesOn(e, next, left)
    BY <2>2 DEF Continue, OnlyEnrollerMoves, EnrollersHold, GoesOn
  <2> QED BY <1>2, <2>2, <2>3, <2>4, <2>5, <2>6 DEF Quiet
<1> QED BY <1>1, <1>2

\* An enrollment that does not move keeps its part of the invariant, whichever
\* transaction does.
LEMMA WaitingEnrollmentKept ==
  ASSUME EnrollersHold, NEW t, OthersKeepHeld(t), NEW f \in Enrollers, f # t,
         step'[f] = step[f], target'[f] = target[f], todo'[f] = todo[f]
  PROVE  EnrollerTypes(f)' /\ Inserted(f)'
<1>1. step'[f] = step[f] /\ target'[f] = target[f] /\ todo'[f] = todo[f]
  OBVIOUS
<1>2. EnrollerTypes(f) /\ Inserted(f) /\ f \in Transactions \ {t}
  BY EnrollersAssumption DEF EnrollersHold
<1>3. EnrollerTypes(f)' BY <1>1, <1>2 DEF EnrollerTypes, Learner, Scope
<1>4. Inserted(f)'
  <2>1. CASE step[f] \in {"createCourseRows", "commitPath"}
    <3>1. step[f] \in AboutPath BY <2>1 DEF AboutPath, PathSteps
    <3>2. Learner(f) \in Users /\ Scope(f) \in Paths BY <1>2, <3>1 DEF EnrollerTypes
    <3>3. CoursesIn(Scope(f)) \subseteq Courses BY DEF CoursesIn
    <3>4. /\ HoldsPath(f, Learner(f), Scope(f))
          /\ \A c \in CoursesIn(Scope(f)) \ todo[f] : HoldsCourse(f, Learner(f), c)
      BY <1>2, <2>1 DEF Inserted
    <3>5. /\ HoldsPath(f, Learner(f), Scope(f))'
          /\ \A c \in CoursesIn(Scope(f)) \ todo[f] : HoldsCourse(f, Learner(f), c)'
      BY <1>1, <1>2, <3>2, <3>3, <3>4
      DEF OthersKeepHeld, HoldsPath, HoldsCourse, Learner, Scope
    <3> QED BY <1>1, <2>1, <3>5 DEF Inserted, Learner, Scope, CourseSteps
  <2>2. CASE step[f] \in CourseSteps
    <3>1. step[f] \in AboutCourse BY <2>2 DEF AboutCourse
    <3>2. Learner(f) \in Users /\ Scope(f) \in Courses BY <1>2, <3>1 DEF EnrollerTypes
    <3>3. SectionsIn(Scope(f)) \subseteq Sections BY DEF SectionsIn
    <3>4. HoldsEnrollment(f, Learner(f), Scope(f))'
      BY <1>1, <1>2, <2>2, <3>2 DEF Inserted, OthersKeepHeld, HoldsEnrollment, Learner, Scope
    <3>5. CASE step[f] \in {"createSectionRows", "commitCourse"}
      <4>1. /\ HoldsCourse(f, Learner(f), Scope(f))
            /\ \A s \in SectionsIn(Scope(f)) \ todo[f] : HoldsSection(f, Learner(f), s)
        BY <1>2, <3>5 DEF Inserted
      <4>2. /\ HoldsCourse(f, Learner(f), Scope(f))'
            /\ \A s \in SectionsIn(Scope(f)) \ todo[f] : HoldsSection(f, Learner(f), s)'
        BY <1>1, <1>2, <3>2, <3>3, <4>1
        DEF OthersKeepHeld, HoldsCourse, HoldsSection, Learner, Scope
      <4> QED BY <1>1, <3>4, <3>5, <4>2 DEF Inserted, Learner, Scope, CourseSteps
    <3> QED BY <1>1, <2>2, <3>4, <3>5 DEF Inserted, Learner, Scope, CourseSteps
  <2> QED BY <1>1, <2>1, <2>2 DEF Inserted, CourseSteps
<1> QED BY <1>3, <1>4

\* An enrollment that does not move keeps its type and the rows it inserted.
LEMMA OtherEnrollersKept ==
  ASSUME EnrollersHold, NEW e \in Enrollers, OnlyEnrollerMoves(e), OthersKeepHeld(e),
         NEW f \in Enrollers, f # e
  PROVE  EnrollerTypes(f)' /\ Inserted(f)'
BY WaitingEnrollmentKept DEF OnlyEnrollerMoves

\* A step that publishes nothing leaves only its own request to look at.
LEMMA QuietKeeps ==
  ASSUME EnrollersHold, NEW e \in Enrollers, Quiet(e),
         EnrollerTypes(e)', Inserted(e)'
  PROVE  EnrollersHold'
<1>1. \A f \in Enrollers \ {e} : EnrollerTypes(f)' /\ Inserted(f)'
  BY OtherEnrollersKept DEF Quiet
<1> QED BY <1>1 DEF EnrollersHold, Quiet, OnlyEnrollerMoves

\* A step by which an enrollment ends without publishing.
LEMMA IdleKeeps ==
  ASSUME EnrollersHold, NEW e \in Enrollers, Quiet(e), step'[e] = "idle"
  PROVE  EnrollersHold'
<1>1. EnrollerTypes(e)'
  BY DEF EnrollerTypes, AboutPath, AboutCourse, PathSteps, CourseSteps
<1>2. Inserted(e)' BY DEF Inserted, CourseSteps
<1> QED BY <1>1, <1>2, QuietKeeps

\* Receiving a request.
LEMMA SubmitKeeps ==
  ASSUME EnrollersHold, NEW e \in Enrollers, Submit(e)
  PROVE  Quiet(e) /\ EnrollersHold'
<1>1. PICK u \in Users, scope \in Scopes :
        /\ target' = [target EXCEPT ![e] = [user |-> u, scope |-> scope]]
        /\ \/ step' = [step EXCEPT ![e] = "findEnrollment"] /\ scope \in Paths
           \/ step' = [step EXCEPT ![e] = "findCourse"] /\ scope \in Courses
        /\ answer' = [answer EXCEPT ![e] = "none"]
        /\ UNCHANGED <<tables, todo>>
  BY DEF Submit, SubmitPath, SubmitCourse, Scopes
<1>2. Quiet(e)
  <2>1. TablesTypeOK' /\ UNCHANGED <<enrollmentTables, progressTables>>
    BY <1>1 DEF EnrollersHold, TablesTypeOK, tables, enrollmentTables, progressTables
  <2>2. OnlyEnrollerMoves(e) BY <1>1 DEF EnrollersHold, OnlyEnrollerMoves
  <2>3. OthersKeepHeld(e)
    <3>1. OthersKeepLocks(e) BY <1>1 DEF OthersKeepLocks, tables
    <3> QED BY <2>1, <3>1, PublishesNothing, EnrollersAssumption
  <2> QED BY <2>1, <2>2, <2>3 DEF Quiet
<1>3. target'[e].user = u /\ target'[e].scope = scope BY <1>1 DEF EnrollersHold
<1>4. \/ step'[e] = "findEnrollment" /\ scope \in Paths
      \/ step'[e] = "findCourse" /\ scope \in Courses
  BY <1>1 DEF EnrollersHold
<1>5. EnrollerTypes(e)'
  BY <1>3, <1>4 DEF EnrollerTypes, Learner, Scope, AboutPath, AboutCourse, PathSteps, CourseSteps
<1>6. Inserted(e)' BY <1>4 DEF Inserted, CourseSteps
<1> QED BY <1>2, <1>5, <1>6, QuietKeeps

\* The statements that only read.
LEMMA ReadsAreQuiet ==
  ASSUME EnrollersHold, NEW e \in Enrollers, NEW next, Continue(e, next, {}), UNCHANGED tables
  PROVE  Quiet(e) /\ GoesOn(e, next, {})
<1>1. TablesTypeOK' /\ UNCHANGED <<enrollmentTables, progressTables>>
  BY DEF EnrollersHold, TablesTypeOK, tables, enrollmentTables, progressTables
<1>2. OnlyEnrollerMoves(e) /\ GoesOn(e, next, {})
  BY DEF Continue, EnrollersHold, OnlyEnrollerMoves, GoesOn
<1>3. OthersKeepHeld(e)
  <2>1. OthersKeepLocks(e) BY DEF OthersKeepLocks, tables
  <2> QED BY <1>1, <2>1, PublishesNothing, EnrollersAssumption
<1> QED BY <1>1, <1>2, <1>3 DEF Quiet

\* The reads that decide whether anything is inserted.
LEMMA FindsKeep ==
  ASSUME EnrollersHold, NEW e \in Enrollers, FindEnrollment(e) \/ FindCourse(e)
  PROVE  Quiet(e) /\ EnrollersHold'
<1>1. EnrollerTypes(e) BY DEF EnrollersHold
<1>2. CASE \E how : Throw(e, how) BY <1>2, ThrowIsQuiet, IdleKeeps
<1>3. CASE /\ step[e] = "findEnrollment"
           /\ Continue(e, "createPathProgress", {}) /\ UNCHANGED tables
  <2>1. Quiet(e) /\ GoesOn(e, "createPathProgress", {}) BY <1>3, ReadsAreQuiet
  <2>2. EnrollerTypes(e)'
    BY <1>1, <1>3, <2>1 DEF EnrollerTypes, GoesOn, Learner, Scope, AboutPath, AboutCourse,
      PathSteps, CourseSteps
  <2>3. Inserted(e)' BY <2>1 DEF Inserted, GoesOn, CourseSteps
  <2> QED BY <2>1, <2>2, <2>3, QuietKeeps
<1>4. CASE /\ step[e] = "findCourse" /\ PathOf[Scope(e)] = NoPath
           /\ Continue(e, "createCourseEnrollment", {}) /\ UNCHANGED tables
  <2>1. Quiet(e) /\ GoesOn(e, "createCourseEnrollment", {}) BY <1>4, ReadsAreQuiet
  <2>2. EnrollerTypes(e)'
    BY <1>1, <1>4, <2>1 DEF EnrollerTypes, GoesOn, Learner, Scope, AboutPath, AboutCourse,
      PathSteps, CourseSteps
  <2>3. Inserted(e)' BY <2>1 DEF Inserted, GoesOn, CourseSteps
  <2> QED BY <2>1, <2>2, <2>3, QuietKeeps
<1> QED BY <1>2, <1>3, <1>4 DEF FindEnrollment, FindCourse

\* The statements that insert.
LEMMA CreatePathProgressKeeps ==
  ASSUME EnrollersHold, NEW e \in Enrollers, CreatePathProgress(e)
  PROVE  Quiet(e) /\ EnrollersHold'
<1> DEFINE u == Learner(e)
           p == Scope(e)
           row == <<"path_progress", u, p>>
           next == IF CoursesIn(p) = {} THEN "commitPath" ELSE "createCourseRows"
<1>1. step[e] = "createPathProgress" BY DEF CreatePathProgress
<1>2. EnrollerTypes(e) /\ u \in Users /\ p \in Paths /\ row \in Rows
  BY <1>1, EnrollRows DEF EnrollersHold, EnrollerTypes, AboutPath, PathSteps
<1>3. Insert(e, row, pathProgress[<<u, p>>] # NoRow, next, CoursesIn(p), "uniqueViolation")
  BY DEF CreatePathProgress
<1> HIDE DEF row, next
<1>4. /\ Quiet(e)
      /\ \/ step'[e] = "idle"
         \/ /\ pathProgress[<<u, p>>] = NoRow /\ GoesOn(e, next, CoursesIn(p)) /\ rowLock'[row] = e
  BY <1>2, <1>3, InsertIsQuiet
<1>5. CASE step'[e] = "idle" BY <1>4, <1>5, IdleKeeps
<1>6. CASE pathProgress[<<u, p>>] = NoRow /\ GoesOn(e, next, CoursesIn(p)) /\ rowLock'[row] = e
  <2>1. step'[e] \in {"commitPath", "createCourseRows"} /\ todo'[e] = CoursesIn(p)
        /\ (step'[e] = "commitPath" => todo'[e] = {})
    BY <1>6 DEF GoesOn, next
  <2>2. Learner(e)' = u /\ Scope(e)' = p BY <1>6 DEF GoesOn, Learner, Scope
  <2>3. EnrollerTypes(e)'
    BY <1>2, <2>1, <2>2 DEF EnrollerTypes, AboutPath, AboutCourse, PathSteps, CourseSteps
  <2>4. HoldsPath(e, u, p)'
    BY <1>4, <1>6, <2>2 DEF HoldsPath, Quiet, progressTables, row
  <2>5. Inserted(e)' BY <2>1, <2>2, <2>4 DEF Inserted, CourseSteps, HoldsPath
  <2> QED BY <1>4, <2>3, <2>5, QuietKeeps
<1> QED BY <1>4, <1>5, <1>6

\* enrollInPath: a course_progress row.
LEMMA CreateCourseRowKeeps ==
  ASSUME EnrollersHold, NEW e \in Enrollers, CreateCourseRow(e)
  PROVE  Quiet(e) /\ EnrollersHold'
<1> DEFINE u == Learner(e)
           p == Scope(e)
<1>1. PICK c \in todo[e] :
        Insert(e, <<"course_progress", u, c>>, courseProgress[<<u, c>>] # NoRow,
               IF todo[e] = {c} THEN "commitPath" ELSE "createCourseRows",
               todo[e] \ {c}, "uniqueViolation")
  BY DEF CreateCourseRow
<1> DEFINE row == <<"course_progress", u, c>>
           next == IF todo[e] = {c} THEN "commitPath" ELSE "createCourseRows"
<1>2. step[e] = "createCourseRows" BY DEF CreateCourseRow
<1>3. /\ EnrollerTypes(e) /\ Inserted(e) /\ u \in Users /\ p \in Paths
      /\ todo[e] \subseteq CoursesIn(p) /\ c \in Courses
  BY <1>2 DEF EnrollersHold, EnrollerTypes, AboutPath, PathSteps, CoursesIn
<1>4. row \in Rows BY <1>3, EnrollRows
<1> HIDE DEF row, next
<1>5. /\ Quiet(e)
      /\ \/ step'[e] = "idle"
         \/ /\ courseProgress[<<u, c>>] = NoRow /\ GoesOn(e, next, todo[e] \ {c})
            /\ rowLock'[row] = e
            /\ \A other \in Rows : rowLock[other] = e => rowLock'[other] = e
  <2> DEFINE taken == courseProgress[<<u, c>>] # NoRow
             left == todo[e] \ {c}
  <2>1. Insert(e, row, taken, next, left, "uniqueViolation") BY <1>1 DEF row, next
  <2>2. taken \in BOOLEAN OBVIOUS
  <2> HIDE DEF taken, left
  <2>3. /\ Quiet(e)
        /\ \/ taken /\ step'[e] = "idle"
           \/ /\ ~taken /\ GoesOn(e, next, left) /\ rowLock'[row] = e
              /\ \A other \in Rows : rowLock[other] = e => rowLock'[other] = e
    BY <1>4, <2>1, <2>2, InsertIsQuiet
  <2> QED BY <2>3 DEF taken, left
<1>6. CASE step'[e] = "idle" BY <1>5, <1>6, IdleKeeps
<1>7. CASE /\ courseProgress[<<u, c>>] = NoRow /\ GoesOn(e, next, todo[e] \ {c})
           /\ rowLock'[row] = e
           /\ \A other \in Rows : rowLock[other] = e => rowLock'[other] = e
  <2>1. /\ step'[e] \in {"commitPath", "createCourseRows"} /\ todo'[e] = todo[e] \ {c}
        /\ (step'[e] = "commitPath" => todo'[e] = {})
    BY <1>7 DEF GoesOn, next
  <2>2. Learner(e)' = u /\ Scope(e)' = p BY <1>7 DEF GoesOn, Learner, Scope
  <2>3. EnrollerTypes(e)'
    BY <1>3, <2>1, <2>2 DEF EnrollerTypes, AboutPath, AboutCourse, PathSteps, CourseSteps
  <2>4. HoldsPath(e, u, p) /\ \A d \in CoursesIn(p) \ todo[e] : HoldsCourse(e, u, d)
    BY <1>2, <1>3 DEF Inserted
  <2>5. HoldsPath(e, u, p)'
    BY <1>3, <1>5, <1>7, <2>2, <2>4, EnrollRows DEF HoldsPath, Quiet, progressTables
  <2>6. ASSUME NEW d \in CoursesIn(p) \ todo'[e] PROVE HoldsCourse(e, u, d)'
    <3>1. d \in Courses BY DEF CoursesIn
    <3>2. CASE d = c BY <1>5, <1>7, <2>2, <3>2 DEF HoldsCourse, Quiet, progressTables, row
    <3>3. CASE d # c
      <4>1. HoldsCourse(e, u, d) BY <2>1, <2>4, <3>3
      <4> QED BY <1>3, <1>5, <1>7, <2>2, <3>1, <4>1, EnrollRows
        DEF HoldsCourse, Quiet, progressTables
    <3> QED BY <3>2, <3>3
  <2>7. Inserted(e)'
    BY <2>1, <2>2, <2>5, <2>6 DEF Inserted, CourseSteps, HoldsPath, HoldsCourse
  <2> QED BY <1>5, <2>3, <2>7, QuietKeeps
<1> QED BY <1>5, <1>6, <1>7

\* enrollInCourse: the enrollment.
LEMMA CreateCourseEnrollmentKeeps ==
  ASSUME EnrollersHold, NEW e \in Enrollers, CreateCourseEnrollment(e)
  PROVE  Quiet(e) /\ EnrollersHold'
<1> DEFINE u == Learner(e)
           c == Scope(e)
           row == <<"course_enrollments", u, c>>
           taken == <<u, c>> \in courseEnrollment
<1>1. step[e] = "createCourseEnrollment" BY DEF CreateCourseEnrollment
<1>2. EnrollerTypes(e) /\ u \in Users /\ c \in Courses /\ row \in Rows
  BY <1>1, EnrollRows DEF EnrollersHold, EnrollerTypes, AboutCourse, CourseSteps
<1>3. Insert(e, row, taken, "createCourseProgress", {}, "conflict") /\ taken \in BOOLEAN
  BY DEF CreateCourseEnrollment
<1> HIDE DEF row, taken
<1>4. /\ Quiet(e)
      /\ \/ step'[e] = "idle"
         \/ ~taken /\ GoesOn(e, "createCourseProgress", {}) /\ rowLock'[row] = e
  BY <1>2, <1>3, InsertIsQuiet
<1>5. CASE step'[e] = "idle" BY <1>4, <1>5, IdleKeeps
<1>6. CASE ~taken /\ GoesOn(e, "createCourseProgress", {}) /\ rowLock'[row] = e
  <2>1. step'[e] = "createCourseProgress" BY <1>6 DEF GoesOn
  <2>2. Learner(e)' = u /\ Scope(e)' = c BY <1>6 DEF GoesOn, Learner, Scope
  <2>3. EnrollerTypes(e)'
    BY <1>1, <1>2, <2>1, <2>2 DEF EnrollerTypes, AboutPath, AboutCourse, PathSteps, CourseSteps
  <2>4. HoldsEnrollment(e, u, c)'
    BY <1>4, <1>6, <2>2 DEF HoldsEnrollment, Quiet, enrollmentTables, row, taken
  <2>5. Inserted(e)' BY <2>1, <2>2, <2>4 DEF Inserted, CourseSteps, HoldsEnrollment
  <2> QED BY <1>4, <2>3, <2>5, QuietKeeps
<1> QED BY <1>4, <1>5, <1>6

\* enrollInCourse: its course_progress row.
LEMMA CreateCourseProgressKeeps ==
  ASSUME EnrollersHold, NEW e \in Enrollers, CreateCourseProgress(e)
  PROVE  Quiet(e) /\ EnrollersHold'
<1> DEFINE u == Learner(e)
           c == Scope(e)
           row == <<"course_progress", u, c>>
           next == IF SectionsIn(c) = {} THEN "commitCourse" ELSE "createSectionRows"
<1>1. step[e] = "createCourseProgress" BY DEF CreateCourseProgress
<1>2. EnrollerTypes(e) /\ Inserted(e) /\ u \in Users /\ c \in Courses /\ row \in Rows
  BY <1>1, EnrollRows DEF EnrollersHold, EnrollerTypes, AboutCourse, CourseSteps
<1>3. Insert(e, row, courseProgress[<<u, c>>] # NoRow, next, SectionsIn(c), "conflict")
  BY DEF CreateCourseProgress
<1> HIDE DEF row, next
<1>4. /\ Quiet(e)
      /\ \/ step'[e] = "idle"
         \/ /\ courseProgress[<<u, c>>] = NoRow /\ GoesOn(e, next, SectionsIn(c))
            /\ rowLock'[row] = e
            /\ \A other \in Rows : rowLock[other] = e => rowLock'[other] = e
  BY <1>2, <1>3, InsertIsQuiet
<1>5. CASE step'[e] = "idle" BY <1>4, <1>5, IdleKeeps
<1>6. CASE /\ courseProgress[<<u, c>>] = NoRow /\ GoesOn(e, next, SectionsIn(c))
           /\ rowLock'[row] = e
           /\ \A other \in Rows : rowLock[other] = e => rowLock'[other] = e
  <2>1. step'[e] \in {"commitCourse", "createSectionRows"} /\ todo'[e] = SectionsIn(c)
        /\ (step'[e] = "commitCourse" => todo'[e] = {})
    BY <1>6 DEF GoesOn, next
  <2>2. Learner(e)' = u /\ Scope(e)' = c BY <1>6 DEF GoesOn, Learner, Scope
  <2>3. EnrollerTypes(e)'
    BY <1>1, <1>2, <2>1, <2>2 DEF EnrollerTypes, AboutPath, AboutCourse, PathSteps, CourseSteps
  <2>4. HoldsEnrollment(e, u, c) BY <1>1, <1>2 DEF Inserted, CourseSteps
  <2>5. HoldsEnrollment(e, u, c)'
    BY <1>2, <1>4, <1>6, <2>2, <2>4, EnrollRows DEF HoldsEnrollment, Quiet, enrollmentTables
  <2>6. HoldsCourse(e, u, c)' BY <1>4, <1>6, <2>2 DEF HoldsCourse, Quiet, progressTables, row
  <2>7. Inserted(e)'
    BY <2>1, <2>2, <2>5, <2>6 DEF Inserted, CourseSteps, HoldsEnrollment, HoldsCourse
  <2> QED BY <1>4, <2>3, <2>7, QuietKeeps
<1> QED BY <1>4, <1>5, <1>6

\* enrollInCourse: a section_progress row.
LEMMA CreateSectionRowKeeps ==
  ASSUME EnrollersHold, NEW e \in Enrollers, CreateSectionRow(e)
  PROVE  Quiet(e) /\ EnrollersHold'
<1> DEFINE u == Learner(e)
           c == Scope(e)
<1>1. PICK s \in todo[e] :
        Insert(e, <<"section_progress", u, s>>, sectionProgress[<<u, s>>] # NoRow,
               IF todo[e] = {s} THEN "commitCourse" ELSE "createSectionRows",
               todo[e] \ {s}, "conflict")
  BY DEF CreateSectionRow
<1> DEFINE row == <<"section_progress", u, s>>
           next == IF todo[e] = {s} THEN "commitCourse" ELSE "createSectionRows"
<1>2. step[e] = "createSectionRows" BY DEF CreateSectionRow
<1>3. /\ EnrollerTypes(e) /\ Inserted(e) /\ u \in Users /\ c \in Courses
      /\ todo[e] \subseteq SectionsIn(c) /\ s \in Sections
  BY <1>2 DEF EnrollersHold, EnrollerTypes, AboutCourse, CourseSteps, SectionsIn
<1>4. row \in Rows BY <1>3, EnrollRows
<1> HIDE DEF row, next
<1>5. /\ Quiet(e)
      /\ \/ step'[e] = "idle"
         \/ /\ sectionProgress[<<u, s>>] = NoRow /\ GoesOn(e, next, todo[e] \ {s})
            /\ rowLock'[row] = e
            /\ \A other \in Rows : rowLock[other] = e => rowLock'[other] = e
  <2> DEFINE taken == sectionProgress[<<u, s>>] # NoRow
             left == todo[e] \ {s}
  <2>1. Insert(e, row, taken, next, left, "conflict") BY <1>1 DEF row, next
  <2>2. taken \in BOOLEAN OBVIOUS
  <2> HIDE DEF taken, left
  <2>3. /\ Quiet(e)
        /\ \/ taken /\ step'[e] = "idle"
           \/ /\ ~taken /\ GoesOn(e, next, left) /\ rowLock'[row] = e
              /\ \A other \in Rows : rowLock[other] = e => rowLock'[other] = e
    BY <1>4, <2>1, <2>2, InsertIsQuiet
  <2> QED BY <2>3 DEF taken, left
<1>6. CASE step'[e] = "idle" BY <1>5, <1>6, IdleKeeps
<1>7. CASE /\ sectionProgress[<<u, s>>] = NoRow /\ GoesOn(e, next, todo[e] \ {s})
           /\ rowLock'[row] = e
           /\ \A other \in Rows : rowLock[other] = e => rowLock'[other] = e
  <2>1. /\ step'[e] \in {"commitCourse", "createSectionRows"} /\ todo'[e] = todo[e] \ {s}
        /\ (step'[e] = "commitCourse" => todo'[e] = {})
    BY <1>7 DEF GoesOn, next
  <2>2. Learner(e)' = u /\ Scope(e)' = c BY <1>7 DEF GoesOn, Learner, Scope
  <2>3. EnrollerTypes(e)'
    BY <1>2, <1>3, <2>1, <2>2 DEF EnrollerTypes, AboutPath, AboutCourse, PathSteps, CourseSteps
  <2>4. /\ HoldsEnrollment(e, u, c) /\ HoldsCourse(e, u, c)
        /\ \A d \in SectionsIn(c) \ todo[e] : HoldsSection(e, u, d)
    BY <1>2, <1>3 DEF Inserted, CourseSteps
  <2>5. HoldsEnrollment(e, u, c)' /\ HoldsCourse(e, u, c)'
    BY <1>3, <1>5, <1>7, <2>2, <2>4, EnrollRows
    DEF HoldsEnrollment, HoldsCourse, Quiet, enrollmentTables, progressTables
  <2>6. ASSUME NEW d \in SectionsIn(c) \ todo'[e] PROVE HoldsSection(e, u, d)'
    <3>1. d \in Sections BY DEF SectionsIn
    <3>2. CASE d = s BY <1>5, <1>7, <2>2, <3>2 DEF HoldsSection, Quiet, progressTables, row
    <3>3. CASE d # s
      <4>1. HoldsSection(e, u, d) BY <2>1, <2>4, <3>3
      <4> QED BY <1>3, <1>5, <1>7, <2>2, <3>1, <4>1, EnrollRows
        DEF HoldsSection, Quiet, progressTables
    <3> QED BY <3>2, <3>3
  <2>7. Inserted(e)'
    BY <2>1, <2>2, <2>5, <2>6
    DEF Inserted, CourseSteps, HoldsEnrollment, HoldsCourse, HoldsSection
  <2> QED BY <1>5, <2>3, <2>7, QuietKeeps
<1> QED BY <1>5, <1>6, <1>7
-----------------------------------------------------------------------------
(* The two commits *)

\* A transaction that publishes the rows it holds, and only those, takes
\* nothing from another.
LEMMA EndKeeps ==
  ASSUME EnrollersHold, NEW e \in Enrollers, NEW how, Unlock(e), Reply(e, how), TablesTypeOK',
         \A t \in Transactions \ {e} : \A u \in Users :
           /\ \A p \in Paths : HoldsPath(t, u, p) => pathProgress'[<<u, p>>] = NoRow
           /\ \A c \in Courses : HoldsCourse(t, u, c) => courseProgress'[<<u, c>>] = NoRow
           /\ \A c \in Courses : HoldsEnrollment(t, u, c) => <<u, c>> \notin courseEnrollment'
           /\ \A s \in Sections : HoldsSection(t, u, s) => sectionProgress'[<<u, s>>] = NoRow
  PROVE  EnrollersHold' /\ OthersKeepHeld(e)
<1>1. e \in Transactions BY EnrollersAssumption
<1>2. OthersKeepLocks(e) BY <1>1, UnlockKeeps DEF EnrollersHold
<1>3. OthersKeepHeld(e)
  BY <1>2, EnrollRows DEF OthersKeepLocks, OthersKeepHeld, HoldsPath, HoldsCourse,
    HoldsEnrollment, HoldsSection
<1>4. OnlyEnrollerMoves(e) /\ step'[e] = "idle"
  BY DEF Reply, OnlyEnrollerMoves, EnrollersHold
<1>5. EnrollerTypes(e)' /\ Inserted(e)'
  BY <1>4 DEF EnrollerTypes, Inserted, AboutPath, AboutCourse, PathSteps, CourseSteps
<1>6. \A f \in Enrollers \ {e} : EnrollerTypes(f)' /\ Inserted(f)'
  BY <1>3, <1>4, OtherEnrollersKept
<1> QED BY <1>3, <1>4, <1>5, <1>6 DEF EnrollersHold, OnlyEnrollerMoves

\* What the commit of a path enrollment holds.
LEMMA PathCommitHolds ==
  ASSUME EnrollersHold, NEW e \in Enrollers, step[e] = "commitPath"
  PROVE  /\ Learner(e) \in Users /\ Scope(e) \in Paths
         /\ HoldsPath(e, Learner(e), Scope(e))
         /\ \A c \in CoursesIn(Scope(e)) : HoldsCourse(e, Learner(e), c)
<1>1. EnrollerTypes(e) /\ Inserted(e) BY DEF EnrollersHold
<1>2. todo[e] = {} /\ Learner(e) \in Users /\ Scope(e) \in Paths
  BY <1>1 DEF EnrollerTypes, AboutPath, PathSteps
<1> QED BY <1>1, <1>2 DEF Inserted

\* Before it commits, enrollInCourse holds every row it has to seed.
LEMMA CourseCommitHolds ==
  ASSUME EnrollersHold, NEW e \in Enrollers, step[e] = "commitCourse"
  PROVE  /\ Learner(e) \in Users /\ Scope(e) \in Courses /\ PathOf[Scope(e)] = NoPath
         /\ HoldsEnrollment(e, Learner(e), Scope(e))
         /\ HoldsCourse(e, Learner(e), Scope(e))
         /\ \A s \in SectionsIn(Scope(e)) : HoldsSection(e, Learner(e), s)
<1>1. EnrollerTypes(e) /\ Inserted(e) BY DEF EnrollersHold
<1>2. /\ todo[e] = {} /\ Learner(e) \in Users /\ Scope(e) \in Courses
      /\ PathOf[Scope(e)] = NoPath
  BY <1>1 DEF EnrollerTypes, AboutCourse, CourseSteps
<1> QED BY <1>1, <1>2 DEF Inserted, CourseSteps

\* The commit of enrollInPath disturbs nobody's rows.
LEMMA CommitPathKeeps ==
  ASSUME EnrollersHold, NEW e \in Enrollers, CommitPath(e)
  PROVE  EnrollersHold' /\ OthersKeepHeld(e)
<1> DEFINE u == Learner(e)
           p == Scope(e)
<1>1. /\ step[e] = "commitPath" /\ Unlock(e) /\ Reply(e, "enrolled")
      /\ pathEnrollment' = [pathEnrollment EXCEPT ![<<u, p>>] = @ + 1]
      /\ pathProgress' = [pathProgress EXCEPT ![<<u, p>>] = 0]
      /\ courseProgress' = [k \in DOMAIN courseProgress |->
           IF k[1] = u /\ PathOf[k[2]] = p THEN 0 ELSE courseProgress[k]]
      /\ UNCHANGED <<courseEnrollment, lessonProgress, sectionProgress, lastPosition,
                     courseCertificate, pathCertificate>>
  BY DEF CommitPath
<1>2. /\ u \in Users /\ p \in Paths /\ HoldsPath(e, u, p)
      /\ \A c \in CoursesIn(p) : HoldsCourse(e, u, c)
  BY <1>1, PathCommitHolds
<1> HIDE DEF u, p
<1>3. TablesTypeOK /\ e \in Transactions BY EnrollersAssumption DEF EnrollersHold
<1>4. TablesTypeOK'
  <2>1. pathEnrollment' \in [Users \X Paths -> Nat] BY <1>1, <1>2, <1>3 DEF TablesTypeOK
  <2>2. pathProgress' \in [Users \X Paths -> Nat \cup {NoRow}]
    BY <1>1, <1>2, <1>3 DEF TablesTypeOK
  <2>3. courseProgress' \in [Users \X Courses -> Nat \cup {NoRow}]
    BY <1>1, <1>3 DEF TablesTypeOK
  <2>4. rowLock' \in [Rows -> Transactions \cup {Free}] BY <1>1, <1>3, UnlockKeeps
  <2> QED BY <1>1, <1>3, <2>1, <2>2, <2>3, <2>4 DEF TablesTypeOK
<1>5. ASSUME NEW t \in Transactions \ {e}, NEW v \in Users
      PROVE  /\ \A q \in Paths : HoldsPath(t, v, q) => pathProgress'[<<v, q>>] = NoRow
             /\ \A c \in Courses : HoldsCourse(t, v, c) => courseProgress'[<<v, c>>] = NoRow
             /\ \A c \in Courses : HoldsEnrollment(t, v, c) => <<v, c>> \notin courseEnrollment'
             /\ \A s \in Sections : HoldsSection(t, v, s) => sectionProgress'[<<v, s>>] = NoRow
  <2>1. ASSUME NEW q \in Paths, HoldsPath(t, v, q) PROVE pathProgress'[<<v, q>>] = NoRow
    <3>1. <<v, q>> # <<u, p>> BY <1>2, <2>1 DEF HoldsPath
    <3> QED BY <1>1, <1>3, <2>1, <3>1 DEF HoldsPath, TablesTypeOK
  <2>2. ASSUME NEW c \in Courses, HoldsCourse(t, v, c) PROVE courseProgress'[<<v, c>>] = NoRow
    <3>1. ~(v = u /\ PathOf[c] = p) BY <1>2, <2>2 DEF HoldsCourse, CoursesIn
    <3>2. <<v, c>> \in DOMAIN courseProgress BY <1>3 DEF TablesTypeOK
    <3> QED BY <1>1, <2>2, <3>1, <3>2 DEF HoldsCourse
  <2> QED BY <1>1, <2>1, <2>2 DEF HoldsEnrollment, HoldsSection
<1> QED BY <1>1, <1>4, <1>5, EndKeeps

\* Nor does that of enrollInCourse.
LEMMA CommitCourseKeeps ==
  ASSUME EnrollersHold, NEW e \in Enrollers, CommitCourse(e)
  PROVE  EnrollersHold' /\ OthersKeepHeld(e)
<1> DEFINE u == Learner(e)
           c == Scope(e)
<1>1. /\ step[e] = "commitCourse" /\ Unlock(e) /\ Reply(e, "enrolled")
      /\ courseEnrollment' = courseEnrollment \cup {<<u, c>>}
      /\ courseProgress' = [courseProgress EXCEPT ![<<u, c>>] = 0]
      /\ sectionProgress' = [k \in DOMAIN sectionProgress |->
           IF k[1] = u /\ CourseOf[k[2]] = c THEN 0 ELSE sectionProgress[k]]
      /\ UNCHANGED <<pathEnrollment, lessonProgress, pathProgress, lastPosition,
                     courseCertificate, pathCertificate>>
  BY DEF CommitCourse
<1>2. /\ u \in Users /\ c \in Courses /\ HoldsEnrollment(e, u, c) /\ HoldsCourse(e, u, c)
      /\ \A s \in SectionsIn(c) : HoldsSection(e, u, s)
  BY <1>1, CourseCommitHolds
<1> HIDE DEF u, c
<1>3. TablesTypeOK /\ e \in Transactions BY EnrollersAssumption DEF EnrollersHold
<1>4. TablesTypeOK'
  <2>1. courseEnrollment' \subseteq Users \X Courses BY <1>1, <1>2, <1>3 DEF TablesTypeOK
  <2>2. courseProgress' \in [Users \X Courses -> Nat \cup {NoRow}]
    BY <1>1, <1>2, <1>3 DEF TablesTypeOK
  <2>3. sectionProgress' \in [Users \X Sections -> Nat \cup {NoRow}]
    BY <1>1, <1>3 DEF TablesTypeOK
  <2>4. rowLock' \in [Rows -> Transactions \cup {Free}] BY <1>1, <1>3, UnlockKeeps
  <2> QED BY <1>1, <1>3, <2>1, <2>2, <2>3, <2>4 DEF TablesTypeOK
<1>5. ASSUME NEW t \in Transactions \ {e}, NEW v \in Users
      PROVE  /\ \A q \in Paths : HoldsPath(t, v, q) => pathProgress'[<<v, q>>] = NoRow
             /\ \A d \in Courses : HoldsCourse(t, v, d) => courseProgress'[<<v, d>>] = NoRow
             /\ \A d \in Courses : HoldsEnrollment(t, v, d) => <<v, d>> \notin courseEnrollment'
             /\ \A s \in Sections : HoldsSection(t, v, s) => sectionProgress'[<<v, s>>] = NoRow
  <2>1. ASSUME NEW d \in Courses, HoldsCourse(t, v, d) PROVE courseProgress'[<<v, d>>] = NoRow
    <3>1. <<v, d>> # <<u, c>> BY <1>2, <2>1 DEF HoldsCourse
    <3> QED BY <1>1, <1>3, <2>1, <3>1 DEF HoldsCourse, TablesTypeOK
  <2>2. ASSUME NEW d \in Courses, HoldsEnrollment(t, v, d)
        PROVE  <<v, d>> \notin courseEnrollment'
    <3>1. <<v, d>> # <<u, c>> BY <1>2, <2>2 DEF HoldsEnrollment
    <3> QED BY <1>1, <2>2, <3>1 DEF HoldsEnrollment
  <2>3. ASSUME NEW s \in Sections, HoldsSection(t, v, s)
        PROVE  sectionProgress'[<<v, s>>] = NoRow
    <3>1. ~(v = u /\ CourseOf[s] = c) BY <1>2, <2>3 DEF HoldsSection, SectionsIn
    <3>2. <<v, s>> \in DOMAIN sectionProgress BY <1>3 DEF TablesTypeOK
    <3> QED BY <1>1, <2>3, <3>1, <3>2 DEF HoldsSection
  <2> QED BY <1>1, <2>1, <2>2, <2>3 DEF HoldsPath
<1> QED BY <1>1, <1>4, <1>5, EndKeeps

EnrollCommits(e) == CommitPath(e) \/ CommitCourse(e)

\* Whatever an enrollment does, the invariant is kept, and it publishes rows by
\* a commit only.
LEMMA EnrollersKeep ==
  ASSUME EnrollersHold, NEW e \in Enrollers, Submit(e) \/ EnrollStep(e) \/ AbortEnroll(e)
  PROVE  EnrollersHold' /\ OthersKeepHeld(e) /\ (Quiet(e) \/ EnrollCommits(e))
<1>1. CASE Submit(e) BY <1>1, SubmitKeeps DEF Quiet
<1>2. CASE FindEnrollment(e) \/ FindCourse(e) BY <1>2, FindsKeep DEF Quiet
<1>3. CASE CreatePathProgress(e) BY <1>3, CreatePathProgressKeeps DEF Quiet
<1>4. CASE CreateCourseRow(e) BY <1>4, CreateCourseRowKeeps DEF Quiet
<1>5. CASE CreateCourseEnrollment(e) BY <1>5, CreateCourseEnrollmentKeeps DEF Quiet
<1>6. CASE CreateCourseProgress(e) BY <1>6, CreateCourseProgressKeeps DEF Quiet
<1>7. CASE CreateSectionRow(e) BY <1>7, CreateSectionRowKeeps DEF Quiet
<1>8. CASE CommitPath(e) BY <1>8, CommitPathKeeps DEF EnrollCommits
<1>9. CASE CommitCourse(e) BY <1>9, CommitCourseKeeps DEF EnrollCommits
<1>10. CASE AbortEnroll(e)
  <2>1. Throw(e, "aborted") BY <1>10 DEF AbortEnroll
  <2> QED BY <2>1, ThrowIsQuiet, IdleKeeps DEF Quiet
<1> QED
  BY <1>1, <1>2, <1>3, <1>4, <1>5, <1>6, <1>7, <1>8, <1>9, <1>10 DEF EnrollStep
-----------------------------------------------------------------------------
(* Enrollment alone *)

\* The invariant of the enrollments holds at first.
LEMMA SeedingInit == EnrollInit => EnrollInvariant
<1> SUFFICES ASSUME EnrollInit PROVE EnrollInvariant OBVIOUS
<1> USE DEF EnrollInit, NobodyEnrolled, EnrollersIdle, NothingCompleted
<1>1. TablesTypeOK BY DEF TablesTypeOK
<1>2. \A e \in Enrollers : EnrollerTypes(e) /\ Inserted(e)
  BY DEF EnrollerTypes, Inserted, AboutPath, AboutCourse, PathSteps, CourseSteps
<1>3. EnrollersHold BY <1>1, <1>2 DEF EnrollersHold
<1>4. OneEnrollmentPerPath BY DEF OneEnrollmentPerPath
<1>5. EnrolledIffSeeded BY DEF EnrolledIffSeeded, CoursesIn
<1>6. SectionsSeeded BY DEF SectionsSeeded
<1> QED BY <1>3, <1>4, <1>5, <1>6 DEF EnrollInvariant

\* The commit of enrollInPath enrolls once and seeds all.
LEMMA CommitPathSeeds ==
  ASSUME EnrollInvariant, NEW e \in Enrollers, CommitPath(e)
  PROVE  OneEnrollmentPerPath' /\ EnrolledIffSeeded' /\ SectionsSeeded'
<1> DEFINE u == Learner(e)
           p == Scope(e)
<1>1. /\ step[e] = "commitPath"
      /\ pathEnrollment' = [pathEnrollment EXCEPT ![<<u, p>>] = @ + 1]
      /\ pathProgress' = [pathProgress EXCEPT ![<<u, p>>] = 0]
      /\ courseProgress' = [k \in DOMAIN courseProgress |->
           IF k[1] = u /\ PathOf[k[2]] = p THEN 0 ELSE courseProgress[k]]
      /\ UNCHANGED <<courseEnrollment, sectionProgress>>
  BY DEF CommitPath
<1>2. /\ EnrollersHold /\ OneEnrollmentPerPath /\ EnrolledIffSeeded /\ SectionsSeeded
      /\ TablesTypeOK
  BY DEF EnrollInvariant, EnrollersHold
<1>3. u \in Users /\ p \in Paths /\ HoldsPath(e, u, p) BY <1>1, <1>2, PathCommitHolds
<1> HIDE DEF u, p
<1>4. pathEnrollment[<<u, p>>] = 0
  <2>1. pathProgress[<<u, p>>] = NoRow BY <1>3 DEF HoldsPath
  <2>2. ~(pathEnrollment[<<u, p>>] > 0) BY <1>2, <1>3, <2>1 DEF EnrolledIffSeeded
  <2>3. pathEnrollment[<<u, p>>] \in Nat BY <1>2, <1>3 DEF TablesTypeOK
  <2> QED BY <2>2, <2>3
<1>5. \A v \in Users, q \in Paths :
        pathEnrollment'[<<v, q>>] = IF v = u /\ q = p THEN 1 ELSE pathEnrollment[<<v, q>>]
  BY <1>1, <1>2, <1>3, <1>4 DEF TablesTypeOK
<1>6. \A v \in Users, q \in Paths :
        pathProgress'[<<v, q>>] = IF v = u /\ q = p THEN 0 ELSE pathProgress[<<v, q>>]
  BY <1>1, <1>2 DEF TablesTypeOK
<1>7. \A v \in Users, c \in Courses : courseProgress'[<<v, c>>] =
        IF v = u /\ PathOf[c] = p THEN 0 ELSE courseProgress[<<v, c>>]
  BY <1>1, <1>2 DEF TablesTypeOK
<1>8. OneEnrollmentPerPath'
  <2> SUFFICES ASSUME NEW v \in Users, NEW q \in Paths PROVE pathEnrollment'[<<v, q>>] <= 1
    BY DEF OneEnrollmentPerPath
  <2>1. pathEnrollment[<<v, q>>] <= 1 BY <1>2 DEF OneEnrollmentPerPath
  <2> QED BY <1>5, <2>1
<1>9. EnrolledIffSeeded'
  <2> SUFFICES ASSUME NEW v \in Users
      PROVE /\ \A q \in Paths :
                 /\ pathEnrollment'[<<v, q>>] > 0 <=> pathProgress'[<<v, q>>] # NoRow
                 /\ \A c \in CoursesIn(q) :
                      pathEnrollment'[<<v, q>>] > 0 <=> courseProgress'[<<v, c>>] # NoRow
            /\ \A c \in {d \in Courses : PathOf[d] = NoPath} :
                 /\ <<v, c>> \in courseEnrollment' <=> courseProgress'[<<v, c>>] # NoRow
                 /\ <<v, c>> \in courseEnrollment' =>
                      \A s \in SectionsIn(c) : sectionProgress'[<<v, s>>] # NoRow
    BY DEF EnrolledIffSeeded
  <2>0. 0 # NoRow /\ NoPath # p BY <1>3, SentinelAssumption, ContentAssumption
  <2>1. ASSUME NEW q \in Paths
        PROVE pathEnrollment'[<<v, q>>] > 0 <=> pathProgress'[<<v, q>>] # NoRow
    <3>1. pathEnrollment[<<v, q>>] > 0 <=> pathProgress[<<v, q>>] # NoRow
      BY <1>2 DEF EnrolledIffSeeded
    <3> QED BY <1>5, <1>6, <2>0, <3>1
  <2>2. ASSUME NEW q \in Paths, NEW c \in CoursesIn(q)
        PROVE pathEnrollment'[<<v, q>>] > 0 <=> courseProgress'[<<v, c>>] # NoRow
    <3>1. pathEnrollment[<<v, q>>] > 0 <=> courseProgress[<<v, c>>] # NoRow
      BY <1>2 DEF EnrolledIffSeeded
    <3>2. c \in Courses /\ PathOf[c] = q BY DEF CoursesIn
    <3> QED BY <1>5, <1>7, <2>0, <3>1, <3>2
  <2>3. ASSUME NEW c \in {d \in Courses : PathOf[d] = NoPath}
        PROVE /\ <<v, c>> \in courseEnrollment' <=> courseProgress'[<<v, c>>] # NoRow
              /\ <<v, c>> \in courseEnrollment' =>
                   \A s \in SectionsIn(c) : sectionProgress'[<<v, s>>] # NoRow
    BY <1>1, <1>2, <1>7, <2>0 DEF EnrolledIffSeeded
  <2> QED BY <2>1, <2>2, <2>3
<1>10. SectionsSeeded' BY <1>1, <1>2 DEF SectionsSeeded
<1> QED BY <1>8, <1>9, <1>10

\* So does that of enrollInCourse.
LEMMA CommitCourseSeeds ==
  ASSUME EnrollInvariant, NEW e \in Enrollers, CommitCourse(e)
  PROVE  OneEnrollmentPerPath' /\ EnrolledIffSeeded' /\ SectionsSeeded'
<1> DEFINE u == Learner(e)
           c == Scope(e)
<1>1. /\ step[e] = "commitCourse"
      /\ courseEnrollment' = courseEnrollment \cup {<<u, c>>}
      /\ courseProgress' = [courseProgress EXCEPT ![<<u, c>>] = 0]
      /\ sectionProgress' = [k \in DOMAIN sectionProgress |->
           IF k[1] = u /\ CourseOf[k[2]] = c THEN 0 ELSE sectionProgress[k]]
      /\ UNCHANGED <<pathEnrollment, pathProgress>>
  BY DEF CommitCourse
<1>2. /\ EnrollersHold /\ OneEnrollmentPerPath /\ EnrolledIffSeeded /\ SectionsSeeded
      /\ TablesTypeOK
  BY DEF EnrollInvariant, EnrollersHold
<1>3. u \in Users /\ c \in Courses /\ PathOf[c] = NoPath BY <1>1, <1>2, CourseCommitHolds
<1> HIDE DEF u, c
<1>4. \A v \in Users, d \in Courses : courseProgress'[<<v, d>>] =
        IF v = u /\ d = c THEN 0 ELSE courseProgress[<<v, d>>]
  BY <1>1, <1>2 DEF TablesTypeOK
<1>5. \A v \in Users, s \in Sections : sectionProgress'[<<v, s>>] =
        IF v = u /\ CourseOf[s] = c THEN 0 ELSE sectionProgress[<<v, s>>]
  BY <1>1, <1>2 DEF TablesTypeOK
<1>6. \A v, d : <<v, d>> \in courseEnrollment' <=>
        <<v, d>> \in courseEnrollment \/ (v = u /\ d = c)
  BY <1>1
<1>7. OneEnrollmentPerPath' BY <1>1, <1>2 DEF OneEnrollmentPerPath
<1>8. EnrolledIffSeeded'
  <2> SUFFICES ASSUME NEW v \in Users
      PROVE /\ \A q \in Paths :
                 /\ pathEnrollment'[<<v, q>>] > 0 <=> pathProgress'[<<v, q>>] # NoRow
                 /\ \A d \in CoursesIn(q) :
                      pathEnrollment'[<<v, q>>] > 0 <=> courseProgress'[<<v, d>>] # NoRow
            /\ \A d \in {x \in Courses : PathOf[x] = NoPath} :
                 /\ <<v, d>> \in courseEnrollment' <=> courseProgress'[<<v, d>>] # NoRow
                 /\ <<v, d>> \in courseEnrollment' =>
                      \A s \in SectionsIn(d) : sectionProgress'[<<v, s>>] # NoRow
    BY DEF EnrolledIffSeeded
  <2>0. 0 # NoRow BY SentinelAssumption
  <2>1. ASSUME NEW q \in Paths
        PROVE pathEnrollment'[<<v, q>>] > 0 <=> pathProgress'[<<v, q>>] # NoRow
    BY <1>1, <1>2 DEF EnrolledIffSeeded
  <2>2. ASSUME NEW q \in Paths, NEW d \in CoursesIn(q)
        PROVE pathEnrollment'[<<v, q>>] > 0 <=> courseProgress'[<<v, d>>] # NoRow
    <3>1. d \in Courses /\ d # c BY <1>3, ContentAssumption DEF CoursesIn
    <3>2. pathEnrollment[<<v, q>>] > 0 <=> courseProgress[<<v, d>>] # NoRow
      BY <1>2 DEF EnrolledIffSeeded
    <3> QED BY <1>1, <1>4, <3>1, <3>2
  <2>3. ASSUME NEW d \in {x \in Courses : PathOf[x] = NoPath}
        PROVE /\ <<v, d>> \in courseEnrollment' <=> courseProgress'[<<v, d>>] # NoRow
              /\ <<v, d>> \in courseEnrollment' =>
                   \A s \in SectionsIn(d) : sectionProgress'[<<v, s>>] # NoRow
    <3>1. /\ <<v, d>> \in courseEnrollment <=> courseProgress[<<v, d>>] # NoRow
          /\ <<v, d>> \in courseEnrollment =>
               \A s \in SectionsIn(d) : sectionProgress[<<v, s>>] # NoRow
      BY <1>2 DEF EnrolledIffSeeded
    <3>2. \A s \in SectionsIn(d) : s \in Sections /\ CourseOf[s] = d BY DEF SectionsIn
    <3> QED BY <1>4, <1>5, <1>6, <2>0, <3>1, <3>2
  <2> QED BY <2>1, <2>2, <2>3
<1>9. SectionsSeeded'
  <2> SUFFICES ASSUME NEW v \in Users, NEW s \in Sections, PathOf[CourseOf[s]] = NoPath,
                      sectionProgress'[<<v, s>>] # NoRow
               PROVE  <<v, CourseOf[s]>> \in courseEnrollment'
    BY DEF SectionsSeeded
  <2>1. CASE v = u /\ CourseOf[s] = c BY <1>6, <2>1
  <2>2. CASE ~(v = u /\ CourseOf[s] = c)
    <3>1. sectionProgress[<<v, s>>] # NoRow BY <1>5, <2>2
    <3> QED BY <1>2, <1>6, <3>1 DEF SectionsSeeded
  <2> QED BY <2>1, <2>2
<1> QED BY <1>7, <1>8, <1>9

\* Every step of an enrollment keeps the invariant.
LEMMA SeedingNext == EnrollInvariant /\ [EnrollNext]_evars => EnrollInvariant'
<1> SUFFICES ASSUME EnrollInvariant, [EnrollNext]_evars PROVE EnrollInvariant' OBVIOUS
<1>1. EnrollersHold BY DEF EnrollInvariant
<1>2. ASSUME UNCHANGED <<enrollmentTables, progressTables>>
      PROVE  OneEnrollmentPerPath' /\ EnrolledIffSeeded' /\ SectionsSeeded'
  BY <1>2 DEF EnrollInvariant, OneEnrollmentPerPath, EnrolledIffSeeded, SectionsSeeded,
    enrollmentTables, progressTables
<1>3. ASSUME NEW e \in Enrollers, Submit(e) \/ EnrollStep(e) \/ AbortEnroll(e)
      PROVE  EnrollInvariant'
  <2>1. EnrollersHold' /\ (Quiet(e) \/ EnrollCommits(e)) BY <1>1, <1>3, EnrollersKeep
  <2>2. CASE Quiet(e) BY <1>2, <2>1, <2>2 DEF Quiet, EnrollInvariant
  <2>3. CASE CommitPath(e) BY <2>1, <2>3, CommitPathSeeds DEF EnrollInvariant
  <2>4. CASE CommitCourse(e) BY <2>1, <2>4, CommitCourseSeeds DEF EnrollInvariant
  <2> QED BY <2>1, <2>2, <2>3, <2>4 DEF EnrollCommits
<1>4. CASE UNCHANGED evars
  <2>1. /\ UNCHANGED tables /\ UNCHANGED <<step, target, todo, answer>>
        /\ UNCHANGED <<enrollmentTables, progressTables, rowLock>>
    BY <1>4 DEF evars, enrollVars, tables
  <2>2. TablesTypeOK'
    BY <1>1, <2>1 DEF EnrollersHold, TablesTypeOK, enrollmentTables, progressTables
  <2>3. ASSUME NEW e \in Enrollers PROVE EnrollerTypes(e)'
    BY <1>1, <2>1 DEF EnrollersHold, EnrollerTypes, Learner, Scope
  <2>4. ASSUME NEW e \in Enrollers PROVE Inserted(e)'
    BY <1>1, <2>1 DEF EnrollersHold, Inserted, Learner, Scope, HoldsPath, HoldsCourse,
      HoldsSection, HoldsEnrollment, enrollmentTables, progressTables
  <2>5. EnrollersHold' BY <1>1, <2>1, <2>2, <2>3, <2>4 DEF EnrollersHold
  <2> QED BY <1>2, <2>1, <2>5 DEF EnrollInvariant
<1> QED BY <1>3, <1>4 DEF EnrollNext

\* The invariant of the enrollments holds throughout.
THEOREM EnrollmentInvariant == EnrollSpec => []EnrollInvariant
BY SeedingInit, SeedingNext, PTL DEF EnrollSpec

\* A learner has at most one enrollment in a path, although path_enrollments
\* has no unique index and enrollInPath decides on a findFirst that may be old.
THEOREM OneEnrollmentHolds == EnrollSpec => []OneEnrollmentPerPath
<1>1. EnrollInvariant => OneEnrollmentPerPath BY DEF EnrollInvariant
<1> QED BY <1>1, EnrollmentInvariant, PTL

\* Enrollments and the progress rows they seed come and go together, whichever
\* statements of two enrollments interleave and whichever of them die.
THEOREM SeededTogether == EnrollSpec => []EnrolledIffSeeded
<1>1. EnrollInvariant => EnrolledIffSeeded BY DEF EnrollInvariant
<1> QED BY <1>1, EnrollmentInvariant, PTL

\* The scope of the request has its learner.
LearnerEnrolled(e) ==
  IF Scope(e) \in Paths THEN pathEnrollment[<<Learner(e), Scope(e)>>] > 0
                        ELSE <<Learner(e), Scope(e)>> \in courseEnrollment

\* A request that meets a row in its way is refused for good reason: the row
\* was committed by an enrollment.
LEMMA RefusalIsTrue ==
  ASSUME EnrollInvariant, NEW e \in Enrollers, EnrollStep(e),
         answer'[e] \in {"conflict", "uniqueViolation"}, answer[e] = "none"
  PROVE  LearnerEnrolled(e)
<1> DEFINE u == Learner(e)
           k == Scope(e)
<1>1. /\ EnrollersHold /\ EnrolledIffSeeded /\ SectionsSeeded
      /\ EnrollerTypes(e)
  BY DEF EnrollInvariant, EnrollersHold
<1>2. ASSUME NEW row \in Rows, NEW taken \in BOOLEAN, NEW next, NEW left, NEW error,
             Insert(e, row, taken, next, left, error)
      PROVE  taken
  BY <1>1, <1>2, InsertIsQuiet DEF GoesOn
<1>3. step[e] \in AboutCourse => k \notin Paths
  BY <1>1, DisjointScopes DEF EnrollerTypes
<1>4. ASSUME courseProgress[<<u, k>>] # NoRow, step[e] \in AboutCourse \ {"findCourse"}
      PROVE  LearnerEnrolled(e)
  <2>1. u \in Users /\ k \in {d \in Courses : PathOf[d] = NoPath} BY <1>1, <1>4 DEF EnrollerTypes
  <2>2. <<u, k>> \in courseEnrollment BY <1>1, <1>4, <2>1 DEF EnrolledIffSeeded
  <2> QED BY <1>3, <1>4, <2>2 DEF LearnerEnrolled
<1>5. CASE FindEnrollment(e)
  <2>1. step[e] \in AboutPath BY <1>5 DEF FindEnrollment, AboutPath
  <2>2. k \in Paths BY <1>1, <2>1 DEF EnrollerTypes
  <2>3. pathEnrollment[<<u, k>>] > 0
    <3>1. Continue(e, "createPathProgress", {}) => answer' = answer BY DEF Continue
    <3> QED BY <1>5, <3>1 DEF FindEnrollment
  <2> QED BY <2>2, <2>3 DEF LearnerEnrolled
<1>6. CASE CreatePathProgress(e)
  <2>1. step[e] \in AboutPath BY <1>6 DEF CreatePathProgress, AboutPath, PathSteps
  <2>2. u \in Users /\ k \in Paths BY <1>1, <2>1 DEF EnrollerTypes
  <2>3. <<"path_progress", u, k>> \in Rows BY <2>2, EnrollRows
  <2>4. pathProgress[<<u, k>>] # NoRow BY <1>2, <1>6, <2>3 DEF CreatePathProgress
  <2> QED BY <1>1, <2>2, <2>4 DEF EnrolledIffSeeded, LearnerEnrolled
<1>7. CASE CreateCourseRow(e)
  <2>1. step[e] \in AboutPath /\ step[e] = "createCourseRows"
    BY <1>7 DEF CreateCourseRow, AboutPath, PathSteps
  <2>2. u \in Users /\ k \in Paths /\ todo[e] \subseteq CoursesIn(k)
    BY <1>1, <2>1 DEF EnrollerTypes
  <2>3. \A c \in todo[e] : c \in CoursesIn(k) /\ <<"course_progress", u, c>> \in Rows
    BY <2>2, EnrollRows DEF CoursesIn
  <2>4. PICK c \in todo[e] : courseProgress[<<u, c>>] # NoRow
    BY <1>2, <1>7, <2>3 DEF CreateCourseRow
  <2> QED BY <1>1, <2>2, <2>3, <2>4 DEF EnrolledIffSeeded, LearnerEnrolled
<1>8. CASE FindCourse(e)
  <2>1. Throw(e, "belongsToPath") \/ answer' = answer BY <1>8 DEF FindCourse, Continue
  <2> QED BY <1>1, <2>1, ThrowIsQuiet
<1>9. CASE CreateCourseEnrollment(e)
  <2>1. step[e] \in AboutCourse BY <1>9 DEF CreateCourseEnrollment, AboutCourse
  <2>2. <<"course_enrollments", u, k>> \in Rows BY <1>1, <2>1, EnrollRows DEF EnrollerTypes
  <2> DEFINE taken == <<u, k>> \in courseEnrollment
  <2>3. taken \in BOOLEAN
        /\ Insert(e, <<"course_enrollments", u, k>>, taken, "createCourseProgress", {}, "conflict")
    BY <1>9 DEF CreateCourseEnrollment
  <2> HIDE DEF taken
  <2>4. taken BY <1>2, <2>2, <2>3
  <2> QED BY <1>3, <2>1, <2>4 DEF LearnerEnrolled, taken
<1>10. CASE CreateCourseProgress(e)
  <2>1. step[e] \in AboutCourse \ {"findCourse"}
    BY <1>10 DEF CreateCourseProgress, AboutCourse, CourseSteps
  <2>2. <<"course_progress", u, k>> \in Rows BY <1>1, <2>1, EnrollRows DEF EnrollerTypes
  <2>3. courseProgress[<<u, k>>] # NoRow BY <1>2, <1>10, <2>2 DEF CreateCourseProgress
  <2> QED BY <1>4, <2>1, <2>3
<1>11. CASE CreateSectionRow(e)
  <2>1. step[e] \in AboutCourse \ {"findCourse"} /\ step[e] = "createSectionRows"
    BY <1>11 DEF CreateSectionRow, AboutCourse, CourseSteps
  <2>2. u \in Users /\ PathOf[k] = NoPath /\ todo[e] \subseteq SectionsIn(k)
    BY <1>1, <2>1 DEF EnrollerTypes
  <2>3. \A s \in todo[e] :
          s \in Sections /\ CourseOf[s] = k /\ <<"section_progress", u, s>> \in Rows
    BY <2>2, EnrollRows DEF SectionsIn
  <2>4. PICK s \in todo[e] : sectionProgress[<<u, s>>] # NoRow
    BY <1>2, <1>11, <2>3 DEF CreateSectionRow
  <2>5. <<u, k>> \in courseEnrollment BY <1>1, <2>2, <2>3, <2>4 DEF SectionsSeeded
  <2> QED BY <1>3, <2>1, <2>5 DEF LearnerEnrolled
<1>12. CASE CommitPath(e) \/ CommitCourse(e)
  <2>1. answer' = [answer EXCEPT ![e] = "enrolled"] BY <1>12 DEF CommitPath, CommitCourse, Reply
  <2> QED BY <1>1, <2>1 DEF EnrollersHold
<1> QED
  BY <1>5, <1>6, <1>7, <1>8, <1>9, <1>10, <1>11, <1>12 DEF EnrollStep

\* Whichever request moves, whoever is refused is enrolled.
LEMMA RefusalsNext ==
  ASSUME EnrollInvariant, [EnrollNext]_evars, NEW e \in Enrollers,
         answer'[e] \in {"conflict", "uniqueViolation"}, answer[e] = "none"
  PROVE  LearnerEnrolled(e)
<1>0. /\ EnrollInvariant /\ [EnrollNext]_evars
      /\ answer'[e] \in {"conflict", "uniqueViolation"} /\ answer[e] = "none"
  OBVIOUS
<1>1. EnrollersHold BY <1>0 DEF EnrollInvariant
<1>2. ASSUME NEW f \in Enrollers, Submit(f) \/ EnrollStep(f) \/ AbortEnroll(f)
      PROVE  LearnerEnrolled(e)
  <2>1. CASE f # e
    <3>1. answer'[e] = answer[e]
      BY <1>1, <1>2, <2>1 DEF EnrollersHold, Submit, SubmitPath, SubmitCourse, EnrollStep,
        AbortEnroll, FindEnrollment, FindCourse, CreatePathProgress, CreateCourseRow,
        CreateCourseEnrollment, CreateCourseProgress, CreateSectionRow, CommitPath,
        CommitCourse, Insert, Throw, Continue, Reply
    <3> QED BY <1>0, <3>1
  <2>2. CASE f = e /\ EnrollStep(e) BY <1>0, <2>2, RefusalIsTrue
  <2>3. CASE f = e /\ Submit(e)
    <3>1. answer' = [answer EXCEPT ![e] = "none"]
      BY <2>3 DEF Submit, SubmitPath, SubmitCourse
    <3> QED BY <1>0, <1>1, <3>1 DEF EnrollersHold
  <2>4. CASE f = e /\ AbortEnroll(e)
    <3>1. answer'[e] = "aborted" BY <1>1, <2>4, ThrowIsQuiet DEF AbortEnroll
    <3> QED BY <1>0, <3>1
  <2> QED BY <1>2, <2>1, <2>2, <2>3, <2>4
<1>3. CASE UNCHANGED evars BY <1>0, <1>3 DEF evars, enrollVars
<1> QED BY <1>0, <1>2, <1>3 DEF EnrollNext

\* A learner is told that they are enrolled already only when they are, and
\* never because of a request that then rolled back.
THEOREM RefusalsAreTrue == EnrollSpec => RefusedOnlyWhenEnrolled
<1>1. EnrollInvariant /\ [EnrollNext]_evars =>
        [\A e \in Enrollers :
           answer'[e] \in {"conflict", "uniqueViolation"} /\ answer[e] = "none" =>
             IF Scope(e) \in Paths
             THEN pathEnrollment[<<Learner(e), Scope(e)>>] > 0
             ELSE <<Learner(e), Scope(e)>> \in courseEnrollment]_evars
  BY RefusalsNext DEF LearnerEnrolled
<1> QED BY <1>1, EnrollmentInvariant, PTL DEF EnrollSpec, RefusedOnlyWhenEnrolled
-----------------------------------------------------------------------------
(* Learners who enroll while their lessons are being completed *)

\* EnrollmentGuard has let the request through.
Through(r) == pc[r] \notin {"idle", "guard"} => HasAccessToCourse(U(r), C(r))

\* A cascade holds the progress rows it has written.
HoldsWrites(r) ==
  /\ pc[r] = "idle" => own[r] = NoWrites
  /\ own[r].section # NoRow => rowLock[<<"section_progress", U(r), S(r)>>] = r
  /\ own[r].course # NoRow => rowLock[<<"course_progress", U(r), C(r)>>] = r
  /\ own[r].path # NoRow => InPath(r) /\ rowLock[<<"path_progress", U(r), P(r)>>] = r

LearnInvariant ==
  /\ TypeInv
  /\ EnrollersHold
  /\ CompletedOnlyWhenEnrolled
  /\ \A r \in Requests : Through(r) /\ HoldsWrites(r)

\* The rows of a cascade that are not idle are rows of the lock table.
LEMMA CascadeRows ==
  ASSUME TypeInv, NEW r \in Requests, pc[r] # "idle"
  PROVE  /\ <<"lesson_progress", U(r), L(r)>> \in Rows
         /\ <<"section_progress", U(r), S(r)>> \in Rows
         /\ <<"course_progress", U(r), C(r)>> \in Rows
         /\ InPath(r) => <<"path_progress", U(r), P(r)>> \in Rows
         /\ <<"course_certificate", U(r), C(r)>> \in Rows
         /\ InPath(r) => <<"path_certificate", U(r), P(r)>> \in Rows
BY RequestRows DEF Rows, TypeInv

\* The cascades that do not move keep their part of the invariant, as long as
\* their locks and the enrollments stay.
LEMMA WaitingCascadeKept ==
  ASSUME TypeInv, NEW t, OthersKeepLocks(t), NEW q \in Requests, q # t,
         Through(q), HoldsWrites(q),
         pc'[q] = pc[q], arg'[q] = arg[q], own'[q] = own[q],
         \A u \in Users, c \in Courses : HasAccessToCourse(u, c) => HasAccessToCourse(u, c)'
  PROVE  Through(q)' /\ HoldsWrites(q)'
<1>1. /\ U(q)' = U(q) /\ L(q)' = L(q) /\ S(q)' = S(q) /\ C(q)' = C(q) /\ P(q)' = P(q)
      /\ InPath(q)' = InPath(q)
  BY DEF U, L, S, C, P, InPath
<1>2. CASE pc[q] = "idle" BY <1>2 DEF Through, HoldsWrites, NoWrites
<1>3. CASE pc[q] # "idle"
  <2>1. /\ U(q) \in Users /\ C(q) \in Courses
        /\ <<"section_progress", U(q), S(q)>> \in Rows
        /\ <<"course_progress", U(q), C(q)>> \in Rows
        /\ InPath(q) => <<"path_progress", U(q), P(q)>> \in Rows
    BY <1>3, RequestRows, CascadeRows DEF TypeInv
  <2>2. q \in Transactions \ {t} BY RequestsAssumption
  <2>3. Through(q)' BY <1>1, <2>1 DEF Through, HasAccessToCourse
  <2>4. HoldsWrites(q)' BY <1>1, <1>3, <2>1, <2>2 DEF HoldsWrites, OthersKeepLocks
  <2> QED BY <2>3, <2>4
<1> QED BY <1>2, <1>3

\* A statement of a cascade other than its commit: nothing is published.
CascadeQuiet(r) ==
  /\ UNCHANGED <<enrollmentTables, progressTables>> /\ OthersKeepLocks(r)
  /\ \A q \in Requests \ {r} : pc'[q] = pc[q] /\ arg'[q] = arg[q] /\ own'[q] = own[q]
  /\ Through(r)' /\ HoldsWrites(r)'

\* A statement of a cascade that reads.
LEMMA ReadIsQuiet ==
  ASSUME TypeInv, NEW r \in Requests, Through(r), HoldsWrites(r),
         pc[r] \notin {"idle", "guard"},
         NEW next, next # "idle", NEW locals, ReadsInto(r, next, locals)
  PROVE  CascadeQuiet(r)
<1>1. /\ pc'[r] = next /\ arg'[r] = arg[r] /\ own'[r] = own[r]
      /\ UNCHANGED <<rowLock, pathEnrollment>> /\ UNCHANGED tables /\ OnlyMoves(r)
  BY ReadsOnlyMoves DEF ReadsInto
<1>2. OthersKeepLocks(r) BY <1>1 DEF OthersKeepLocks
<1>3. UNCHANGED <<enrollmentTables, progressTables>> BY <1>1 DEF tables
<1>4. Through(r)'
  BY <1>1, <1>3 DEF Through, HasAccessToCourse, U, L, S, C, enrollmentTables
<1>5. HoldsWrites(r)' BY <1>1 DEF HoldsWrites, U, L, S, C, P, InPath
<1> QED BY <1>1, <1>2, <1>3, <1>4, <1>5 DEF CascadeQuiet, OnlyMoves

\* A statement that writes a row: of the progress rows it notes, it holds the
\* one it has just taken.
LEMMA WriteIsQuiet ==
  ASSUME TypeInv, NEW r \in Requests, Through(r), HoldsWrites(r),
         pc[r] \notin {"idle", "guard"},
         NEW row, NEW next, next # "idle", NEW writes, TakesRow(r, row, next, writes),
         writes.section # own[r].section => row = <<"section_progress", U(r), S(r)>>,
         writes.course # own[r].course => row = <<"course_progress", U(r), C(r)>>,
         writes.path # own[r].path => InPath(r) /\ row = <<"path_progress", U(r), P(r)>>
  PROVE  CascadeQuiet(r)
<1>1. /\ OnlyMoves(r) /\ pc'[r] = next /\ arg'[r] = arg[r] /\ own'[r] = writes
      /\ KeepsLocks(r) /\ Holds(r, row)'
  BY WritesOnlyMove
<1>2. OthersKeepLocks(r)
  BY LockKeeps, RequestsAssumption DEF TakesRow, TypeInv, TypeOK
<1>3. UNCHANGED <<enrollmentTables, progressTables>> BY DEF TakesRow
<1>4. /\ U(r)' = U(r) /\ L(r)' = L(r) /\ S(r)' = S(r) /\ C(r)' = C(r) /\ P(r)' = P(r)
      /\ InPath(r)' = InPath(r)
  BY <1>1 DEF U, L, S, C, P, InPath
<1>5. Through(r)'
  BY <1>1, <1>3, <1>4 DEF Through, HasAccessToCourse, enrollmentTables
<1>6. row \in Rows => rowLock'[row] = r BY <1>1 DEF Holds
<1>7. HoldsWrites(r)'
  BY <1>1, <1>4, <1>6, CascadeRows DEF HoldsWrites, KeepsLocks
<1> QED BY <1>1, <1>2, <1>3, <1>5, <1>7 DEF CascadeQuiet, OnlyMoves

\* A cascade that ends without committing.
LEMMA FinishIsQuiet ==
  ASSUME TypeInv, NEW r \in Requests, Finish(r, {}),
         UNCHANGED <<enrollmentTables, progressTables>>, UNCHANGED rowLock \/ Unlock(r)
  PROVE  CascadeQuiet(r)
<1>1. OnlyMoves(r) BY FinishOnlyMoves
<1>2. OthersKeepLocks(r)
  BY UnlockKeeps, RequestsAssumption DEF TypeInv, TypeOK, OthersKeepLocks
<1>3. pc'[r] = "idle" /\ own'[r] = NoWrites BY DEF Finish, Goto, TypeInv, TypeOK
<1>4. Through(r)' /\ HoldsWrites(r)' BY <1>3 DEF Through, HoldsWrites, NoWrites
<1> QED BY <1>1, <1>2, <1>4 DEF CascadeQuiet, OnlyMoves

\* Receiving a request, the guard, the fast path.
LEMMA ArrivalIsQuiet ==
  ASSUME TypeInv, NEW r \in Requests, Through(r), HoldsWrites(r),
         Client(r) \/ EnrollmentGuard(r) \/ FastPath(r)
  PROVE  CascadeQuiet(r)
<1> USE DEF TypeInv, TypeOK
<1>1. CASE Client(r)
  <2>1. /\ pc[r] = "idle" /\ pc' = [pc EXCEPT ![r] = "guard"] /\ UNCHANGED <<tables, own>>
        /\ \A q \in Requests \ {r} : arg'[q] = arg[q]
    BY <1>1 DEF Client, Receive, Goto
  <2>2. Through(r)' BY <2>1 DEF Through
  <2>3. own'[r] = NoWrites BY <2>1 DEF HoldsWrites
  <2>4. HoldsWrites(r)' BY <2>3 DEF HoldsWrites, NoWrites
  <2>5. OthersKeepLocks(r) BY <2>1 DEF OthersKeepLocks, tables
  <2> QED BY <2>1, <2>2, <2>4, <2>5 DEF CascadeQuiet, tables
<1>2. ASSUME pc[r] \in {"guard", "fastPath"}, NEW next, next # "idle", Goto(r, next),
             UNCHANGED <<arg, own>>, UNCHANGED tables,
             HasAccessToCourse(U(r), C(r))
      PROVE  CascadeQuiet(r)
  <2>1. /\ U(r)' = U(r) /\ S(r)' = S(r) /\ C(r)' = C(r) /\ P(r)' = P(r)
        /\ InPath(r)' = InPath(r)
    BY <1>2 DEF U, L, S, C, P, InPath
  <2>2. Through(r)' BY <1>2, <2>1 DEF Through, HasAccessToCourse, tables, enrollmentTables
  <2>3. HoldsWrites(r)' BY <1>2, <2>1 DEF HoldsWrites, Goto, tables
  <2>4. OthersKeepLocks(r) BY <1>2 DEF OthersKeepLocks, tables
  <2> QED BY <1>2, <2>2, <2>3, <2>4 DEF CascadeQuiet, Goto, tables
<1>3. CASE EnrollmentGuard(r)
  <2>1. CASE HasAccessToCourse(U(r), C(r))
    BY <1>2, <1>3, <2>1 DEF EnrollmentGuard
  <2>2. CASE ~HasAccessToCourse(U(r), C(r))
    BY <1>3, <2>2, FinishIsQuiet DEF EnrollmentGuard, tables
  <2> QED BY <2>1, <2>2
<1>4. CASE FastPath(r)
  <2>1. CASE <<U(r), L(r)>> \in lessonProgress
    BY <1>4, <2>1, FinishIsQuiet DEF FastPath, tables
  <2>2. CASE <<U(r), L(r)>> \notin lessonProgress
    <3>1. HasAccessToCourse(U(r), C(r)) BY <1>4 DEF FastPath, Through
    <3> QED BY <1>2, <1>4, <2>2, <3>1 DEF FastPath
  <2> QED BY <2>1, <2>2
<1> QED BY <1>1, <1>3, <1>4

\* A cascade that is rolled back.
LEMMA RollbackIsQuiet ==
  ASSUME TypeInv, NEW r \in Requests, Rollback(r)
  PROVE  CascadeQuiet(r)
BY FinishIsQuiet DEF Rollback

\* The statements that read.
LEMMA CascadeReads ==
  ASSUME TypeInv, NEW r \in Requests, Through(r), HoldsWrites(r),
         \/ CaptureCourseCert(r) \/ CapturePathCert(r)
         \/ CountLessons(r) \/ CountSections(r) \/ CountCourses(r)
         \/ FindScope(r) \/ FindPosition(r) \/ FindCourseCert(r) \/ CountCompleted(r)
         \/ FindPathCert(r) \/ FindPathEnrollment(r) \/ CountCourseCerts(r)
  PROVE  CascadeQuiet(r)
<1>1. /\ pc[r] \notin {"idle", "guard"}
      /\ \E next, locals : next # "idle" /\ ReadsInto(r, next, locals)
  <2>1. CASE CaptureCourseCert(r) BY <2>1 DEF CaptureCourseCert
  <2>2. CASE CapturePathCert(r) BY <2>2 DEF CapturePathCert
  <2>3. CASE CountLessons(r) BY <2>3 DEF CountLessons
  <2>4. CASE CountSections(r) BY <2>4 DEF CountSections
  <2>5. CASE CountCourses(r) BY <2>5 DEF CountCourses
  <2>6. CASE FindScope(r) BY <2>6 DEF FindScope
  <2>7. CASE FindPosition(r) BY <2>7 DEF FindPosition
  <2>8. CASE FindCourseCert(r) BY <2>8 DEF FindCourseCert, AfterCourseCheck
  <2>9. CASE CountCompleted(r) BY <2>9 DEF CountCompleted, AfterCourseCheck
  <2>10. CASE FindPathCert(r) BY <2>10 DEF FindPathCert
  <2>11. CASE FindPathEnrollment(r) BY <2>11 DEF FindPathEnrollment
  <2>12. CASE CountCourseCerts(r) BY <2>12 DEF CountCourseCerts
  <2> QED BY <2>1, <2>2, <2>3, <2>4, <2>5, <2>6, <2>7, <2>8, <2>9, <2>10, <2>11, <2>12
<1> QED BY <1>1, ReadIsQuiet

\* The upserts of the progress rows and the other writes.
LEMMA CascadeUpserts ==
  ASSUME TypeInv, NEW r \in Requests, Through(r), HoldsWrites(r),
         UpsertLesson(r) \/ UpsertSection(r) \/ UpsertCourse(r) \/ UpsertPath(r)
  PROVE  CascadeQuiet(r)
<1>1. pc[r] \notin {"idle", "guard"}
  BY DEF UpsertLesson, UpsertSection, UpsertCourse, UpsertPath
<1>2. own[r] \in Writes /\ PathOnly(r) BY DEF TypeInv, TypeOK
<1>3. CASE UpsertLesson(r)
  <2> DEFINE writes == [own[r] EXCEPT !.lesson = TRUE]
  <2>1. TakesRow(r, <<"lesson_progress", U(r), L(r)>>, "countLessons", writes)
    BY <1>3 DEF UpsertLesson, WritesRow, TakesRow
  <2>2. /\ writes.section = own[r].section /\ writes.course = own[r].course
        /\ writes.path = own[r].path
    BY <1>2 DEF Writes
  <2> HIDE DEF writes
  <2> QED BY <1>1, <2>1, <2>2, WriteIsQuiet, CascadeRows
<1>4. CASE UpsertSection(r)
  <2> DEFINE writes == [own[r] EXCEPT !.section = local[r].counted]
  <2>1. TakesRow(r, <<"section_progress", U(r), S(r)>>, "countSections", writes)
    BY <1>4 DEF UpsertSection, WritesRow, TakesRow
  <2>2. writes.course = own[r].course /\ writes.path = own[r].path BY <1>2 DEF Writes
  <2> HIDE DEF writes
  <2> QED BY <1>1, <2>1, <2>2, WriteIsQuiet, CascadeRows
<1>5. CASE UpsertCourse(r)
  <2> DEFINE writes == [own[r] EXCEPT !.course = local[r].counted]
             next == IF InPath(r) THEN "countCourses" ELSE "findScope"
  <2>1. TakesRow(r, <<"course_progress", U(r), C(r)>>, next, writes) /\ next # "idle"
    BY <1>5 DEF UpsertCourse, WritesRow, TakesRow
  <2>2. writes.section = own[r].section /\ writes.path = own[r].path BY <1>2 DEF Writes
  <2> HIDE DEF writes, next
  <2> QED BY <1>1, <2>1, <2>2, WriteIsQuiet, CascadeRows
<1>6. CASE UpsertPath(r)
  <2> DEFINE writes == [own[r] EXCEPT !.path = local[r].counted]
  <2>1. TakesRow(r, <<"path_progress", U(r), P(r)>>, "findScope", writes) /\ InPath(r)
    BY <1>2, <1>6 DEF UpsertPath, WritesRow, TakesRow, PathOnly, PathStatements
  <2>2. writes.section = own[r].section /\ writes.course = own[r].course BY <1>2 DEF Writes
  <2> HIDE DEF writes
  <2> QED BY <1>1, <2>1, <2>2, WriteIsQuiet, CascadeRows
<1> QED BY <1>3, <1>4, <1>5, <1>6

\* The statements that write positions and certificates.
LEMMA CascadeInserts ==
  ASSUME TypeInv, NEW r \in Requests, Through(r), HoldsWrites(r),
         UpdatePosition(r) \/ CreatePosition(r) \/ IssueCourseCert(r) \/ IssuePathCert(r)
  PROVE  CascadeQuiet(r)
<1>1. pc[r] \notin {"idle", "guard"}
  BY DEF UpdatePosition, CreatePosition, IssueCourseCert, IssuePathCert
<1>2. own[r] \in Writes BY DEF TypeInv, TypeOK
<1>3. CASE Rollback(r) BY <1>3, RollbackIsQuiet
<1>4. CASE WritePosition(r)
  <2> DEFINE writes == [own[r] EXCEPT !.position = TRUE]
  <2>1. TakesRow(r, <<"last_positions", U(r), local[r].scope>>, "findCourseCert", writes)
    BY <1>4 DEF WritePosition, WritesRow, TakesRow
  <2>2. /\ writes.section = own[r].section /\ writes.course = own[r].course
        /\ writes.path = own[r].path
    BY <1>2 DEF Writes
  <2> HIDE DEF writes
  <2> QED BY <1>1, <2>1, <2>2, WriteIsQuiet
<1>5. CASE IssueCourseCert(r) /\ ~Rollback(r)
  <2> DEFINE writes == [own[r] EXCEPT !.courseCert = TRUE]
             next == AfterCourseCheck(r)
  <2>1. TakesRow(r, <<"course_certificate", U(r), C(r)>>, next, writes)
    BY <1>5 DEF IssueCourseCert, TakesRow
  <2>2. /\ writes.section = own[r].section /\ writes.course = own[r].course
        /\ writes.path = own[r].path
    BY <1>2 DEF Writes
  <2>3. next # "idle" BY DEF AfterCourseCheck
  <2> HIDE DEF writes, next
  <2> QED BY <1>1, <2>1, <2>2, <2>3, WriteIsQuiet
<1>6. CASE IssuePathCert(r) /\ ~Rollback(r)
  <2> DEFINE writes == [own[r] EXCEPT !.pathCert = TRUE]
  <2>1. TakesRow(r, <<"path_certificate", U(r), P(r)>>, "commit", writes)
    BY <1>6 DEF IssuePathCert, TakesRow
  <2>2. /\ writes.section = own[r].section /\ writes.course = own[r].course
        /\ writes.path = own[r].path
    BY <1>2 DEF Writes
  <2> HIDE DEF writes
  <2> QED BY <1>1, <2>1, <2>2, WriteIsQuiet
<1> QED BY <1>3, <1>4, <1>5, <1>6 DEF UpdatePosition, CreatePosition

\* Every statement of a cascade is quiet, except its commit.
LEMMA CascadeSteps ==
  ASSUME TypeInv, NEW r \in Requests, Through(r), HoldsWrites(r),
         Client(r) \/ Step(r) \/ Abort(r)
  PROVE  CascadeQuiet(r) \/ Commit(r)
BY ArrivalIsQuiet, CascadeReads, CascadeUpserts, CascadeInserts, RollbackIsQuiet DEF Step, Abort

\* The commit publishes the completed lesson, and of the progress rows those it
\* has written and holds.
LEMMA CascadeCommits ==
  ASSUME TypeInv, NEW r \in Requests, Through(r), HoldsWrites(r), Commit(r)
  PROVE  /\ OthersKeepHeld(r) /\ UNCHANGED enrollmentTables
         /\ HasAccessToCourse(U(r), C(r)) /\ C(r) = CourseOf[SectionOf[L(r)]]
         /\ lessonProgress' \subseteq lessonProgress \cup {<<U(r), L(r)>>}
         /\ \A q \in Requests \ {r} : pc'[q] = pc[q] /\ arg'[q] = arg[q] /\ own'[q] = own[q]
         /\ Through(r)' /\ HoldsWrites(r)'
<1>1. /\ pc[r] = "commit" /\ lessonProgress' = SeenLessons(r)
      /\ sectionProgress' = SeenSections(r) /\ courseProgress' = SeenCourses(r)
      /\ pathProgress' = SeenPaths(r) /\ Unlock(r) /\ Finish(r, CertificatesIssued(r))
      /\ UNCHANGED enrollmentTables
  BY DEF Commit
<1>2. TablesTypeOK /\ r \in Transactions BY RequestsAssumption DEF TypeInv, TypeOK
<1>3. OthersKeepLocks(r) BY <1>1, <1>2, UnlockKeeps
<1>4. ASSUME NEW t \in Transactions \ {r}, NEW u \in Users
      PROVE  /\ \A p \in Paths : HoldsPath(t, u, p) => pathProgress'[<<u, p>>] = NoRow
             /\ \A c \in Courses : HoldsCourse(t, u, c) => courseProgress'[<<u, c>>] = NoRow
             /\ \A c \in Courses : HoldsEnrollment(t, u, c) => <<u, c>> \notin courseEnrollment'
             /\ \A s \in Sections : HoldsSection(t, u, s) => sectionProgress'[<<u, s>>] = NoRow
  <2>1. ASSUME NEW p \in Paths, HoldsPath(t, u, p) PROVE pathProgress'[<<u, p>>] = NoRow
    <3>1. own[r].path # NoRow => <<u, p>> # <<U(r), P(r)>>
      BY <2>1 DEF HoldsWrites, HoldsPath
    <3> QED BY <1>1, <1>2, <2>1, <3>1 DEF HoldsPath, SeenPaths, TablesTypeOK
  <2>2. ASSUME NEW c \in Courses, HoldsCourse(t, u, c) PROVE courseProgress'[<<u, c>>] = NoRow
    <3>1. own[r].course # NoRow => <<u, c>> # <<U(r), C(r)>>
      BY <2>2 DEF HoldsWrites, HoldsCourse
    <3> QED BY <1>1, <1>2, <2>2, <3>1 DEF HoldsCourse, SeenCourses, TablesTypeOK
  <2>3. ASSUME NEW s \in Sections, HoldsSection(t, u, s) PROVE sectionProgress'[<<u, s>>] = NoRow
    <3>1. own[r].section # NoRow => <<u, s>> # <<U(r), S(r)>>
      BY <2>3 DEF HoldsWrites, HoldsSection
    <3> QED BY <1>1, <1>2, <2>3, <3>1 DEF HoldsSection, SeenSections, TablesTypeOK
  <2> QED BY <1>1, <2>1, <2>2, <2>3 DEF HoldsEnrollment, enrollmentTables
<1>5. OthersKeepHeld(r)
  BY <1>3, <1>4, EnrollRows DEF OthersKeepLocks, OthersKeepHeld, HoldsPath, HoldsCourse,
    HoldsEnrollment, HoldsSection
<1>6. /\ pc'[r] = "idle" /\ own'[r] = NoWrites
      /\ \A q \in Requests \ {r} : pc'[q] = pc[q] /\ arg'[q] = arg[q] /\ own'[q] = own[q]
  BY <1>1 DEF Finish, Goto, TypeInv, TypeOK
<1>7. Through(r)' /\ HoldsWrites(r)' BY <1>6 DEF Through, HoldsWrites, NoWrites
<1>8. lessonProgress' \subseteq lessonProgress \cup {<<U(r), L(r)>>} BY <1>1 DEF SeenLessons
<1>9. HasAccessToCourse(U(r), C(r)) BY <1>1 DEF Through
<1> QED BY <1>1, <1>5, <1>6, <1>7, <1>8, <1>9 DEF C, S

\* Enrollments are not taken back, and complete no lesson.
LEMMA EnrollersKeepAccess ==
  ASSUME EnrollersHold, NEW e \in Enrollers, Quiet(e) \/ EnrollCommits(e)
  PROVE  /\ lessonProgress' = lessonProgress
         /\ \A u \in Users, c \in Courses : HasAccessToCourse(u, c) => HasAccessToCourse(u, c)'
<1>0. TablesTypeOK BY DEF EnrollersHold
<1>1. CASE Quiet(e) BY <1>1 DEF Quiet, HasAccessToCourse, enrollmentTables, progressTables
<1>2. CASE CommitPath(e)
  <2>1. /\ pathEnrollment' = [pathEnrollment EXCEPT ![<<Learner(e), Scope(e)>>] = @ + 1]
        /\ courseEnrollment' = courseEnrollment /\ lessonProgress' = lessonProgress
    BY <1>2 DEF CommitPath
  <2>2. ASSUME NEW u \in Users, NEW p \in Paths, pathEnrollment[<<u, p>>] > 0
        PROVE  pathEnrollment'[<<u, p>>] > 0
    <3>1. pathEnrollment[<<u, p>>] \in Nat /\ <<u, p>> \in DOMAIN pathEnrollment
      BY <1>0 DEF TablesTypeOK
    <3>2. pathEnrollment'[<<u, p>>] \in {pathEnrollment[<<u, p>>], pathEnrollment[<<u, p>>] + 1}
      BY <2>1, <3>1
    <3> QED BY <2>2, <3>1, <3>2
  <2>3. \A c \in Courses : PathOf[c] # NoPath => PathOf[c] \in Paths BY ContentAssumption
  <2> QED BY <2>1, <2>2, <2>3 DEF HasAccessToCourse
<1>3. CASE CommitCourse(e) BY <1>3 DEF CommitCourse, HasAccessToCourse
<1> QED BY <1>1, <1>2, <1>3 DEF EnrollCommits

\* The invariant of the composition holds at first.
LEMMA LearnInitHolds == LearnInit => LearnInvariant
<1> SUFFICES ASSUME LearnInit PROVE LearnInvariant OBVIOUS
<1>1. EnrollersHold BY SeedingInit DEF LearnInit, EnrollInvariant
<1>2. TablesTypeOK BY <1>1 DEF EnrollersHold
<1>3. TypeInv
  BY <1>2 DEF LearnInit, CascadeIdle, TypeInv, TypeOK, PathOnly, PC, Args, Locals, Writes,
    NoLocals, NoWrites, Captured, PathStatements
<1>4. CompletedOnlyWhenEnrolled
  BY DEF LearnInit, EnrollInit, NobodyEnrolled, NothingCompleted, CompletedOnlyWhenEnrolled
<1>5. \A r \in Requests : Through(r) /\ HoldsWrites(r)
  BY DEF LearnInit, CascadeIdle, Through, HoldsWrites, NoWrites
<1> QED BY <1>1, <1>3, <1>4, <1>5 DEF LearnInvariant

\* A lesson that stays completed stays that of an enrolled learner.
LEMMA CompletedStays ==
  ASSUME TablesTypeOK, CompletedOnlyWhenEnrolled, lessonProgress' \subseteq lessonProgress,
         \A u \in Users, c \in Courses : HasAccessToCourse(u, c) => HasAccessToCourse(u, c)'
  PROVE  CompletedOnlyWhenEnrolled'
<1> SUFFICES ASSUME NEW k \in lessonProgress
             PROVE  HasAccessToCourse(k[1], CourseOf[SectionOf[k[2]]])'
  BY DEF CompletedOnlyWhenEnrolled
<1>1. k[1] \in Users /\ CourseOf[SectionOf[k[2]]] \in Courses
  BY ContentAssumption DEF TablesTypeOK
<1> QED BY <1>1 DEF CompletedOnlyWhenEnrolled

\* A step of a completion keeps it.
LEMMA CompletingKeeps ==
  ASSUME LearnInvariant, Completing
  PROVE  LearnInvariant'
<1>1. PICK r \in Requests : (Client(r) \/ Step(r) \/ Abort(r)) /\ UNCHANGED enrollVars
  BY DEF Completing
<1>2. /\ TypeInv /\ EnrollersHold /\ CompletedOnlyWhenEnrolled /\ TablesTypeOK
      /\ \A q \in Requests : Through(q) /\ HoldsWrites(q)
  BY DEF LearnInvariant, TypeInv, TypeOK
<1>3. TypeInv'
  <2>1. CASE Client(r) BY <1>2, <2>1, ClientType
  <2>2. CASE Step(r) BY <1>2, <2>2, StepType
  <2>3. CASE Abort(r) BY <1>2, <2>3, RollbackType DEF Abort
  <2> QED BY <1>1, <2>1, <2>2, <2>3
<1>4. r \in Transactions BY RequestsAssumption
<1>5. CascadeQuiet(r) \/ Commit(r) BY <1>1, <1>2, CascadeSteps
<1>6. /\ OthersKeepHeld(r) /\ UNCHANGED enrollmentTables /\ CompletedOnlyWhenEnrolled'
      /\ \A q \in Requests \ {r} : pc'[q] = pc[q] /\ arg'[q] = arg[q] /\ own'[q] = own[q]
      /\ Through(r)' /\ HoldsWrites(r)'
  <2>1. CASE CascadeQuiet(r)
    <3>1. OthersKeepHeld(r) BY <1>4, <2>1, PublishesNothing DEF CascadeQuiet
    <3>2. CompletedOnlyWhenEnrolled'
      BY <1>2, <2>1 DEF CascadeQuiet, CompletedOnlyWhenEnrolled, HasAccessToCourse,
        enrollmentTables, progressTables
    <3> QED BY <2>1, <3>1, <3>2 DEF CascadeQuiet
  <2>2. CASE Commit(r)
    <3>1. /\ OthersKeepHeld(r) /\ UNCHANGED enrollmentTables
          /\ HasAccessToCourse(U(r), CourseOf[SectionOf[L(r)]])
          /\ lessonProgress' \subseteq lessonProgress \cup {<<U(r), L(r)>>}
          /\ \A q \in Requests \ {r} : pc'[q] = pc[q] /\ arg'[q] = arg[q] /\ own'[q] = own[q]
          /\ Through(r)' /\ HoldsWrites(r)'
      BY <1>2, <2>2, CascadeCommits
    <3>2. CompletedOnlyWhenEnrolled'
      BY <1>2, <3>1 DEF CompletedOnlyWhenEnrolled, HasAccessToCourse, enrollmentTables
    <3> QED BY <3>1, <3>2
  <2> QED BY <1>5, <2>1, <2>2
<1>7. EnrollersHold'
  <2>1. \A f \in Enrollers : EnrollerTypes(f)' /\ Inserted(f)'
    BY <1>1, <1>2, <1>6, DisjointTransactions, WaitingEnrollmentKept DEF enrollVars
  <2>2. TablesTypeOK' BY <1>3 DEF TypeInv, TypeOK
  <2> QED BY <1>1, <1>2, <2>1, <2>2 DEF EnrollersHold, enrollVars
<1>8. \A q \in Requests : Through(q)' /\ HoldsWrites(q)'
  <2>1. \A u \in Users, c \in Courses : HasAccessToCourse(u, c) => HasAccessToCourse(u, c)'
    BY <1>6 DEF HasAccessToCourse, enrollmentTables
  <2>2. OthersKeepLocks(r) BY <1>6 DEF OthersKeepHeld
  <2>3. ASSUME NEW q \in Requests \ {r} PROVE Through(q)' /\ HoldsWrites(q)'
    BY <1>2, <1>6, <2>1, <2>2, <2>3, WaitingCascadeKept
  <2> QED BY <1>6, <2>3
<1> QED BY <1>3, <1>6, <1>7, <1>8 DEF LearnInvariant

\* A step of an enrollment keeps it.
LEMMA EnrollingKeeps ==
  ASSUME LearnInvariant, Enrolling
  PROVE  LearnInvariant'
<1>1. PICK e \in Enrollers : Submit(e) \/ EnrollStep(e) \/ AbortEnroll(e)
  BY DEF Enrolling, EnrollNext
<1>2. /\ TypeInv /\ EnrollersHold /\ CompletedOnlyWhenEnrolled /\ TablesTypeOK
      /\ \A q \in Requests : Through(q) /\ HoldsWrites(q)
  BY DEF LearnInvariant, TypeInv, TypeOK
<1>3. EnrollersHold' /\ OthersKeepHeld(e) /\ (Quiet(e) \/ EnrollCommits(e))
  BY <1>1, <1>2, EnrollersKeep
<1>4. UNCHANGED <<pc, arg, local, own, issued, analytics>> BY DEF Enrolling, cascadeVars
<1>5. TypeInv'
  <2>1. TablesTypeOK' BY <1>3 DEF EnrollersHold
  <2> QED BY <1>2, <1>4, <2>1 DEF TypeInv, TypeOK, PathOnly, InPath, P, C, S, L
<1>6. /\ lessonProgress' = lessonProgress
      /\ \A u \in Users, c \in Courses : HasAccessToCourse(u, c) => HasAccessToCourse(u, c)'
  BY <1>2, <1>3, EnrollersKeepAccess
<1>7. CompletedOnlyWhenEnrolled' BY <1>2, <1>6, CompletedStays
<1>8. ASSUME NEW q \in Requests PROVE Through(q)' /\ HoldsWrites(q)'
  <2>1. q # e /\ OthersKeepLocks(e) BY <1>3, DisjointTransactions DEF OthersKeepHeld
  <2> QED BY <1>2, <1>4, <1>6, <2>1, WaitingCascadeKept
<1> QED BY <1>3, <1>5, <1>7, <1>8 DEF LearnInvariant

\* So does a step that changes nothing.
LEMMA LearnStutters ==
  ASSUME LearnInvariant, UNCHANGED allVars
  PROVE  LearnInvariant'
<1>1. /\ UNCHANGED <<tables, own, analytics>>
      /\ UNCHANGED <<pc, arg, local>> /\ UNCHANGED issued
      /\ UNCHANGED <<step, target, todo, answer>>
  BY DEF allVars, vars, cascadeVars, enrollVars, tables
<1>2. UNCHANGED <<enrollmentTables, progressTables, lessonProgress, rowLock>>
  BY <1>1 DEF tables, progressTables, enrollmentTables
<1>3. TablesTypeOK'
  BY <1>1 DEF LearnInvariant, EnrollersHold, TablesTypeOK, tables, enrollmentTables,
    progressTables
<1>4. TypeInv'
  BY <1>1, <1>3 DEF LearnInvariant, TypeInv, TypeOK, PathOnly, InPath, P, C, S, L
<1>5. EnrollersHold'
  <2>1. ASSUME NEW e \in Enrollers PROVE EnrollerTypes(e)'
    BY <1>1 DEF LearnInvariant, EnrollersHold, EnrollerTypes, Learner, Scope
  <2>2. ASSUME NEW e \in Enrollers PROVE Inserted(e)'
    BY <1>1, <1>2 DEF LearnInvariant, EnrollersHold, Inserted, Learner, Scope, HoldsPath,
      HoldsCourse, HoldsSection, HoldsEnrollment, enrollmentTables, progressTables
  <2> QED BY <1>1, <1>3, <2>1, <2>2 DEF LearnInvariant, EnrollersHold
<1>6. CompletedOnlyWhenEnrolled'
  BY <1>2 DEF LearnInvariant, CompletedOnlyWhenEnrolled, HasAccessToCourse, enrollmentTables
<1>7. ASSUME NEW r \in Requests PROVE Through(r)' /\ HoldsWrites(r)'
  BY <1>1, <1>2 DEF LearnInvariant, Through, HoldsWrites, HasAccessToCourse, U, L, S, C, P,
    InPath, enrollmentTables
<1> QED BY <1>4, <1>5, <1>6, <1>7 DEF LearnInvariant

\* The invariant of the composition holds throughout.
THEOREM LearnInductive == LearnSpec => []LearnInvariant
<1>1. LearnInvariant /\ [LearnNext]_allVars => LearnInvariant'
  BY CompletingKeeps, EnrollingKeeps, LearnStutters DEF LearnNext
<1> QED BY <1>1, LearnInitHolds, PTL DEF LearnSpec

\* A lesson is completed by an enrolled learner only, although EnrollmentGuard
\* reads the enrollment on another connection, long before the commit.
THEOREM OnlyEnrolledComplete == LearnSpec => []CompletedOnlyWhenEnrolled
<1>1. LearnInvariant => CompletedOnlyWhenEnrolled BY DEF LearnInvariant
<1> QED BY <1>1, LearnInductive, PTL

\* The zeros an enrollment commits never overwrite a row a completion has
\* written, because the enrollment inserted the rows, holding them, first.
THEOREM SeedsNeverReset == LearnSpec => SeedsKeepProgress
<1>1. ASSUME EnrollersHold, NEW e \in Enrollers, CommitPath(e)
      PROVE  /\ \A k \in DOMAIN sectionProgress :
                  sectionProgress[k] \in {NoRow, sectionProgress'[k]}
             /\ \A k \in DOMAIN courseProgress : courseProgress[k] \in {NoRow, courseProgress'[k]}
             /\ \A k \in DOMAIN pathProgress : pathProgress[k] \in {NoRow, pathProgress'[k]}
  <2> DEFINE u == Learner(e)
             p == Scope(e)
  <2>1. /\ step[e] = "commitPath"
        /\ pathProgress' = [pathProgress EXCEPT ![<<u, p>>] = 0]
        /\ courseProgress' = [k \in DOMAIN courseProgress |->
             IF k[1] = u /\ PathOf[k[2]] = p THEN 0 ELSE courseProgress[k]]
        /\ sectionProgress' = sectionProgress
    BY <1>1 DEF CommitPath
  <2>2. /\ pathProgress[<<u, p>>] = NoRow
        /\ \A c \in CoursesIn(p) : courseProgress[<<u, c>>] = NoRow
    BY <1>1, <2>1, PathCommitHolds DEF HoldsPath, HoldsCourse
  <2> HIDE DEF u, p
  <2>3. TablesTypeOK BY <1>1 DEF EnrollersHold
  <2>4. ASSUME NEW k \in DOMAIN courseProgress
        PROVE  courseProgress[k] \in {NoRow, courseProgress'[k]}
    <3>1. k = <<k[1], k[2]>> /\ k[2] \in Courses BY <2>3 DEF TablesTypeOK
    <3>2. CASE k[1] = u /\ PathOf[k[2]] = p
      <4>1. k[2] \in CoursesIn(p) BY <3>1, <3>2 DEF CoursesIn
      <4> QED BY <2>2, <3>1, <3>2, <4>1
    <3>3. CASE ~(k[1] = u /\ PathOf[k[2]] = p) BY <2>1, <3>3
    <3> QED BY <3>2, <3>3
  <2>5. \A k \in DOMAIN pathProgress : pathProgress[k] \in {NoRow, pathProgress'[k]}
    BY <2>1, <2>2
  <2> QED BY <2>1, <2>4, <2>5
<1>2. ASSUME EnrollersHold, NEW e \in Enrollers, CommitCourse(e)
      PROVE  /\ \A k \in DOMAIN sectionProgress :
                  sectionProgress[k] \in {NoRow, sectionProgress'[k]}
             /\ \A k \in DOMAIN courseProgress : courseProgress[k] \in {NoRow, courseProgress'[k]}
             /\ \A k \in DOMAIN pathProgress : pathProgress[k] \in {NoRow, pathProgress'[k]}
  <2> DEFINE u == Learner(e)
             c == Scope(e)
  <2>1. /\ step[e] = "commitCourse"
        /\ courseProgress' = [courseProgress EXCEPT ![<<u, c>>] = 0]
        /\ sectionProgress' = [k \in DOMAIN sectionProgress |->
             IF k[1] = u /\ CourseOf[k[2]] = c THEN 0 ELSE sectionProgress[k]]
        /\ pathProgress' = pathProgress
    BY <1>2 DEF CommitCourse
  <2>2. /\ courseProgress[<<u, c>>] = NoRow
        /\ \A s \in SectionsIn(c) : sectionProgress[<<u, s>>] = NoRow
    BY <1>2, <2>1, CourseCommitHolds DEF HoldsCourse, HoldsSection
  <2> HIDE DEF u, c
  <2>3. TablesTypeOK BY <1>2 DEF EnrollersHold
  <2>4. ASSUME NEW k \in DOMAIN sectionProgress
        PROVE  sectionProgress[k] \in {NoRow, sectionProgress'[k]}
    <3>1. k = <<k[1], k[2]>> /\ k[2] \in Sections BY <2>3 DEF TablesTypeOK
    <3>2. CASE k[1] = u /\ CourseOf[k[2]] = c
      <4>1. k[2] \in SectionsIn(c) BY <3>1, <3>2 DEF SectionsIn
      <4> QED BY <2>2, <3>1, <3>2, <4>1
    <3>3. CASE ~(k[1] = u /\ CourseOf[k[2]] = c) BY <2>1, <3>3
    <3> QED BY <3>2, <3>3
  <2>5. \A k \in DOMAIN courseProgress : courseProgress[k] \in {NoRow, courseProgress'[k]}
    BY <2>1, <2>2
  <2> QED BY <2>1, <2>4, <2>5
<1>3. LearnInvariant => EnrollersHold BY DEF LearnInvariant
<1>4. LearnInvariant =>
        [(\E e \in Enrollers : CommitPath(e) \/ CommitCourse(e)) =>
           /\ \A k \in DOMAIN sectionProgress : sectionProgress[k] \in {NoRow, sectionProgress'[k]}
           /\ \A k \in DOMAIN courseProgress : courseProgress[k] \in {NoRow, courseProgress'[k]}
           /\ \A k \in DOMAIN pathProgress : pathProgress[k] \in {NoRow, pathProgress'[k]}]_allVars
  BY <1>1, <1>2, <1>3
<1> QED BY <1>4, LearnInductive, PTL DEF SeedsKeepProgress
-----------------------------------------------------------------------------
(* Exact rows of learners who enroll *)

\* The commit of an enrollment writes zeros, and only where there was no row.
SeedsOnly ==
  /\ \A k \in Users \X Sections :
       \/ sectionProgress'[k] = sectionProgress[k]
       \/ sectionProgress[k] = NoRow /\ sectionProgress'[k] = 0
  /\ \A k \in Users \X Courses :
       \/ courseProgress'[k] = courseProgress[k]
       \/ courseProgress[k] = NoRow /\ courseProgress'[k] = 0
  /\ \A k \in Users \X Paths :
       \/ pathProgress'[k] = pathProgress[k]
       \/ pathProgress[k] = NoRow /\ pathProgress'[k] = 0

\* What an enrollment publishes are zeros where no row was.
LEMMA EnrollmentSeeds ==
  ASSUME EnrollersHold, NEW e \in Enrollers, EnrollCommits(e)
  PROVE  SeedsOnly
<1> USE DEF SeedsOnly
<1>0. TablesTypeOK BY DEF EnrollersHold
<1>1. CASE CommitPath(e)
  <2> DEFINE u == Learner(e)
             p == Scope(e)
  <2>1. /\ step[e] = "commitPath"
        /\ pathProgress' = [pathProgress EXCEPT ![<<u, p>>] = 0]
        /\ courseProgress' = [k \in DOMAIN courseProgress |->
             IF k[1] = u /\ PathOf[k[2]] = p THEN 0 ELSE courseProgress[k]]
        /\ sectionProgress' = sectionProgress
    BY <1>1 DEF CommitPath
  <2>2. /\ pathProgress[<<u, p>>] = NoRow
        /\ \A c \in CoursesIn(p) : courseProgress[<<u, c>>] = NoRow
    BY <2>1, PathCommitHolds DEF HoldsPath, HoldsCourse
  <2> HIDE DEF u, p
  <2>3. ASSUME NEW v \in Users, NEW c \in Courses
        PROVE  \/ courseProgress'[<<v, c>>] = courseProgress[<<v, c>>]
               \/ courseProgress[<<v, c>>] = NoRow /\ courseProgress'[<<v, c>>] = 0
    <3>1. <<v, c>> \in DOMAIN courseProgress BY <1>0 DEF TablesTypeOK
    <3>2. PathOf[c] = p => c \in CoursesIn(p) BY DEF CoursesIn
    <3> QED BY <2>1, <2>2, <3>1, <3>2
  <2>4. \A k \in Users \X Courses :
          \/ courseProgress'[k] = courseProgress[k]
          \/ courseProgress[k] = NoRow /\ courseProgress'[k] = 0
    BY <2>3
  <2>5. \A k \in Users \X Paths :
          \/ pathProgress'[k] = pathProgress[k]
          \/ pathProgress[k] = NoRow /\ pathProgress'[k] = 0
    BY <1>0, <2>1, <2>2 DEF TablesTypeOK
  <2> QED BY <2>1, <2>4, <2>5
<1>2. CASE CommitCourse(e)
  <2> DEFINE u == Learner(e)
             c == Scope(e)
  <2>1. /\ step[e] = "commitCourse"
        /\ courseProgress' = [courseProgress EXCEPT ![<<u, c>>] = 0]
        /\ sectionProgress' = [k \in DOMAIN sectionProgress |->
             IF k[1] = u /\ CourseOf[k[2]] = c THEN 0 ELSE sectionProgress[k]]
        /\ pathProgress' = pathProgress
    BY <1>2 DEF CommitCourse
  <2>2. /\ courseProgress[<<u, c>>] = NoRow
        /\ \A s \in SectionsIn(c) : sectionProgress[<<u, s>>] = NoRow
    BY <2>1, CourseCommitHolds DEF HoldsCourse, HoldsSection
  <2> HIDE DEF u, c
  <2>3. ASSUME NEW v \in Users, NEW s \in Sections
        PROVE  \/ sectionProgress'[<<v, s>>] = sectionProgress[<<v, s>>]
               \/ sectionProgress[<<v, s>>] = NoRow /\ sectionProgress'[<<v, s>>] = 0
    <3>1. <<v, s>> \in DOMAIN sectionProgress BY <1>0 DEF TablesTypeOK
    <3>2. CourseOf[s] = c => s \in SectionsIn(c) BY DEF SectionsIn
    <3> QED BY <2>1, <2>2, <3>1, <3>2
  <2>4. \A k \in Users \X Sections :
          \/ sectionProgress'[k] = sectionProgress[k]
          \/ sectionProgress[k] = NoRow /\ sectionProgress'[k] = 0
    BY <2>3
  <2>5. \A k \in Users \X Courses :
          \/ courseProgress'[k] = courseProgress[k]
          \/ courseProgress[k] = NoRow /\ courseProgress'[k] = 0
    BY <1>0, <2>1, <2>2 DEF TablesTypeOK
  <2> QED BY <2>1, <2>4, <2>5
<1> QED BY <1>1, <1>2 DEF EnrollCommits

\* An enrollment commits zeros where there was no row, so nothing was finished.
LEMMA EnrollmentsExact ==
  ASSUME EnrollersHold, AggregatesExact, NEW e \in Enrollers, EnrollCommits(e)
  PROVE  AggregatesExact'
<1>0. TablesTypeOK /\ Cardinality({}) = 0 BY FS_EmptySet DEF EnrollersHold
<1>1. lessonProgress' = lessonProgress BY DEF EnrollCommits, CommitPath, CommitCourse
<1>2. /\ \A u, s : CompletedIn(u, s)' = CompletedIn(u, s)
      /\ \A u, c : FinishedSections(u, c)' = FinishedSections(u, c)
      /\ \A u, p : FinishedCourses(u, p)' = FinishedCourses(u, p)
  BY <1>1 DEF CompletedIn, FinishedSections, FinishedCourses, CompletedOf,
    FinishedSectionsOf, FinishedCoursesOf
<1>3. SeedsOnly BY EnrollmentSeeds
<1>4. ASSUME NEW u \in Users, NEW s \in Sections
      PROVE  IF sectionProgress'[<<u, s>>] = NoRow THEN CompletedIn(u, s) = {}
             ELSE sectionProgress'[<<u, s>>] = Cardinality(CompletedIn(u, s))
  BY <1>0, <1>3, SentinelAssumption DEF AggregatesExact, SeedsOnly
<1>5. ASSUME NEW u \in Users, NEW c \in Courses
      PROVE  IF courseProgress'[<<u, c>>] = NoRow THEN FinishedSections(u, c) = {}
             ELSE courseProgress'[<<u, c>>] = Cardinality(FinishedSections(u, c))
  BY <1>0, <1>3, SentinelAssumption DEF AggregatesExact, SeedsOnly
<1>6. ASSUME NEW u \in Users, NEW p \in Paths
      PROVE  IF pathProgress'[<<u, p>>] = NoRow THEN FinishedCourses(u, p) = {}
             ELSE pathProgress'[<<u, p>>] = Cardinality(FinishedCourses(u, p))
  BY <1>0, <1>3, SentinelAssumption DEF AggregatesExact, SeedsOnly
<1> QED BY <1>2, <1>4, <1>5, <1>6 DEF AggregatesExact

(***************************************************************************)
(* The same of learners who enroll meanwhile: the seeded zeros are what    *)
(* counting gives, because nothing was completed before.                   *)
(***************************************************************************)
THEOREM ExactWhileEnrolling == LearnSpec /\ []OneAtATime => []AggregatesExact
<1>1. LearnInit => ExactInvariant
  BY NothingExact DEF LearnInit, EnrollInit, NobodyEnrolled, NothingCompleted, CascadeIdle
<1>2. LearnInvariant /\ ExactInvariant /\ OneAtATime /\ [LearnNext]_allVars => ExactInvariant'
  <2> SUFFICES ASSUME LearnInvariant, ExactInvariant, OneAtATime, [LearnNext]_allVars
               PROVE  ExactInvariant'
    OBVIOUS
  <2>0. TypeInv /\ EnrollersHold BY DEF LearnInvariant
  <2>1. CASE Completing BY <2>0, <2>1, CascadeExact DEF Completing
  <2>2. CASE Enrolling
    <3>1. PICK e \in Enrollers : Submit(e) \/ EnrollStep(e) \/ AbortEnroll(e)
      BY <2>2 DEF Enrolling, EnrollNext
    <3>2. Quiet(e) \/ EnrollCommits(e) BY <2>0, <3>1, EnrollersKeep
    <3>3. AggregatesExact'
      BY <2>0, <3>2, RowsStayExact, EnrollmentsExact DEF ExactInvariant, Quiet
    <3>4. UNCHANGED <<pc, arg, local, own>> BY <2>2 DEF Enrolling, cascadeVars
    <3>5. lessonProgress' = lessonProgress BY <2>0, <3>2, EnrollersKeepAccess
    <3>6. \A r \in Requests : Exact(r)' BY <2>0, <3>4, <3>5, RestingExact DEF ExactInvariant
    <3> QED BY <3>3, <3>6 DEF ExactInvariant
  <2>3. CASE UNCHANGED allVars
    <3>1. UNCHANGED <<pc, arg, local, own>> /\ UNCHANGED progressTables
      BY <2>3 DEF allVars, vars, cascadeVars, tables
    <3> QED BY <2>0, <3>1, NothingMoves
  <2> QED BY <2>1, <2>2, <2>3 DEF LearnNext
<1>3. ExactInvariant => AggregatesExact BY DEF ExactInvariant
<1> QED BY <1>1, <1>2, <1>3, LearnInductive, PTL DEF LearnSpec

-----------------------------------------------------------------------------
(* Certificates, positions and announcements of learners who enroll *)

\* The cascades' statements, and the stuttering of the composition, are those of
\* the cascade; it starts like the cascade does when nobody is enrolled.
LEMMA LearnCascades ==
  /\ LearnInit => Init
  /\ Completing \/ UNCHANGED allVars => [Next]_vars
<1>1. ASSUME LearnInit PROVE Init
  <2>1. CascadeIdle /\ NobodyEnrolled /\ NothingCompleted
    BY <1>1 DEF LearnInit, EnrollInit, NobodyEnrolled
  <2>2. SeededBy({}, {}) BY <2>1 DEF SeededBy, NobodyEnrolled
  <2>3. /\ {} \in SUBSET (Users \X Paths)
        /\ {} \in SUBSET {k \in Users \X Courses : PathOf[k[2]] = NoPath}
    OBVIOUS
  <2> QED BY <2>1, <2>2, <2>3 DEF Init
<1>2. Completing => Next BY DEF Completing, Next
<1>3. UNCHANGED allVars => UNCHANGED vars BY DEF allVars
<1> QED BY <1>1, <1>2, <1>3

\* The locks of certificates and positions stay as they are.
InsertLocksRest == \A row \in InsertRows : rowLock'[row] = rowLock[row]

\* An enrollment that ends gives up no lock of a cascade.
LEMMA EndRestsLocks ==
  ASSUME CascadeLocks, NEW e \in Enrollers, Unlock(e)
  PROVE  InsertLocksRest
<1>1. e \notin Requests \cup {Free}
  BY DisjointTransactions, EnrollersAssumption, SentinelAssumption
<1> QED BY <1>1, InsertRowsAreRows DEF CascadeLocks, Unlock, InsertLocksRest

\* An INSERT of an enrollment takes no row that cascades insert.
LEMMA InsertRestsLocks ==
  ASSUME TablesTypeOK, CascadeLocks, NEW e \in Enrollers, NEW row, row \notin InsertRows,
         NEW taken, NEW next, NEW left, NEW error,
         Insert(e, row, taken, next, left, error)
  PROVE  InsertLocksRest
<1>1. CASE Unlock(e) BY <1>1, EndRestsLocks
<1>2. CASE Lock(e, row)
  BY <1>2, InsertRowsAreRows DEF Lock, InsertLocksRest, TablesTypeOK
<1> QED BY <1>1, <1>2 DEF Insert, Throw

\* No step of an enrollment takes one.
LEMMA EnrollersRestLocks ==
  ASSUME TablesTypeOK, CascadeLocks, NEW e \in Enrollers,
         Submit(e) \/ EnrollStep(e) \/ AbortEnroll(e)
  PROVE  InsertLocksRest
<1>1. CASE UNCHANGED tables BY <1>1 DEF tables, InsertLocksRest
<1>2. CASE Unlock(e) BY <1>2, EndRestsLocks
<1>3. \A u, k : /\ <<"path_progress", u, k>> \notin InsertRows
                /\ <<"course_progress", u, k>> \notin InsertRows
                /\ <<"section_progress", u, k>> \notin InsertRows
                /\ <<"course_enrollments", u, k>> \notin InsertRows
  BY DEF InsertRows
<1>4. CASE CreatePathProgress(e) BY <1>3, <1>4, InsertRestsLocks DEF CreatePathProgress
<1>5. CASE CreateCourseRow(e)
  <2>1. PICK c \in todo[e] :
          Insert(e, <<"course_progress", Learner(e), c>>,
                 courseProgress[<<Learner(e), c>>] # NoRow,
                 IF todo[e] = {c} THEN "commitPath" ELSE "createCourseRows",
                 todo[e] \ {c}, "uniqueViolation")
    BY <1>5 DEF CreateCourseRow
  <2> QED BY <1>3, <2>1, InsertRestsLocks
<1>6. CASE CreateCourseEnrollment(e)
  BY <1>3, <1>6, InsertRestsLocks DEF CreateCourseEnrollment
<1>7. CASE CreateCourseProgress(e) BY <1>3, <1>7, InsertRestsLocks DEF CreateCourseProgress
<1>8. CASE CreateSectionRow(e)
  <2>1. PICK s \in todo[e] :
          Insert(e, <<"section_progress", Learner(e), s>>,
                 sectionProgress[<<Learner(e), s>>] # NoRow,
                 IF todo[e] = {s} THEN "commitCourse" ELSE "createSectionRows",
                 todo[e] \ {s}, "conflict")
    BY <1>8 DEF CreateSectionRow
  <2> QED BY <1>3, <2>1, InsertRestsLocks
<1>9. CASE Submit(e) BY <1>1, <1>9 DEF Submit, SubmitPath, SubmitCourse
<1>10. CASE \/ FindEnrollment(e) \/ FindCourse(e) \/ CommitPath(e) \/ CommitCourse(e)
            \/ AbortEnroll(e)
  BY <1>1, <1>2, <1>10
  DEF FindEnrollment, FindCourse, CommitPath, CommitCourse, AbortEnroll, Throw
<1> QED BY <1>4, <1>5, <1>6, <1>7, <1>8, <1>9, <1>10 DEF EnrollStep

\* What an enrollment leaves as it is for the cascades: what they are about and
\* have read, written and locked, what is completed and certified, who is
\* enrolled already.  It only adds enrollments and rows at zero.
LeavesCascades ==
  /\ UNCHANGED <<pc, arg, local, own, issued, analytics>>
  /\ UNCHANGED <<lessonProgress, lastPosition, courseCertificate, pathCertificate>>
  /\ \A k \in Users \X Paths : pathEnrollment[k] > 0 => pathEnrollment'[k] > 0
  /\ \A q \in Requests : \A row \in Rows : rowLock[row] = q => rowLock'[row] = q
  /\ InsertLocksRest
  /\ SeedsOnly

\* No step of an enrollment disturbs a cascade.
LEMMA EnrollingLeaves ==
  ASSUME TypeInv, EnrollersHold, CascadeLocks, Enrolling
  PROVE  LeavesCascades
<1>1. PICK e \in Enrollers : Submit(e) \/ EnrollStep(e) \/ AbortEnroll(e)
  BY DEF Enrolling, EnrollNext
<1>2. TablesTypeOK BY DEF EnrollersHold
<1>3. OthersKeepHeld(e) /\ (Quiet(e) \/ EnrollCommits(e)) BY <1>1, EnrollersKeep
<1>4. InsertLocksRest BY <1>1, <1>2, EnrollersRestLocks
<1>5. \A q \in Requests : \A row \in Rows : rowLock[row] = q => rowLock'[row] = q
  BY <1>3, DisjointTransactions, RequestsAssumption DEF OthersKeepHeld, OthersKeepLocks
<1>6. UNCHANGED <<pc, arg, local, own, issued, analytics>> BY DEF Enrolling, cascadeVars
<1>7. CASE Quiet(e)
  BY <1>4, <1>5, <1>6, <1>7
  DEF Quiet, enrollmentTables, progressTables, LeavesCascades, SeedsOnly
<1>8. CASE EnrollCommits(e)
  <2>1. SeedsOnly BY <1>8, EnrollmentSeeds
  <2>2. UNCHANGED <<lessonProgress, lastPosition, courseCertificate, pathCertificate>>
    BY <1>8 DEF EnrollCommits, CommitPath, CommitCourse
  <2>3. ASSUME NEW k \in Users \X Paths, pathEnrollment[k] > 0 PROVE pathEnrollment'[k] > 0
    <3>1. pathEnrollment[k] \in Nat /\ k \in DOMAIN pathEnrollment BY <1>2 DEF TablesTypeOK
    <3>2. pathEnrollment'[k] \in {pathEnrollment[k], pathEnrollment[k] + 1}
      BY <1>8, <3>1 DEF EnrollCommits, CommitPath, CommitCourse
    <3> QED BY <2>3, <3>1, <3>2
  <2> QED BY <1>4, <1>5, <1>6, <2>1, <2>2, <2>3 DEF LeavesCascades
<1> QED BY <1>3, <1>7, <1>8

\* So each invariant of the cascade survives it.
LEMMA CertificatesLeft ==
  ASSUME TypeInv, CertificateInvariant, LeavesCascades
  PROVE  CertificateInvariant'
<1>1. /\ UNCHANGED <<pc, arg, local, own>>
      /\ UNCHANGED <<lessonProgress, courseCertificate, pathCertificate>>
  BY DEF LeavesCascades
<1>2. CourseCertificatesExact' /\ PathCertificatesExact'
  BY <1>1 DEF CertificateInvariant, CourseCertificatesExact, PathCertificatesExact,
    Ledger!CourseDue, Ledger!PathDue
<1>3. ASSUME NEW q \in Requests PROVE RequestInv(q)'
  <2>0. RequestInv(q) BY DEF CertificateInvariant
  <2>1. pc'[q] = pc[q] /\ arg'[q] = arg[q] /\ own'[q] = own[q] BY <1>1
  <2>2. /\ U(q)' = U(q) /\ L(q)' = L(q) /\ C(q)' = C(q) /\ P(q)' = P(q)
        /\ InPath(q)' <=> InPath(q)
        /\ SeenCourseCerts(q)' = SeenCourseCerts(q)
        /\ SeenPathCerts(q)' = SeenPathCerts(q)
        /\ AllCompleted(q)' <=> AllCompleted(q)
        /\ AllCertified(q)' <=> AllCertified(q)
    BY <1>1, <2>1, ViewKept
  <2>3. HoldsRows(q)' /\ Enrolled(q)'
    <3>1. CASE pc[q] = "idle"
      BY <2>1, <3>1 DEF HoldsRows, Enrolled, AfterCourseLock, AfterPathLock
    <3>2. CASE pc[q] # "idle"
      <4>1. /\ <<"course_progress", U(q), C(q)>> \in Rows
            /\ InPath(q) => <<"path_progress", U(q), P(q)>> \in Rows
            /\ InPath(q) => <<U(q), P(q)>> \in Users \X Paths
        BY <3>2, LockedRows, RequestRows DEF TypeInv
      <4>2. HoldsRows(q)'
        BY <2>0, <2>1, <2>2, <4>1 DEF RequestInv, HoldsRows, LeavesCascades
      <4>3. Enrolled(q)'
        BY <2>0, <2>1, <2>2, <4>1 DEF RequestInv, Enrolled, LeavesCascades
      <4> QED BY <4>2, <4>3
    <3> QED BY <3>1, <3>2
  <2>4. WritesSoFar(q)' BY <2>0, <2>1 DEF RequestInv, WritesSoFar
  <2>5. CourseDecision(q)' /\ PathDecision(q)'
    BY <1>1, <2>0, <2>1, <2>2 DEF RequestInv, CourseDecision, PathDecision
  <2> QED BY <2>3, <2>4, <2>5 DEF RequestInv
<1> QED BY <1>2, <1>3 DEF CertificateInvariant

\* The inserts of the cascades rest on nothing an enrollment changes.
LEMMA InsertsLeft ==
  ASSUME InsertInvariant, LeavesCascades
  PROVE  InsertInvariant'
<1>1. UNCHANGED <<pc, arg, local, own, lessonProgress, lastPosition>> /\ InsertLocksRest
  BY DEF LeavesCascades
<1>2. PositionInScope' BY <1>1 DEF InsertInvariant, PositionInScope
<1>3. CascadeLocks' BY <1>1 DEF InsertInvariant, CascadeLocks, InsertLocksRest
<1>4. ASSUME NEW q \in Requests PROVE Placing(q)' /\ InsertLocks(q)'
  <2>1. U(q)' = U(q) /\ C(q)' = C(q) /\ P(q)' = P(q) BY <1>1 DEF U, C, P, S, L
  <2>2. Placing(q) /\ InsertLocks(q) BY DEF InsertInvariant
  <2>3. Placing(q)' BY <1>1, <2>1, <2>2 DEF Placing
  <2>4. InsertLocks(q)'
    BY <1>1, <2>1, <2>2 DEF InsertLocks, InsertLocksRest, InsertRows
  <2> QED BY <2>3, <2>4
<1> QED BY <1>2, <1>3, <1>4 DEF InsertInvariant

\* Nor do their announcements.
LEMMA AnnouncementsLeft ==
  ASSUME AnnouncementInvariant, LeavesCascades
  PROVE  AnnouncementInvariant' /\ Committed' = Committed
<1>1. UNCHANGED <<arg, local, own, analytics, courseCertificate, pathCertificate>>
  BY DEF LeavesCascades
<1> QED BY <1>1 DEF AnnouncementInvariant, Announcing, Committed, U, C, P, S, L

\* A seeded zero claims nothing.
LEMMA ProgressLeft ==
  ASSUME TypeInv, ProgressInvariant, LeavesCascades
  PROVE  ProgressInvariant'
<1>1. UNCHANGED <<pc, arg, local, own, lessonProgress>> /\ SeedsOnly BY DEF LeavesCascades
<1>2. ASSUME NEW r \in Requests PROVE Justified(r)'
  <2>1. SeenLessons(r)' = SeenLessons(r) BY <1>1 DEF SeenLessons, U, L
  <2>2. Justified(r) BY DEF ProgressInvariant
  <2> QED BY <1>1, <2>1, <2>2, JustifiedStays
<1>3. /\ \A u, s : CompletedIn(u, s)' = CompletedIn(u, s)
      /\ \A u, c : FinishedSections(u, c)' = FinishedSections(u, c)
      /\ \A u, p : FinishedCourses(u, p)' = FinishedCourses(u, p)
  BY <1>1 DEF CompletedIn, FinishedSections, FinishedCourses, CompletedOf,
    FinishedSectionsOf, FinishedCoursesOf
<1>4. /\ \A u, s : Cardinality(CompletedIn(u, s)) \in Nat
      /\ \A u, c : Cardinality(FinishedSections(u, c)) \in Nat
      /\ \A u, p : Cardinality(FinishedCourses(u, p)) \in Nat
  BY FinishedNumbers DEF CompletedIn, FinishedSections, FinishedCourses
<1>5. NeverOverstated BY DEF ProgressInvariant
<1>6. ASSUME NEW u \in Users
      PROVE  /\ \A s \in Sections :
                  sectionProgress'[<<u, s>>] # NoRow =>
                    sectionProgress'[<<u, s>>] <= Cardinality(CompletedIn(u, s))
             /\ \A c \in Courses :
                  courseProgress'[<<u, c>>] # NoRow =>
                    courseProgress'[<<u, c>>] <= Cardinality(FinishedSections(u, c))
             /\ \A p \in Paths :
                  pathProgress'[<<u, p>>] # NoRow =>
                    pathProgress'[<<u, p>>] <= Cardinality(FinishedCourses(u, p))
  <2>1. /\ \A s \in Sections : <<u, s>> \in Users \X Sections
        /\ \A c \in Courses : <<u, c>> \in Users \X Courses
        /\ \A p \in Paths : <<u, p>> \in Users \X Paths
    OBVIOUS
  <2> QED BY <1>1, <1>4, <1>5, <2>1 DEF SeedsOnly, NeverOverstated
<1>7. NeverOverstated' BY <1>3, <1>6 DEF NeverOverstated
<1> QED BY <1>2, <1>7 DEF ProgressInvariant
CascadeInvariants ==
  CertificateInvariant /\ InsertInvariant /\ AnnouncementInvariant /\ ProgressInvariant

\* Every step of the composition keeps the invariants of the cascade.
LEMMA LearnKeepsCascades ==
  LearnInvariant /\ CascadeInvariants /\ [LearnNext]_allVars => CascadeInvariants'
<1> SUFFICES ASSUME LearnInvariant, CascadeInvariants, [LearnNext]_allVars
             PROVE  CascadeInvariants'
  OBVIOUS
<1>1. /\ TypeInv /\ EnrollersHold /\ CascadeLocks
      /\ CertificateInvariant /\ InsertInvariant /\ AnnouncementInvariant /\ ProgressInvariant
  BY DEF LearnInvariant, CascadeInvariants, InsertInvariant
<1>2. CASE [Next]_vars
  BY <1>1, <1>2, CertificateNext, InsertNext, AnnouncementNext, ProgressNext
  DEF CascadeInvariants
<1>3. CASE Enrolling
  <2>1. LeavesCascades BY <1>1, <1>3, EnrollingLeaves
  <2> QED
    BY <1>1, <2>1, CertificatesLeft, InsertsLeft, AnnouncementsLeft, ProgressLeft
    DEF CascadeInvariants
<1> QED BY <1>2, <1>3, LearnCascades DEF LearnNext

(***************************************************************************)
(* What the cascade relies on stays true while learners enroll: an         *)
(* enrollment takes no lock of a cascade, publishes zeros only where there *)
(* was no row, and never takes an enrollment back.                         *)
(***************************************************************************)
THEOREM CascadeWhileEnrolling == LearnSpec => []CascadeInvariants
<1>1. LearnInit => CascadeInvariants
  <2>1. Init => AnnouncementInvariant
    BY DEF Init, CascadeIdle, AnnouncementInvariant, Announcing, NoLocals, NoWrites
  <2> QED BY <2>1, LearnCascades, CertificateInit, InsertInit, ProgressInit DEF CascadeInvariants
<1> QED BY <1>1, LearnKeepsCascades, LearnInductive, PTL DEF LearnSpec

(***************************************************************************)
(* Learners who enroll while their lessons are being completed hold        *)
(* exactly the course certificates of the courses they completed.          *)
(***************************************************************************)
THEOREM CourseCertificatesWhileEnrolling == LearnSpec => []CourseCertificatesExact
<1>1. CascadeInvariants => CourseCertificatesExact
  BY DEF CascadeInvariants, CertificateInvariant
<1> QED BY <1>1, CascadeWhileEnrolling, PTL

(***************************************************************************)
(* And exactly the path certificates of the paths all of whose courses     *)
(* they hold certificates of.                                              *)
(***************************************************************************)
THEOREM PathCertificatesWhileEnrolling == LearnSpec => []PathCertificatesExact
<1>1. CascadeInvariants => PathCertificatesExact
  BY DEF CascadeInvariants, CertificateInvariant
<1> QED BY <1>1, CascadeWhileEnrolling, PTL

(***************************************************************************)
(* No INSERT of a cascade ever meets a row, whoever enrolls meanwhile.     *)
(***************************************************************************)
THEOREM NoConflictWhileEnrolling == LearnSpec => []InsertsNeverConflict
<1>1. LearnInvariant /\ CascadeInvariants => InsertsNeverConflict
  BY ConflictFree DEF LearnInvariant, CascadeInvariants
<1> QED BY <1>1, CascadeWhileEnrolling, LearnInductive, PTL

(***************************************************************************)
(* The last position is a completed lesson, in its scope, although         *)
(* updateLastPosition asks for the enrollment again when it chooses it.    *)
(***************************************************************************)
THEOREM PositionsWhileEnrolling == LearnSpec => []PositionInScope
<1>1. CascadeInvariants => PositionInScope BY DEF CascadeInvariants, InsertInvariant
<1> QED BY <1>1, CascadeWhileEnrolling, PTL

(***************************************************************************)
(* No progress row claims more than was completed, the seeded ones         *)
(* included.                                                               *)
(***************************************************************************)
THEOREM NeverOverstatedWhileEnrolling == LearnSpec => []NeverOverstated
<1>1. CascadeInvariants => NeverOverstated BY DEF CascadeInvariants, ProgressInvariant
<1> QED BY <1>1, CascadeWhileEnrolling, PTL

(***************************************************************************)
(* The cascade and the enrollments together still implement the ledger:    *)
(* enrolling is a stuttering step of it.                                   *)
(***************************************************************************)
THEOREM LedgerWhileEnrolling == LearnSpec => ImplementsLedger
<1>1. LearnInit => Ledger!Init
  BY LearnCascades DEF Init, NothingCompleted, Ledger!Init
<1>2. LearnInvariant /\ CascadeInvariants /\ [LearnNext]_allVars => [Ledger!Next]_(Ledger!ledger)
  <2> SUFFICES ASSUME LearnInvariant, CascadeInvariants, [LearnNext]_allVars
               PROVE  [Ledger!Next]_(Ledger!ledger)
    OBVIOUS
  <2>1. TypeInv /\ EnrollersHold /\ CascadeLocks /\ CertificateInvariant
    BY DEF LearnInvariant, CascadeInvariants, InsertInvariant
  <2>2. CASE [Next]_vars BY <2>1, <2>2, LedgerNext
  <2>3. CASE Enrolling
    <3>1. LeavesCascades BY <2>1, <2>3, EnrollingLeaves
    <3> QED BY <3>1 DEF LeavesCascades, Ledger!ledger
  <2> QED BY <2>2, <2>3, LearnCascades DEF LearnNext
<1> QED
  BY <1>1, <1>2, LearnInductive, CascadeWhileEnrolling, PTL
     DEF LearnSpec, ImplementsLedger, Ledger!Spec

(***************************************************************************)
(* A certificate is still committed by the step that answers a request     *)
(* which lists it, its event captured.                                     *)
(***************************************************************************)
THEOREM AnnouncedWhileEnrolling == LearnSpec => IssuanceAnnounced
<1>1. LearnInvariant /\ CascadeInvariants /\ [LearnNext]_allVars
        => [\A cert \in Committed' \ Committed :
              /\ \E r \in Requests : cert \in issued'[r]
              /\ cert \in analytics]_vars
  <2> SUFFICES ASSUME LearnInvariant, CascadeInvariants, [LearnNext]_allVars
               PROVE  [Announced]_vars
    BY DEF Announced
  <2>1. /\ TypeInv /\ EnrollersHold /\ CascadeLocks
        /\ CertificateInvariant /\ InsertInvariant /\ AnnouncementInvariant
    BY DEF LearnInvariant, CascadeInvariants, InsertInvariant
  <2>2. CASE [Next]_vars BY <2>1, <2>2, AnnouncedNext
  <2>3. CASE Enrolling
    <3>1. LeavesCascades BY <2>1, <2>3, EnrollingLeaves
    <3>2. Committed' = Committed BY <2>1, <3>1, AnnouncementsLeft
    <3> QED BY <3>2 DEF Announced
  <2> QED BY <2>2, <2>3, LearnCascades DEF LearnNext
<1> QED BY <1>1, LearnInductive, CascadeWhileEnrolling, PTL DEF LearnSpec, IssuanceAnnounced

-----------------------------------------------------------------------------
(* What enrolling promises to learners whose lessons are being completed *)

\* A cascade adds progress rows of enrolled learners only: EnrollmentGuard let
\* it through.
LEMMA CompletingSeeds ==
  ASSUME LearnInvariant, EnrollInvariant, Completing
  PROVE  OneEnrollmentPerPath' /\ EnrolledIffSeeded' /\ SectionsSeeded' /\ answer' = answer
<1>1. PICK r \in Requests : (Client(r) \/ Step(r) \/ Abort(r)) /\ UNCHANGED enrollVars
  BY DEF Completing
<1>2. /\ TypeInv /\ TypeOK /\ TablesTypeOK /\ Through(r) /\ HoldsWrites(r)
      /\ OneEnrollmentPerPath /\ EnrolledIffSeeded /\ SectionsSeeded
  BY DEF LearnInvariant, TypeInv, TypeOK, EnrollInvariant
<1>3. CascadeQuiet(r) \/ Commit(r) BY <1>1, <1>2, CascadeSteps
<1>4. CASE CascadeQuiet(r)
  BY <1>1, <1>2, <1>4 DEF CascadeQuiet, OneEnrollmentPerPath, EnrolledIffSeeded, SectionsSeeded,
    enrollmentTables, progressTables, enrollVars
<1>5. CASE Commit(r)
  <2>1. /\ pc[r] = "commit" /\ UNCHANGED <<pathEnrollment, courseEnrollment>>
        /\ sectionProgress' = SeenSections(r) /\ courseProgress' = SeenCourses(r)
        /\ pathProgress' = SeenPaths(r)
    BY <1>5 DEF Commit, enrollmentTables
  <2>2. /\ U(r) \in Users /\ S(r) \in Sections /\ C(r) \in Courses
        /\ C(r) = CourseOf[S(r)]
    BY <1>2, <2>1, RequestRows DEF C
  <2>3. HasAccessToCourse(U(r), C(r)) BY <1>2, <2>1 DEF Through
  <2>4. \A u \in Users, s \in Sections :
          sectionProgress'[<<u, s>>] # NoRow =>
            sectionProgress[<<u, s>>] # NoRow \/ (u = U(r) /\ s = S(r))
    BY <1>2, <2>1 DEF SeenSections, TablesTypeOK
  <2>5. \A u \in Users, s \in Sections :
          sectionProgress[<<u, s>>] # NoRow => sectionProgress'[<<u, s>>] # NoRow
    BY <1>2, <2>1 DEF SeenSections, TablesTypeOK
  <2>6. \A u \in Users, c \in Courses :
          courseProgress'[<<u, c>>] # NoRow <=>
            courseProgress[<<u, c>>] # NoRow
              \/ (u = U(r) /\ c = C(r) /\ own[r].course # NoRow)
    BY <1>2, <2>1, <2>2 DEF SeenCourses, TablesTypeOK
  <2>7. \A u \in Users, p \in Paths :
          pathProgress'[<<u, p>>] # NoRow <=>
            pathProgress[<<u, p>>] # NoRow
              \/ (u = U(r) /\ p = P(r) /\ own[r].path # NoRow)
    BY <1>2, <2>1 DEF SeenPaths, TablesTypeOK
  <2>8. OneEnrollmentPerPath' BY <1>2, <2>1 DEF OneEnrollmentPerPath
  <2>9. SectionsSeeded'
    <3> SUFFICES ASSUME NEW u \in Users, NEW s \in Sections, PathOf[CourseOf[s]] = NoPath,
                        sectionProgress'[<<u, s>>] # NoRow
                 PROVE  <<u, CourseOf[s]>> \in courseEnrollment'
      BY DEF SectionsSeeded
    <3>1. CASE sectionProgress[<<u, s>>] # NoRow BY <1>2, <2>1, <3>1 DEF SectionsSeeded
    <3>2. CASE u = U(r) /\ s = S(r) BY <2>1, <2>2, <2>3, <3>2 DEF HasAccessToCourse
    <3> QED BY <2>4, <3>1, <3>2
  <2>10. EnrolledIffSeeded'
    <3> SUFFICES ASSUME NEW u \in Users
        PROVE /\ \A p \in Paths :
                   /\ pathEnrollment[<<u, p>>] > 0 <=> pathProgress'[<<u, p>>] # NoRow
                   /\ \A c \in CoursesIn(p) :
                        pathEnrollment[<<u, p>>] > 0 <=> courseProgress'[<<u, c>>] # NoRow
              /\ \A c \in {d \in Courses : PathOf[d] = NoPath} :
                   /\ <<u, c>> \in courseEnrollment <=> courseProgress'[<<u, c>>] # NoRow
                   /\ <<u, c>> \in courseEnrollment =>
                        \A s \in SectionsIn(c) : sectionProgress'[<<u, s>>] # NoRow
      BY <2>1 DEF EnrolledIffSeeded
    <3>1. ASSUME NEW p \in Paths
          PROVE  pathEnrollment[<<u, p>>] > 0 <=> pathProgress'[<<u, p>>] # NoRow
      <4>1. pathEnrollment[<<u, p>>] > 0 <=> pathProgress[<<u, p>>] # NoRow
        BY <1>2 DEF EnrolledIffSeeded
      <4>2. u = U(r) /\ p = P(r) => pathEnrollment[<<u, p>>] > 0
        BY <2>3, ContentAssumption DEF HasAccessToCourse, P
      <4> QED BY <2>7, <4>1, <4>2
    <3>2. ASSUME NEW p \in Paths, NEW c \in CoursesIn(p)
          PROVE  pathEnrollment[<<u, p>>] > 0 <=> courseProgress'[<<u, c>>] # NoRow
      <4>1. pathEnrollment[<<u, p>>] > 0 <=> courseProgress[<<u, c>>] # NoRow
        BY <1>2 DEF EnrolledIffSeeded
      <4>2. c \in Courses /\ PathOf[c] = p BY DEF CoursesIn
      <4>3. u = U(r) /\ c = C(r) => pathEnrollment[<<u, p>>] > 0
        BY <2>3, <4>2, ContentAssumption DEF HasAccessToCourse
      <4> QED BY <2>6, <4>1, <4>2, <4>3
    <3>3. ASSUME NEW c \in {d \in Courses : PathOf[d] = NoPath}
          PROVE  /\ <<u, c>> \in courseEnrollment <=> courseProgress'[<<u, c>>] # NoRow
                 /\ <<u, c>> \in courseEnrollment =>
                      \A s \in SectionsIn(c) : sectionProgress'[<<u, s>>] # NoRow
      <4>1. /\ <<u, c>> \in courseEnrollment <=> courseProgress[<<u, c>>] # NoRow
            /\ <<u, c>> \in courseEnrollment =>
                 \A s \in SectionsIn(c) : sectionProgress[<<u, s>>] # NoRow
        BY <1>2 DEF EnrolledIffSeeded
      <4>2. u = U(r) /\ c = C(r) => <<u, c>> \in courseEnrollment
        BY <2>3 DEF HasAccessToCourse
      <4>3. \A s \in SectionsIn(c) : s \in Sections BY DEF SectionsIn
      <4> QED BY <2>5, <2>6, <4>1, <4>2, <4>3
    <3> QED BY <3>1, <3>2, <3>3
  <2> QED BY <1>1, <2>8, <2>9, <2>10 DEF enrollVars
<1> QED BY <1>3, <1>4, <1>5

(***************************************************************************)
(* The invariant of enrollment holds while its learners complete lessons.  *)
(***************************************************************************)
THEOREM EnrollmentWhileCompleting == LearnSpec => []EnrollInvariant
<1>1. LearnInit => EnrollInvariant BY SeedingInit DEF LearnInit
<1>2. LearnInvariant /\ LearnInvariant' /\ EnrollInvariant /\ [LearnNext]_allVars
        => EnrollInvariant'
  <2> SUFFICES ASSUME LearnInvariant, LearnInvariant', EnrollInvariant, [LearnNext]_allVars
               PROVE  EnrollInvariant'
    OBVIOUS
  <2>1. CASE Completing
    <3>1. EnrollersHold' BY DEF LearnInvariant
    <3> QED BY <2>1, <3>1, CompletingSeeds DEF EnrollInvariant
  <2>2. CASE Enrolling BY <2>2, SeedingNext DEF Enrolling
  <2>3. CASE UNCHANGED allVars
    <3>1. UNCHANGED evars BY <2>3 DEF allVars, vars, evars
    <3> QED BY <3>1, SeedingNext
  <2> QED BY <2>1, <2>2, <2>3 DEF LearnNext
<1> QED BY <1>1, <1>2, LearnInductive, PTL DEF LearnSpec

(***************************************************************************)
(* At most one enrollment per learner and path, although completions now   *)
(* write the progress rows that decide it.                                 *)
(***************************************************************************)
THEOREM OneEnrollmentWhileCompleting == LearnSpec => []OneEnrollmentPerPath
<1>1. EnrollInvariant => OneEnrollmentPerPath BY DEF EnrollInvariant
<1> QED BY <1>1, EnrollmentWhileCompleting, PTL

(***************************************************************************)
(* A progress row of a path, of its courses or of a standalone course      *)
(* still means that the learner is enrolled: the upserts of a cascade make *)
(* no row for anybody else.                                                *)
(***************************************************************************)
THEOREM SeededWhileCompleting == LearnSpec => []EnrolledIffSeeded
<1>1. EnrollInvariant => EnrolledIffSeeded BY DEF EnrollInvariant
<1> QED BY <1>1, EnrollmentWhileCompleting, PTL

(***************************************************************************)
(* Nobody is refused because of a progress row that a cascade wrote for a  *)
(* learner who is not enrolled.                                            *)
(***************************************************************************)
THEOREM RefusalsWhileCompleting == LearnSpec => RefusedOnlyWhenEnrolled
<1>1. LearnInvariant /\ EnrollInvariant /\ [LearnNext]_allVars =>
        [\A e \in Enrollers :
           answer'[e] \in {"conflict", "uniqueViolation"} /\ answer[e] = "none" =>
             IF Scope(e) \in Paths
             THEN pathEnrollment[<<Learner(e), Scope(e)>>] > 0
             ELSE <<Learner(e), Scope(e)>> \in courseEnrollment]_evars
  <2> SUFFICES ASSUME LearnInvariant, EnrollInvariant, [LearnNext]_allVars,
                      NEW e \in Enrollers,
                      answer'[e] \in {"conflict", "uniqueViolation"}, answer[e] = "none"
               PROVE  LearnerEnrolled(e)
    BY DEF LearnerEnrolled
  <2>1. CASE Completing BY <2>1, CompletingSeeds
  <2>2. CASE Enrolling BY <2>2, RefusalsNext DEF Enrolling
  <2>3. CASE UNCHANGED allVars BY <2>3 DEF allVars, enrollVars
  <2> QED BY <2>1, <2>2, <2>3 DEF LearnNext
<1> QED
  BY <1>1, LearnInductive, EnrollmentWhileCompleting, PTL DEF LearnSpec, RefusedOnlyWhenEnrolled
=============================================================================
