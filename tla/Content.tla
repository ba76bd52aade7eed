------------------------------ MODULE Content ------------------------------
(***************************************************************************)
(* The learning content every progress and certificate rule is computed    *)
(* from: lessons in sections in courses, a course in at most one path      *)
(* (a course without a path is "standalone").  No code of the service      *)
(* writes these tables while it serves learners, so they are CONSTANTS.    *)
(***************************************************************************)
EXTENDS Naturals, FiniteSets

CONSTANTS Users, Lessons, Sections, Courses, Paths,
          SectionOf,    \* Lesson.sectionId
          CourseOf,     \* Section.courseId
          PathOf,       \* Course.pathId, NoPath when it is null
          NoPath

ASSUME ContentAssumption ==
  /\ SectionOf \in [Lessons -> Sections]
  /\ CourseOf \in [Sections -> Courses]
  /\ PathOf \in [Courses -> Paths \cup {NoPath}]
  /\ NoPath \notin Paths

ASSUME FiniteContent ==
  /\ IsFiniteSet(Lessons)
  /\ IsFiniteSet(Sections)
  /\ IsFiniteSet(Courses)

\* A last position is scoped to a path or to a standalone course: the two
\* kinds of id never coincide.
ASSUME DisjointScopes == Courses \cap Paths = {}

-----------------------------------------------------------------------------
LessonsIn(s) == {l \in Lessons : SectionOf[l] = s}
SectionsIn(c) == {s \in Sections : CourseOf[s] = c}
CoursesIn(p) == {c \in Courses : PathOf[c] = p}

\* The lessons checkCourseEligibility requires: those of every section.
CourseLessons(c) == {l \in Lessons : CourseOf[SectionOf[l]] = c}

Scopes == Courses \cup Paths

(***************************************************************************)
(* ProgressService.deriveStatus: how every aggregate row gets its status   *)
(* from what it counted.  Nothing counted of nothing is NOT_STARTED.       *)
(***************************************************************************)
DeriveStatus(completed, total) ==
  IF total > 0 /\ completed = total THEN "COMPLETED"
  ELSE IF completed > 0 THEN "IN_PROGRESS"
  ELSE "NOT_STARTED"
=============================================================================
