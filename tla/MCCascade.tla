----------------------------- MODULE MCCascade -----------------------------
(***************************************************************************)
(* Small contents for TLC.  "Catalogue": a path of two courses, one with   *)
(* two lessons in a section and one in another, one with a single lesson   *)
(* and a section without lessons.  "Course": a standalone course with two  *)
(* sections, of two lessons and of one.  "Path": a path of two courses of  *)
(* one lesson each.                                                        *)
(***************************************************************************)
EXTENDS CascadeInvariant, TLC

CONSTANTS l1, l2, l3, l4, s1, s2, s3, s4, c1, c2, p1

CatalogueSectionOf == l1 :> s1 @@ l2 :> s1 @@ l3 :> s2 @@ l4 :> s3
CatalogueCourseOf == s1 :> c1 @@ s2 :> c1 @@ s3 :> c2 @@ s4 :> c2
CataloguePathOf == c1 :> p1 @@ c2 :> p1

CourseSectionOf == l1 :> s1 @@ l2 :> s1 @@ l3 :> s2
CourseCourseOf == s1 :> c1 @@ s2 :> c1
CoursePathOf == c1 :> NoPath

PathSectionOf == l1 :> s1 @@ l2 :> s2
PathCourseOf == s1 :> c1 @@ s2 :> c2
PathPathOf == c1 :> p1 @@ c2 :> p1

Symmetry == Permutations(Requests)
=============================================================================
