----------------------------- MODULE MCLearning -----------------------------
(***************************************************************************)
(* A path of two courses, one with two lessons in a section and one with a *)
(* single lesson, and a standalone course whose second section is empty.   *)
(***************************************************************************)
EXTENDS Learning, TLC

CONSTANTS l1, l2, l3, l4, s1, s2, s3, s4, c1, c2, c3, p1

TheSectionOf == l1 :> s1 @@ l2 :> s1 @@ l3 :> s2 @@ l4 :> s3
TheCourseOf == s1 :> c1 @@ s2 :> c2 @@ s3 :> c3 @@ s4 :> c3
ThePathOf == c1 :> p1 @@ c2 :> p1 @@ c3 :> NoPath
=============================================================================
