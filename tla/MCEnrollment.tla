---------------------------- MODULE MCEnrollment ----------------------------
(***************************************************************************)
(* A path of two courses, one with a section, and a standalone course with *)
(* two sections.                                                           *)
(***************************************************************************)
EXTENDS EnrollmentProperties, TLC

CONSTANTS l1, l2, s1, s2, s3, c1, c2, c3, p1

TheSectionOf == l1 :> s1 @@ l2 :> s2
TheCourseOf == s1 :> c1 @@ s2 :> c3 @@ s3 :> c3
ThePathOf == c1 :> p1 @@ c2 :> p1 @@ c3 :> NoPath
=============================================================================
