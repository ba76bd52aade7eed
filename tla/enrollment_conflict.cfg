CONSTANTS
  l1 = l1  l2 = l2
  s1 = s1  s2 = s2  s3 = s3
  c1 = c1  c2 = c2  c3 = c3  p1 = p1
  NoPath = NoPath
  NoRow = NoRow
  Free = Free
  Users = {u1}
  Lessons = {l1, l2}
  Sections = {s1, s2, s3}
  Courses = {c1, c2, c3}
  Paths = {p1}
  SectionOf <- TheSectionOf
  CourseOf <- TheCourseOf
  PathOf <- ThePathOf
  Transactions = {e1, e2, e3}
  Enrollers = {e1, e2, e3}
SPECIFICATION EnrollSpec
INVARIANT DoubleEnrollIsConflict
