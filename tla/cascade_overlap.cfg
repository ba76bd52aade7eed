CONSTANTS
  l1 = l1  l2 = l2  l3 = l3  l4 = l4
  s1 = s1  s2 = s2  s3 = s3  s4 = s4
  c1 = c1  c2 = c2  p1 = p1
  NoPath = NoPath
  NoRow = NoRow
  Free = Free
  Users = {u1}
  Transactions = {r1, r2}
  Requests = {r1, r2}
  Lessons = {l1, l2, l3}
  Sections = {s1, s2}
  Courses = {c1}
  Paths = {}
  SectionOf <- CourseSectionOf
  CourseOf <- CourseCourseOf
  PathOf <- CoursePathOf
SPECIFICATION Spec
INVARIANTS AggregatesExact
