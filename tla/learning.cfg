CONSTANTS
  l1 = l1  l2 = l2  l3 = l3  l4 = l4
  s1 = s1  s2 = s2  s3 = s3  s4 = s4
  c1 = c1  c2 = c2  c3 = c3  p1 = p1
  NoPath = NoPath
  NoRow = NoRow
  Free = Free
  Users = {u1}
  Lessons = {l1, l2, l3, l4}
  Sections = {s1, s2, s3, s4}
  Courses = {c1, c2, c3}
  Paths = {p1}
  SectionOf <- TheSectionOf
  CourseOf <- TheCourseOf
  PathOf <- ThePathOf
  Transactions = {r1, e1}
  Requests = {r1}
  Enrollers = {e1}
SPECIFICATION LearnSpec
INVARIANTS TypeOK AggregatesExact PositionInScope CompletedOnlyWhenEnrolled
PROPERTIES SeedsKeepProgress
