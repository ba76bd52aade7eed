CONSTANTS
  Readers = {r1}
  Editors = {e1, e2}
  Admins = {q1, q2}
  Ids = {k1, k2}
  Names = {n1, n2}
  Slugs = {g1, g2}
  InUse = {k1}
  Keep = Keep
  Writers = {w1, w2}
  Items = {f1, f2}
  MaxOrder = 3
  Free = Free
  Replacers = {x1, x2}
  Tags = {t1, t2}
  Applicants = {u1, u2, u3}
  Nobody = Nobody
  Session = Session
  Plan = TRUE
SPECIFICATION Spec
INVARIANTS StaleOnlyIfRaced NamesDoubledOnlyWhenOvertaken TiesOnlyWhenOvertaken LastReorderStands
  LastListStands OneSubmissionWins SeededOnce OnlyTakenKeysStopIt
PROPERTIES ListsCatchUp ImplementsMembership
