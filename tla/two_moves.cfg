CONSTANTS
  c1 = c1
  c2 = c2
  c3 = c3
  k1 = k1
  s1 = s1
  s2 = s2
  s3 = s3
  r1 = r1
  r2 = r2
  r3 = r3
  p1 = p1
  p2 = p2
  none = none
  Context = {c1, c2, c3}
  Calendar = {k1}
  Start = {s1, s2, s3}
  None = none
  Request = {r1, r2}
  Reconciler = {p1}
  Native = {TRUE}
  Reschedulable = {}
  Fillable = {}
  Deletable = {}
  Movable = {}
  Limit = 50
  WritesLand = TRUE
  RequestsTimely = TRUE
  TokensKeptApart = TRUE
SPECIFICATION TwoMovesSpec
SYMMETRY RequestSymmetry
INVARIANT NeverTwoLive
CHECK_DEADLOCK FALSE
