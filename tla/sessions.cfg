CONSTANTS
  s1 = s1
  s2 = s2
  s3 = s3
  n1 = n1
  n2 = n2
  c1 = c1
  c2 = c2
  Session = {s1, s2, s3}
  Phone = {n1, n2}
  Call = {c1, c2}
  Outcome = {"booked", "failed"}
  MaxPrepared = 2
  Nothing = Nothing
SPECIFICATION SessionsSpec
SYMMETRY Interchangeable
CHECK_DEADLOCK FALSE
INVARIANTS
  EventsTellTheStory
  RightSession
PROPERTIES
  NeverAStrangers
  FirstOutcomeWins
