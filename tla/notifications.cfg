CONSTANTS
  s1 = s1
  w1 = w1
  w2 = w2
  Session = {s1}
  Phone = {}
  Call = {}
  Outcome = {"booked", "failed"}
  MaxPrepared = 1
  Nothing = Nothing
  Worker = {w1, w2}
  MaxAttempts = 3
  MishapLimit = 1
  Timely = TRUE
SPECIFICATION FairSpec
CHECK_DEADLOCK FALSE
INVARIANTS
  OneSender
  SentIsTrue
PROPERTIES
  SentIsFinal
  SummarySettled
