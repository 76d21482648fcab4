CONSTANTS
  workflow = workflow
  notices = notices
  p1 = p1
  p2 = p2
  EventId = {1, 2}
  Registered <- Consumers
  Unwanted <- Unsubscribed
  Process = {p1, p2}
  MaxAttempts = 2
  PageLimit = 1
  MishapLimit = 1
  HandlersTimely = TRUE
  CommitsAnswered = TRUE
SPECIFICATION FairSpec
INVARIANTS
  OneProcessor
PROPERTIES
  PromiseKept
  EverySettled
