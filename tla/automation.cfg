CONSTANTS
  x1 = x1
  x2 = x2
  booked = booked
  reply = reply
  followUp = followUp
  reminder = reminder
  Action = {followUp, reminder}
  Expiring = {reminder}
  Withdrawable = {reminder}
  Executor = {x1, x2}
  MaxTries = 2
  MishapLimit = 1
  Timely = TRUE
  Nothing = Nothing
  State = {"awaiting", "reminded", "done"}
  Initial = "awaiting"
  Final = {"done"}
  Event = {booked, reply}
  StartEvent = booked
  Transition <- MCTransition
  StepOf <- MCStepOf
  Timeout = followUp
  MaxStepTries = 2
SPECIFICATION MCFairSpec
CHECK_DEADLOCK FALSE
INVARIANTS
  OneExecutor
  OneStepHolder
  StartedInFull
PROPERTIES
  MovesAreNew
  FollowedUp
  ActionsSettle
