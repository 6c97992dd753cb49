CONSTANTS
  Slots = {1, 2}
  Timeout = 1
  Mins = {0, 2}
  Slack = 0
  Retry = 1
  MaxTries = 1
  MaxTroubles = 1
SPECIFICATION FairRegisterSpec
INVARIANTS RegisterConsistent StopLeavesNothing
PROPERTY LoginAgain
CHECK_DEADLOCK FALSE
