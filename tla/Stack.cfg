CONSTANTS
  Workers = {w1, w2}
  Receivers = {r1, r2}
  MaxMessages = 3
  MaxStarts = 2
  Settled = TRUE
SPECIFICATION FairSpec
INVARIANT Consistent
PROPERTIES MessagesHandled OnlyWaitersHoldStop
CHECK_DEADLOCK FALSE
