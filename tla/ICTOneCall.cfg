CONSTANTS
  k1 = k1
  k2 = k2
  c1 = c1
  c2 = c2
  Keys <- TwoKeys
  Calls <- OneCall
  CallOf <- SameCall
  Threads = {t1}
  Provisional = {180}
  Final = {200, 401}
  ReSendTime <- TwoSends
  TimerD = 1
  RingTimeout = 1
  MaxAge = 1
  MaxResponses <- OneOrTwo
  Reordering = FALSE
SPECIFICATION FairSpec
PROPERTIES EveryInviteAnswered
CHECK_DEADLOCK FALSE
