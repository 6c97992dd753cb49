CONSTANTS
  k1 = k1
  Keys <- OneKey
  Cancels <- OneKey
  Threads = {t1, t2}
  Provisional = {183}
  Final = {200, 401}
  ReSendTime <- ThreeSends
  DeleteTime = 2
  MaxAge = 3
  MaxDelay = 1
SPECIFICATION FairSpec
INVARIANT Consistent
PROPERTY RequestsEnd
CHECK_DEADLOCK FALSE
