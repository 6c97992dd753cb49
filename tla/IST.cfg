CONSTANTS
  k1 = k1
  k2 = k2
  c1 = c1
  Calls <- OneCall
  RequestOf <- ReInvites
  DeleteTime = 1
  MaxAge = 1
  Keys <- TwoKeys
  Threads = {t1, t2}
  Provisional = {}
  Final = {200, 401}
  ReSendTime <- TwoSends
  MaxCopies <- TwoOrOne
SPECIFICATION FairSpec
INVARIANT Consistent
PROPERTY AnsweredTransactionsEnd
CHECK_DEADLOCK FALSE
