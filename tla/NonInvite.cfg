CONSTANTS
  k1 = k1
  Keys <- OneKey
  Cancels <- OneKey
  Threads = {c1}
  ServerThreads = {s1, s2}
  Provisional = {183}
  Final = {200, 403}
  ReSendTime <- Sends
  DeleteTime = 20
  TimerJ = 128
  MaxAge = 128
  MaxDelay = 1
SPECIFICATION FairExchange
PROPERTIES ImplementsRequest AnsweredTransactionsEnd
CHECK_DEADLOCK FALSE
