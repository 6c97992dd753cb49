CONSTANTS
  Caller = caller
  Callee = callee
  Threads = {t1, t2}
  MaxSeq = 3
  Scenarios <- AllScenarios
SPECIFICATION FairSpec
INVARIANTS Consistent NothingAfterEnd AcksMatch
PROPERTIES AnsweredOnce StoppedCallEnds
CHECK_DEADLOCK FALSE
