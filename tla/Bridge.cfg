CONSTANTS
  Incoming = {1, 2}
  Outgoing = {3, 4, 5}
  Ports = {4, 8}
  Threads = {t1, t2}
  Scenarios <- AllScenarios
SPECIFICATION FairSpec
INVARIANTS Consistent NobodyAlone RelayLasts NothingLeft
PROPERTY CalleesEnd
CHECK_DEADLOCK FALSE
