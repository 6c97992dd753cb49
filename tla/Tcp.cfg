CONSTANTS
  p1 = p1
  p2 = p2
  m1 = m1
  m2 = m2
  Peers = {p1, p2}
  Workers = {0, 1}
  Messages = {m1, m2}
  Dest <- ToOnePeer
  MaxSocket = 1
  Fds = {3, 4, 5}
  Transports = {"tcp", "tls"}
SPECIFICATION FairSpec
INVARIANTS Consistent RightPeer OneOwner OutcomeExclusive
PROPERTY StopReturns
CHECK_DEADLOCK FALSE
