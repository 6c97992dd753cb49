CONSTANTS
  q1 = q1
  q2 = q2
  a1 = a1
  ok = ok
  refused = refused
  error = error
  Messages = {q1, q2, a1, ok, refused, error}
  Status <- Codes
  Nil = Nil
  Connectors = {1}
  Roles = {"IST", "NICT"}
  Transports = {"udp", "tls"}
SPECIFICATION FairSpec
INVARIANTS Consistent UsedIsLive StopFreesAll
PROPERTY QueueDrains
CHECK_DEADLOCK FALSE
