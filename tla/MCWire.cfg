\* Two logins, a request of one of them, hang-ups at any time.
SPECIFICATION FairSpec
CONSTANTS
  Conns = {k1, k2}
  NoConn = NoConn
  Kinds = {"join", "leave", "role", "kick"}
  Buffer = 2
  MaxRequests = 1
INVARIANTS
  NobodyMissesAChange
  RegisteredServed
PROPERTIES
  HandlersRest
CHECK_DEADLOCK FALSE
