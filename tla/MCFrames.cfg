\* Two logins and a request.
SPECIFICATION Spec
CONSTANTS
  Conns = {k1, k2}
  NoConn = NoConn
  Kinds = {"state"}
  Buffer = 2
  MaxRequests = 1
INVARIANT FramesWhole
