SPECIFICATION Spec
CONSTANTS
  Conns = {c1, c2}
  Calls = {k1, k2}
  MaxConnections = 1
  OutboxFrames = 2
  InboxItems = 2
  SocketFrames = 1
  Bridges = {1, 2}
  MaxEvents = 1
  MaxConnects = 2
  MaxPending = 1
INVARIANTS Served CodeTrue Reachable
SYMMETRY Alike
CHECK_DEADLOCK FALSE
