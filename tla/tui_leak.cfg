SPECIFICATION Spec
CONSTANTS
  Requests = {r1, r2}
  None = None
  MaxPending = 1
  MaxQueued = 2
  MaxAsks = 2
  MaxLinks = 1
INVARIANT NoLeak
CHECK_DEADLOCK FALSE
