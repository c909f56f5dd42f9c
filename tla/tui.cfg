SPECIFICATION Spec
CONSTANTS
  Requests = {r1, r2}
  None = None
  MaxPending = 1
  MaxQueued = 2
  MaxAsks = 2
  MaxLinks = 2
INVARIANTS Consistent OneAnswer
PROPERTIES Released
CHECK_DEADLOCK FALSE
