SPECIFICATION Spec
CONSTANTS
  a1 = a1
  a2 = a2
  n1 = n1
  n2 = n2
  q1 = q1
  None = None
  Stop = Stop
  Prompts = {}
  Approvals = {}
  Inputs = {}
  Multi = {}
  Questions = {}
  Plans = {}
  MaxTurns = 2
  MaxOut = 1
  MaxCalls = 2
  MaxApprovals = 1
  MaxIn = 1
  MaxMishaps = 1
INVARIANT TurnsEnd
CHECK_DEADLOCK FALSE
