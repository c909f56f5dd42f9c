SPECIFICATION Spec
CONSTANTS
  a1 = a1
  a2 = a2
  n1 = n1
  n2 = n2
  q1 = q1
  None = None
  Stop = Stop
  Prompts = {p1}
  Approvals = {a1, a2}
  Inputs = {n1, n2}
  Multi = {n2}
  Questions = {q1}
  Plans <- MCPlans
  MaxTurns = 2
  MaxOut = 1
  MaxCalls = 2
  MaxApprovals = 1
  MaxIn = 1
  MaxMishaps = 1
INVARIANTS Consistent PromptOnce OutcomeTrue
CHECK_DEADLOCK FALSE
