SPECIFICATION Spec
CONSTANTS
  Conns = {c1, c2}
  Requests = {r1, q1}
  Async = {q1}
  Effects = {e1}
  None = None
  MaxFacts = 3
  MaxBreaks = 1
INVARIANTS Rebuilt
CHECK_DEADLOCK FALSE
