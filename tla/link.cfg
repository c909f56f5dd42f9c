SPECIFICATION FairSpec
CONSTANTS
  Conns = {c1, c2}
  Requests = {r1, q1}
  Async = {q1}
  Effects = {e1}
  None = None
  MaxFacts = 4
  MaxBreaks = 1
INVARIANTS Leased RebuiltUnlessMissed EffectTrue
PROPERTIES Leaves
CHECK_DEADLOCK FALSE
