SPECIFICATION FairSpec
CONSTANTS
  Sessions = {s1, s2}
  Approvals = {a1, a2}
  None = None
  MaxBlocks = 1
  MaxPresses = 2
  MaxSpeech = 1
  MaxEvents = 1
INVARIANTS Answered Addressed Hushed
PROPERTIES ComesBack
CHECK_DEADLOCK FALSE
