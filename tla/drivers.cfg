SPECIFICATION Spec
CONSTANTS
  Prompts = {p1, p2}
  Requests = {r1, r2}
  None = None
  Offers <- MCOffers
  MaxPending = 1
  MaxOut = 1
INVARIANTS Published RequestsAnswered OutcomeTrue TurnsKept
SYMMETRY Symmetry
CHECK_DEADLOCK FALSE
