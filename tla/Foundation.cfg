SPECIFICATION Spec
CONSTANTS
  Rules = {"H", "X"}
  Tokens = {t1, t2}
  Outcomes = {"0", "1"}
  Start = "start"
  NoRule = "none"
  Possible <- MCPossible
  Loss <- MCLoss
  Orthogonal <- MCOrthogonal
  MaxEvents = 5
  MaxDeltas = 3
SYMMETRY TokenSymmetry
INVARIANTS
  TimelineTells
  LossIsTracked
  StrictHistory
  SealsHold
  CollapseStays
CHECK_DEADLOCK FALSE
