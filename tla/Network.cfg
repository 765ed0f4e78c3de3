SPECIFICATION Spec
CONSTANTS
  Nodes = {A, B, C}
  Rules = {"H"}
  Tokens = {t1, t2}
  NoArgument = NoArgument
  MaxCalls = 3
  Definite <- MCDefinite
SYMMETRY Interchangeable
INVARIANTS
  AppliedOnce
  Converged
PROPERTIES
  ClockOrder
  SealIsFinal
CHECK_DEADLOCK FALSE
