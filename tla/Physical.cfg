SPECIFICATION Spec
CONSTANTS
  MaxNodes = 2
  InitialNodes = 1
  ZoneCount = 2
  ProposalIds = {p1, p2, p3}
  Malformed = Malformed
  Batches <- MCBatches
SYMMETRY Interchangeable
INVARIANTS
  ReplayReproduces
  ExecutedOnceInOrder
PROPERTIES
  DivergenceIsNoticed
  NothingAfterRejection
CHECK_DEADLOCK FALSE
