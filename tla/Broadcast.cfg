SPECIFICATION FairBroadcastSpec
CONSTANTS
  ClientIds = {a, b}
  MaxConnections = 2
  MaxEvents = 2
INVARIANTS
  DeliveredInOrder
  ReachableUnlessReconnected
PROPERTIES
  NobodyIsSkipped
  BroadcastEnds
CHECK_DEADLOCK FALSE
