SPECIFICATION Spec
CONSTANTS
  SYNC = SYNC
  Bow = bow
  Stern = stern
  Zones = {bow, stern}
  Full = 2
  Payloads <- MCPayloads
  InitState <- Clean
  Apply <- ApplyEventPayload
  Raises <- PayloadRaises
  MaxNodes = 2
  MaxEvents = 3
  MaxCalls = 3
  InitialNodes = 1
  Steps <- WithSync
  ExcludeSets <- AtMostOneNode
  DelaySets <- AnyNodes
  HaltOnRejection = FALSE
  HaltOnDivergence = FALSE
  Enforcing = FALSE
INVARIANTS
  NoDuplicateApplication
  EpochOrder
  BufferFlushes
  AcksAreTruthful
CHECK_DEADLOCK FALSE
