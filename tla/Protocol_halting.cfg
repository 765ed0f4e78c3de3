SPECIFICATION Spec
CONSTANTS
  SYNC = SYNC
  Bow = bow
  Stern = stern
  Zones = {bow, stern}
  Full = 2
  Payloads <- MCPayloads
  InitState <- Clean
  Apply <- ApplyEventPayload
  Raises <- PayloadRaises
  MaxNodes = 2
  MaxEvents = 3
  MaxCalls = 3
  InitialNodes = 2
  Steps <- WithSync
  ExcludeSets <- NoNodes
  DelaySets <- AnyNodes
  HaltOnRejection = TRUE
  HaltOnDivergence = TRUE
  Enforcing = TRUE
INVARIANTS
  NothingLost
PROPERTIES
  HaltIsFinal
CHECK_DEADLOCK FALSE
