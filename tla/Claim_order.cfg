SPECIFICATION Spec
CONSTANTS
  SYNC = SYNC
  Bow = bow
  Stern = stern
  Zones = {bow, stern}
  Full = 2
  Payloads <- MCPayloads
  InitState <- Clean
  Apply <- ApplyEventPayload
  Raises <- PayloadRaises
  MaxNodes = 2
  MaxEvents = 3
  MaxCalls = 3
  InitialNodes = 2
  Steps <- WellFormedWithSync
  ExcludeSets <- AtMostOneNode
  DelaySets <- NoNodes
  HaltOnRejection = FALSE
  HaltOnDivergence = FALSE
  Enforcing = FALSE
INVARIANTS
  AppliedAfterPredecessor
CHECK_DEADLOCK FALSE
