SPECIFICATION Spec
CONSTANTS
  SYNC = SYNC
  Bow = bow
  Stern = stern
  Zones = {bow, stern}
  Full = 2
  Payloads <- MCPayloads
  InitState <- Clean
  Apply <- ApplyEventPayload
  Raises <- PayloadRaises
  MaxNodes = 2
  MaxEvents = 3
  MaxCalls = 1
  InitialNodes = 1
  ExcludeSets <- FirstNode
  DelaySets <- AtMostOneNode
  MaxSnapshots = 1
INVARIANTS
  MergeCatchesUp
  MergeReportsAreTrue
  SnapshotsAgree
PROPERTIES
  ImplementsSequencedLog
CHECK_DEADLOCK FALSE
