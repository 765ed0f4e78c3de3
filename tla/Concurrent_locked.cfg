SPECIFICATION FairSpec
CONSTANTS
  Threads = {t1, t2, t3}
  NoThread = NoThread
  MaxRequests = 2
  MaxNodes = 2
  Outcomes = {TRUE, FALSE}
  Locking = TRUE
INVARIANTS
  ResponsesAreTruthful
  QuietConsensus
PROPERTIES
  EveryRequestIsAnswered
  ImplementsSequencedLog
CHECK_DEADLOCK FALSE
