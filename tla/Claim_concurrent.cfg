SPECIFICATION Spec
CONSTANTS
  Threads = {t1, t2}
  NoThread = NoThread
  MaxRequests = 1
  MaxNodes = 2
  Outcomes = {FALSE}
  Locking = FALSE
INVARIANTS
  AppliedInSequence
CHECK_DEADLOCK FALSE
