SPECIFICATION Spec
CONSTANTS
  Procs = {p1}
  Starters = {p1}
  Case = case
  Thread = thread1
  Owner = owner1
  LegacyOwner = legacy
  None = None
  Writes = 1
  Answers = {"approve", "confirm", "cancel", "retry"}
  LeaseOutlastsCalls = TRUE
  MaxCheckpoint = 14
  MaxToken = 6
  MaxFaults = 0
INVARIANTS RetryIsAuthorised
CHECK_DEADLOCK FALSE
