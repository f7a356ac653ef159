SPECIFICATION Spec
CONSTANTS
  Procs = {p1, p2}
  Starters = {p1}
  Case = case
  Thread = thread1
  Owner = owner1
  LegacyOwner = legacy
  None = None
  Writes = 1
  Answers = {"approve", "confirm", "cancel", "retry"}
  LeaseOutlastsCalls = FALSE
  MaxCheckpoint = 12
  MaxToken = 5
  MaxFaults = 0
INVARIANTS OneCallRunsTheGraph
CHECK_DEADLOCK FALSE
