SPECIFICATION Spec
CONSTANTS
  Procs = {p1, p2}
  Starters = {p1, p2}
  Case = case
  Thread = thread1
  Owner = owner1
  LegacyOwner = legacy
  None = None
  Writes = 1
  Answers = {"approve", "confirm", "cancel", "retry"}
  LeaseOutlastsCalls = TRUE
  MaxCheckpoint = 12
  MaxToken = 5
  MaxFaults = 0
INVARIANTS CheckpointKeepsItsIdentity
CHECK_DEADLOCK FALSE
