SPECIFICATION FairSpec
CONSTANTS
  Procs = {p1}
  Starters = {p1}
  Case = case
  Thread = thread1
  Owner = owner1
  LegacyOwner = legacy
  None = None
  Writes = 2
  Answers = {"approve", "edit", "reject", "escalate", "confirm", "cancel", "retry"}
  LeaseOutlastsCalls = FALSE
  MaxCheckpoint = 16
  MaxToken = 8
  MaxFaults = 2
INVARIANTS RecordedOrUnknown NeverLockedOut
PROPERTIES SettledCasesStayPut EndedCasesStayPut HeadMovesForward CallsReturn
CHECK_DEADLOCK FALSE
