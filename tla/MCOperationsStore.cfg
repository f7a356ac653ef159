SPECIFICATION Spec
CONSTANTS
  c1 = c1
  c2 = c2
  t1 = t1
  t2 = t2
  x1 = x1
  x2 = x2
  None = None
  LegacyOwner = legacy
  Cases = {c1, c2}
  Threads = {t1, t2}
  Owners = {o1, o2}
  Heads = {h0, h1}
  Tokens = {k1, k2}
  Requests = {q1, q2}
  Executions = {e1}
  Keys = {x1, x2}
  InitialHead = h0
  Writes <- MCWrites
  LegacyReceipts <- MCLegacyReceipts
INVARIANTS TypeOK IdentityOneToOne FenceAtHead OneGrantPerKey EffectsAreAuthorised ReceiptsAreHistory
PROPERTIES HistoryIsPermanent FenceIsNotSeized
CHECK_DEADLOCK FALSE
SYMMETRY Symmetry
CONSTRAINT OneAtATime
