SPECIFICATION MCSpec
CONSTANTS
  a = a
  b = b
  q = q
  f = f
  g = g
  None = None
  Lots = {a, b, q}
  Facilities = {f, g}
  Datasets <- MCDatasets
  Lot = {lot}
  Place = {north, south}
  Nobody = Nobody
  MaxEvents = 3
  MaxTime = 3
  Moment <- MCMoment
  Borrowed = {2}
  MaxUnits = 1
INVARIANTS CopiesAgree HoldsComeFirst DischargedCasesClose LoadedDataIsAssessable TracesAgree
PROPERTIES KeepsObligations DisposedAsReviewed AppendOnly
SYMMETRY Symmetry
CHECK_DEADLOCK FALSE
