SPECIFICATION EvaluationSpec
CONSTANTS
  a = a
  b = b
  q = q
  f = f
  g = g
  None = None
  Lots = {a, b, q}
  Facilities = {f, g}
  Datasets <- MCDatasets
  MaxEdits = 1
  Watched = {0, 1, 2, 3, 4, 5, 6, 7}
  MaxCheckpoints = 10
  DemoWordings = {0, 1}
  LotOrder <- MCLotOrder
  FacilityOrder <- MCFacilityOrder
INVARIANTS CopyTracksLedger NextActionIsAccepted EndsAgree ClosurePanelIsTrue CountersAreTrue
PROPERTIES PreviewIsExact DecidedOnTheRecordShown WritesAreReviewed
CHECK_DEADLOCK FALSE
