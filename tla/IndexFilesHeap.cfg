SPECIFICATION Spec
CONSTANTS
  Dir = {d1}
  d1 = d1
  MaxBuilds = 3
  InPlace = TRUE
  Records <- MCRecords
  Format <- MCFormat
  FormatVersion = 4
INVARIANT SnapshotFixed
