SPECIFICATION Spec
CONSTANTS
  Dir = {d1, d2, d3}
  d1 = d1
  d2 = d2
  d3 = d3
  MaxBuilds = 3
  InPlace = FALSE
  Records <- MCRecords
  Format <- MCFormat
  FormatVersion = 4
INVARIANTS
  FilesTypeOK
  OpenIsOneBuild
