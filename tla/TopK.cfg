SPECIFICATION Spec
CONSTANTS
  Ord = {0, 1, 2, 3, 4}
  Score = {1, 2, 3, 4}
  K = 4
INVARIANTS
  TopKTypeOK
  PosIsInverse
  HeapOrder
  DrainsBestFirst
  KeepsTheBest
PROPERTY
  FollowsRetention
