SPECIFICATION LiveSpec
CONSTANTS
  Char = {"a", " "}
  Space = " "
  MaxResults = 2
  Rows = 5
  FirstRow = 3
  MaxPresses = 3
INVARIANT RepaintsInPlace
