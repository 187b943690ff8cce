SPECIFICATION LiveFairSpec
CONSTANTS
  Char = {"a", " "}
  Space = " "
  MaxResults = 2
  Rows = 3
  FirstRow = 3
  MaxPresses = 3
INVARIANTS
  LiveTypeOK
  ScreenMatches
PROPERTIES
  AcceptsWhatIsShown
  HangupEnds
