SPECIFICATION MCSpec
CONSTANTS
  Ord = {0, 1, 2, 3}
  Country = {0, 1}
  Class = {0, 1, 2, 3}
  Name <- MCName
  Penalty <- MCPenalty
  Score <- MCScore
  Fine = 2
  HotThreshold = 2
  MaxPrefixLen = 2
  K = 2
  Column <- MCColumn
  Fold <- MCFold
  NoName = ""
  ProminenceOf <- MCProminence
  Admin1 <- MCAdmin1
  NoRegion = ""
  Filter <- MCFilter
  PseudoLanguages = {"link"}
  MaxKeyLen = 3
  MaxCountries = 2
  Width = 10
  Query <- MCQuery
INVARIANTS
  BuildTypeOK
  RecordsReadBack
  PlacesFound
  FailsForCause
  NeverRefused
  HotPrefixesExact
  ShortlistsRight
  PostingsRight
  WalksFind
  ListsMatchWalks
