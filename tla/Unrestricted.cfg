SPECIFICATION MCSpec
CONSTANTS
  Ord = {0, 1, 2}
  Country = {1, 2}
  NoCountry = 0
  Score = {0, 1, 2}
  ExactBonus = 1
  HomeBonus = 1
  NearBonus = 1
  Limit = 1
  K = 1
  Pool = 3
INVARIANTS
  UnrestrictedTypeOK
  WalkExact
  SampleLossBounded
  NeverOverstated
