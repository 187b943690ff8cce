SPECIFICATION MCSpec
CONSTANTS
  Ord = {0, 1, 2, 3}
  Country = {1, 2}
  NoCountry = 0
  Score = {0, 2}
  ExactBonus = 1
  HomeBonus = 1
  NearBonus = 1
  Limit = 2
  K = 2
  HotK = 2
INVARIANTS
  RestrictedTypeOK
  ExactlyTheBest
