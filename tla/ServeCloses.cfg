SPECIFICATION ServeSpec
CONSTANTS
  Request = {r1, r2}
  Overdue = {r1}
  r1 = r1
  r2 = r2
INVARIANT CloseWaitsForSearches
