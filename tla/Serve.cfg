SPECIFICATION FairServeSpec
CONSTANTS
  Request = {r1, r2, r3, r4}
  Overdue = {r3, r4}
  r1 = r1
  r2 = r2
  r3 = r3
  r4 = r4
INVARIANTS
  ServeTypeOK
  OthersFinish
PROPERTIES
  SignalExits
