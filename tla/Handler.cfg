SPECIFICATION Spec
CONSTANTS
  Call = {c1, c2}
  Transformer = {t1, t2}
  NoTransformer = none
  Text <- MCText
  NoText = ""
  Plain <- MCPlain
  Key <- MCKey
  Malformed = {"?"}
  NoQuery = ""
  Request <- MCRequest
  Upper <- MCUpper
  Config <- MCConfig
  MaxCached = 1
INVARIANTS
  HandlerTypeOK
  FoldsOwn
  AnswersOwn
  FailuresPass
  NoOtherOrigin
SYMMETRY Alike
