SPECIFICATION Spec
CONSTANTS
  p1 = p1
  p2 = p2
  u1 = u1
  u2 = u2
  None = None
  Torn = Torn
  Stranger = Stranger
  User = {u1, u2}
  Proc = {p1, p2}
  MaxIds = 2
  MaxTokens = 3
  MaxCuts = 1
INVARIANTS KeysMatchAccount TokenIsOurs EndedIsCleared AccountHasKeys
PROPERTIES KeystoreKept
SYMMETRY Symmetry
CHECK_DEADLOCK FALSE
