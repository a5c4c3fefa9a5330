SPECIFICATION Spec
CONSTANTS
  u1 = u1
  u2 = u2
  e1 = e1
  e2 = e2
  k1 = k1
  None = None
  UserIds = {u1, u2}
  Emails = {e1, e2}
  Codes = {k1, k2}
  Calls = {c1, c2, c3}
  SeedUsers <- TwoUsers
  SeedCodes <- OneCode
SYMMETRY CallsAlike
CHECK_DEADLOCK FALSE
INVARIANTS
  TypeOK
  CodesKeepUser
  OneSignInPerCode
  ErrorAfterSessionHasCause
PROPERTIES
  DryForGood
  StaleForGood
