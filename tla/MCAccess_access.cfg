SPECIFICATION Spec
CONSTANTS
  UserIds = {u1, u2}
  AccessLife = 1
  RefreshLife = 2
  MaxTime = 3
  Slots = {s1, s2}
  None = None
SYMMETRY Interchangeable
INVARIANTS
  TypeOK
  GoneLoseAccess
  LoggedOutLoseAccess
