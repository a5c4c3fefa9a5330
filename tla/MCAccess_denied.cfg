SPECIFICATION Spec
CONSTANTS
  UserIds = {u1}
  AccessLife = 1
  RefreshLife = 2
  MaxTime = 2
  Slots = {s1}
  None = None
INVARIANTS
  DenialIs403
