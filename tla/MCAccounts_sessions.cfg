SPECIFICATION Spec
CONSTANTS
  u1 = u1
  u2 = u2
  e1 = e1
  e2 = e2
  p1 = p1
  p2 = p2
  None = None
  UserIds = {u1, u2}
  Emails = {e1, e2, e3}
  Passwords = {p1}
  Tokens = {t1}
  Slots = {s1, s2}
  Routes <- SessionRoutes
  SeedUsers <- AdminAndPending
SYMMETRY Interchangeable
INVARIANTS
  RefreshKeepsIdentity
PROPERTIES
  SessionNeedsCredential
