SPECIFICATION FairSpec
CONSTANTS
  u1 = u1
  u2 = u2
  e1 = e1
  e2 = e2
  p1 = p1
  p2 = p2
  None = None
  UserIds = {u1}
  Emails = {e1}
  Passwords = {p1}
  Tokens = {t1, t2}
  Slots = {s1, s2}
  Routes <- LiveRoutes
  SeedUsers <- OnePending
PROPERTIES
  EveryRequestEnds
