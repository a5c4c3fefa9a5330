SPECIFICATION Spec
CONSTANTS
  a = a
  b = b
  None = None
  Fields <- FileColumns
  Values = {a, b}
  Seed <- SeedFile
  Calls = {c1, c2, c3}
SYMMETRY CallsAlike
CHECK_DEADLOCK FALSE
INVARIANTS
  TypeOK
  LogTellsItsCall
  TrailReplays
