SPECIFICATION Spec
CONSTANTS
  UserIds = {u1}
  Emails = {e1, e2}
  Calls = {c1}
  None = None
CHECK_DEADLOCK FALSE
INVARIANTS
  EmailConflictIs409
