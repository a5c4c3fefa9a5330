SPECIFICATION FairSpec
CONSTANTS
  f1 = f1
  f2 = f2
  l1 = l1
  x1 = x1
  u1 = u1
  u2 = u2
  None = None
  UserIds = {u1, u2}
  FormIds = {f1, f2, f3}
  LaudoIds = {l1}
  FileIds = {x1}
  Calls = {c1, c2}
  Headers <- OneSender
  Routes <- EveryRoute
  SeedRows <- OneOfEach
CHECK_DEADLOCK FALSE
INVARIANTS
  TypeOK
  LaudosKeepForm
  LogsAgreeWithRows
  UnloggedHasCause
  StatusIsHonest
  OneDeletion
  LogsKeepUser
  FilesKeepUser
PROPERTIES
  EveryCallEnds
