SPECIFICATION ExecFairSpec
CONSTANTS
  Ids = {i1, i2, i3}
  Codes = {0, 3}
INVARIANTS
  SyncExitStatus
PROPERTIES
  ExitsWhenAllEnd
CHECK_DEADLOCK FALSE
