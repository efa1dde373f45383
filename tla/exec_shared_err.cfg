SPECIFICATION ExecSpec
CONSTANTS
  Ids = {i1, i2}
  Codes = {0, 3}
INVARIANTS
  FailureReported
CHECK_DEADLOCK FALSE
