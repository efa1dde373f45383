SPECIFICATION Spec
CONSTANTS
  Procs = {p1, p2}
  Retries = Retries
  debug = debug
  Zero = Zero
  FlagDefault = FlagDefault
  v1 = v1
  Absent = Absent
  Missing = Missing
  Invalid = Invalid
  Bad = Bad
  Options <- MCOptions
  Values <- MCValues
  Files <- MCFiles
  Fallbacks <- MCFallbacks
  Requests <- MCRequests
CHECK_DEADLOCK FALSE
INVARIANTS
  NoInventedValue
  SetIsAllOrNothing
