SPECIFICATION FairSpec
CONSTANTS
  Containers = {c1, c2}
  Jobs = {j1, j2}
INVARIANTS
  NilMeansRemoved
  RunningSpared
  LogsOutliveContainer
PROPERTIES
  RemoveReturns
CHECK_DEADLOCK FALSE
