SPECIFICATION Spec
CONSTANTS
  Suite <- NriSuite
  Plans <- MCPlans
CHECK_DEADLOCK FALSE
INVARIANTS
  NoFalseAlarm
  PassMeansPromiseKept
  NoPodLeftBehind
  FailuresAreOwn
PROPERTIES
  NoContainerLost
  EverySpecEnds
  RuntimeLetGo
