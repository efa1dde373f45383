SPECIFICATION Spec
CONSTANTS
  Suite <- MCSuite
  Plans <- MCPlans
  Removers <- MCRemovers
CHECK_DEADLOCK FALSE
INVARIANTS
  NoFalseAlarm
  NothingLeftBehind
  PassMeansConforming
  SkippedMeansMissing
PROPERTIES
  EverySpecEnds
