SPECIFICATION BenchFairSpec
CONSTANTS
  NumSamples = 3
  NumOps = 2
  Workers = {w1, w2}
INVARIANTS
  ResultsComplete
PROPERTIES
  BenchmarkEnds
CHECK_DEADLOCK FALSE
