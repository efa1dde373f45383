SPECIFICATION FairSpec
CONSTANTS
  Calls = {c1, c2}
  MaxSignals = 3
INVARIANTS
  ExitNeedsTwoSignals
PROPERTIES
  ImplementsRpcCall
  InterruptReleasesCallers
  NoGoroutineLeak
  SecondSignalExits
CHECK_DEADLOCK FALSE
