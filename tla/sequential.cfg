SPECIFICATION Spec
CONSTANTS
  Containers = {c1, c2}
  MaxIds = 3
INVARIANTS
  DoneInOrder
  StopAllStopsAll
CHECK_DEADLOCK FALSE
