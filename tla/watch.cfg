SPECIFICATION Spec
CONSTANTS
  e1 = e1
  e2 = e2
  Endpoints = {e1, e2}
  Defaults <- MCDefaults
  Unset = Unset
  Nowhere = Nowhere
  Commands <- MCCommands
  MaxDials = 7
  MaxFlips = 1
  Objects = {o1}
  Width = 8
  MaxClock = 3
  MaxEvents = 2
CHECK_DEADLOCK FALSE
INVARIANTS
  ConnectsAsAsked
  PatienceAsAsked
  SharesAreTrue
  OneLateScreen
  EventsComplete
PROPERTIES
  WatchEnds
