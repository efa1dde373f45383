SPECIFICATION RunFairSpec
CONSTANTS
  Images = 2
INVARIANTS
  EffectsArePrefix
PROPERTIES
  InterruptEnds
CHECK_DEADLOCK FALSE
