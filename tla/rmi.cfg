SPECIFICATION Spec
CONSTANTS
  i1 = i1
  i2 = i2
  t1 = t1
  t2 = t2
  Images = {i1, i2}
  Tag <- MCTag
  Containers = {c1}
INVARIANTS
  InUseSpared
  SuccessMeansGone
CHECK_DEADLOCK FALSE
