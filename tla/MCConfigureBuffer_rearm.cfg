SPECIFICATION Spec
CONSTANTS
  l1 = l1
  l2 = l2
  l3 = l3
  v1 = v1
  v2 = v2
  Locks <- TwoLocks
  Targets <- EveryTarget
  Fields <- PositionAndStack
  Values <- TwoValues
PROPERTY RearmedOnRelease
