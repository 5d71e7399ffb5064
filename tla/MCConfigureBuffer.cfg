SPECIFICATION FairSpec
CONSTANTS
  l1 = l1
  l2 = l2
  l3 = l3
  v1 = v1
  v2 = v2
  Locks <- ThreeLocks
  Targets <- FrameAndClient
  Fields <- PositionAndStack
  Values <- TwoValues
INVARIANTS
  TypeOK
  LockCountExact
  HeldByLock
  NothingForgotten
PROPERTIES
  ServiceSpec
  DispatchRearmsOthers
  HeldIsSent
