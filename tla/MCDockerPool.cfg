SPECIFICATION FairPoolSpec
CONSTANTS
  u1 = u1
  u2 = u2
  u3 = u3
  k1 = k1
  k2 = k2
  Use <- ThreeUses
  Key = {k1, k2}
  KeyOf <- TwoKeys
  PoolSize = 1
  Free = Free
INVARIANTS
  PoolTypeOK
  WithinCapacity
  OneWorkerPerContainer
  StartsAlone
  NothingForgotten
  WaitersHaveAWaker
  ClosedPoolIsEmpty
PROPERTIES
  WarmContainersKept
  CallsEnd
  ShutdownEnds
CHECK_DEADLOCK FALSE
