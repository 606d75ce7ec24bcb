CONSTANTS
  FLI_COUNT = 7
  PoolSize = 168
  Requests = {24, 32, 120}
  MaxLive = 3
  MaxFailed = 1
SPECIFICATION Spec
INVARIANT AllocationsFit
CHECK_DEADLOCK FALSE
