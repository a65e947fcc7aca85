SPECIFICATION Spec
CONSTANTS
  Scenarios <- TwoGops
  Frequencies = {2}
  FrameLimits = {2}
  UINT_MAX = 9
INVARIANT
  LimitIsKept
CHECK_DEADLOCK FALSE
