SPECIFICATION StreamSpec
CONSTANTS
  Scenarios <- TunedInLate
  Frequencies = {1}
  FrameLimits = {0}
  UINT_MAX = 9
  CounterRange = 8
INVARIANT
  TunedInIsNotRejected
CHECK_DEADLOCK FALSE
