SPECIFICATION StreamSpec
CONSTANTS
  Scenarios <- LosesOne
  Frequencies = {1}
  FrameLimits = {0}
  UINT_MAX = 9
  CounterRange = 8
INVARIANT
  OkMeansNoneFailed
CHECK_DEADLOCK FALSE
