SPECIFICATION StreamSpec
CONSTANTS
  Scenarios <- IntactAndDamaged
  Frequencies = {1, 2}
  FrameLimits = {0, 2}
  UINT_MAX = 9
  CounterRange = 8
INVARIANTS
  StreamTypeOK
  UntouchedIsAuthentic
  EndIsValidated
  BacklogIsBounded
  NoChangedNaluIsValid
  NoDanglingSei
  ReceivedIsAccountedFor
  OverallOkIsEarned
PROPERTY
  NotOkStays
CHECK_DEADLOCK FALSE
