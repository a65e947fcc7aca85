SPECIFICATION Spec
CONSTANTS
  Scenarios <- MCScenarios
  Frequencies = {1, 2}
  FrameLimits = {0, 2}
  UINT_MAX = 9
INVARIANTS
  TypeOK
  EveryNaluIsCovered
  SeisDescribeTheirGops
  LinksFormAChain
  SignedWhenDue
  NothingIsCoveredTwice
  CountersAreConsecutive
CHECK_DEADLOCK FALSE
