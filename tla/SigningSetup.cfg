SPECIFICATION Spec
CONSTANTS
  Keys = {1, 2}
  Algos = {1, 2}
  MAX_SEI_DATA_BUFFER = 2
  MaxNalus = 4
  MaxCalls = 5
INVARIANTS
  SeisCanBeVerified
  NalusAreHashedWhole
CHECK_DEADLOCK FALSE
