SPECIFICATION SeiSpec
CONSTANTS
  s1 = s1
  s2 = s2
  Sessions <- OneSession
  Roomy <- OneSession
  Hashes <- MCHashes
  SizeOf <- OneSize
  MAX_BUFFER_LENGTH = 2
  MAX_SEI_DATA_BUFFER = 2
  MaxSei = 3
  MaxId = 3
  LastUsedId = 3
  ExitMayOvertake = FALSE
  SigningMayFail = TRUE
  AllocMayFail = FALSE
  NoAnswer = NoAnswer
  Incomplete = Incomplete
  Unsigned = Unsigned
CHECK_DEADLOCK FALSE
INVARIANTS
  FailedSeiIsFreed
