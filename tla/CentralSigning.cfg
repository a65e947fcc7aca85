SPECIFICATION Spec
CONSTANTS
  s1 = s1
  s2 = s2
  h1 = h1
  h2 = h2
  Sessions <- MCSessions
  Roomy <- MCSessions
  Hashes <- MCHashes
  SizeOf <- OneSize
  MAX_BUFFER_LENGTH = 2
  MaxId = 3
  LastUsedId = 2
  ExitMayOvertake = FALSE
  SigningMayFail = TRUE
  AllocMayFail = TRUE
  NoAnswer = NoAnswer
SYMMETRY HashSymmetry
INVARIANTS
  HandlesAreActive
  SetupFindsList
PROPERTIES
  KeepsPromise
  WaitsForItsOwn
