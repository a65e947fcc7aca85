SPECIFICATION Spec
CONSTANTS
  s1 = s1
  s2 = s2
  h1 = h1
  h2 = h2
  Sessions <- MCSessions
  Roomy <- MCSessions
  Hashes <- OneHash
  SizeOf <- TwoSizes
  MAX_BUFFER_LENGTH = 2
  MaxId = 3
  LastUsedId = 2
  ExitMayOvertake = FALSE
  SigningMayFail = FALSE
  AllocMayFail = FALSE
  NoAnswer = NoAnswer
INVARIANTS
  TakenHashFits
