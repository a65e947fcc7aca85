SPECIFICATION PluginsSpec
CONSTANTS
  s1 = s1
  s2 = s2
  h1 = h1
  h2 = h2
  h3 = h3
  Sessions <- MCSessions
  Roomy <- OneSession
  Hashes <- OneHash
  SizeOf <- SizePerSession
  LocalHashes <- ThreeHashes
  LocalSizeOf <- TwoSizes
  UnthreadedHashes <- ThreeHashes
  UNTHREADED_BUFFER_LENGTH = 4
  MAX_BUFFER_LENGTH = 2
  MaxId = 2
  LastUsedId = 2
  ExitMayOvertake = TRUE
  SigningMayFail = TRUE
  AllocMayFail = TRUE
  NoAnswer = NoAnswer
  Unallocated = Unallocated
  Stale = Stale
  Nothing = Nothing
INVARIANTS
  TypeOK
  RunningIsUsable
  OutputIsClaimable
  SleepsOnlyWhenIdle
  NobodyOversleeps
  NoReadPastEnd
  WaitingAreSigned
PROPERTIES
  AdminCallsReturn
  HashesAreTaken
  LocalKeepsPromise
  LocalCallsReturn
  LocalHashesAreTaken
  SignaturesInOrder
