CONSTANTS
  HalfRange = 3
  S3 = 2
  Lockout = 2
  MaxAttempts = 2
  ZeroSeed = 0
  GenStates <- MCNullGenStates
  Seeds <- MCSeeds
  Keys <- MCKeys
  Step <- MCNullStep
  SeedOf <- MCNullSeedOf
  KeyOf <- MCKeyOf
  ClientRequests <- MCRequests
  EcuTimeout = 2
  MaxLatency = 0
  MaxSilence = 2
  MaxPollGap = 1
  MaxLost = 0
  KeysPerSeed = 1
  Programs = {"console", "other"}
  ClientTimeout = 3
  MaxHop = 0
  BadKey = "bad"
SPECIFICATION ChainSpec
INVARIANTS
  AuthorityAgrees
  ShadowStaysClosed
  EcuIsNeverStruck
  PromptNeverHidesAuthority
PROPERTIES
  KeyBoundToEcuSeed
