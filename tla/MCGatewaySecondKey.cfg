CONSTANTS
  HalfRange = 3
  S3 = 2
  Lockout = 2
  MaxAttempts = 2
  ZeroSeed = 0
  GenStates <- MCGenStates
  Seeds <- MCSeeds
  Keys <- MCKeys
  Step <- MCStep
  SeedOf <- MCSeedOf
  KeyOf <- MCKeyOf
  ClientRequests <- MCRequests
  EcuTimeout = 2
  MaxLatency = 0
  MaxSilence = 3
  MaxPollGap = 1
  MaxLost = 0
  KeysPerSeed = 2
SPECIFICATION Spec
INVARIANTS
  AuthorityAgrees
