CONSTANTS
  HalfRange = 6
  S3 = 3
  Lockout = 1
  MaxAttempts = 2
  ZeroSeed = 0
  GenStates <- MCNullGenStates
  Seeds <- MCSeeds
  Keys <- MCKeys
  Step <- MCNullStep
  SeedOf <- MCNullSeedOf
  KeyOf <- MCKeyOf
  ClientRequests <- MCCommands
  EcuTimeout = 2
  MaxLatency = 1
  MaxSilence = 5
  MaxPollGap = 1
  MaxLost = 1
  KeysPerSeed = 0
  Programs = {"tester"}
  ClientTimeout = 4
  MaxHop = 0
  BadKey = "bad"
SPECIFICATION ChainSpec

  
  
PROPERTIES
  GatewayReturns
  ScenarioUnfolds
