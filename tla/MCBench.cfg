CONSTANTS
  HalfRange = 3
  S3 = 2
  Lockout = 2
  MaxAttempts = 2
  ZeroSeed = 0
  BadKey = "wrong"
  GenStates <- MCGenStates
  Seeds <- MCSeeds
  Keys <- MCKeys
  Step <- MCStep
  SeedOf <- MCSeedOf
  KeyOf <- MCKeyOf
SPECIFICATION Spec
INVARIANTS
  NoUnauthorisedReset
  ShadowNeverAhead
PROPERTIES
  LegitimateFlowPasses
