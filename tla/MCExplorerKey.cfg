\* The frame explorers alone.
CONSTANTS
  HalfRange = 4
  S3 = 2
  Lockout = 3
  MaxAttempts = 2
  N_Cr = 1
  ZeroSeed = 0
  ZeroKey = 0
  BadKey = 222
  Programs = {"frames"}
  GenStates <- MCGenStates
  Seeds <- MCSeeds
  Keys <- MCKeys
  Step <- MCStep
  SeedOf <- MCSeedOf
  KeyOf <- MCKeyOf
  ClientRequests <- MCRequests
SPECIFICATION ExplorerSpec
PROPERTIES
  CorrectKeyUnlocks
