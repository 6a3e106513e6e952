\* A clock that wraps after 8 ticks; S3 and the lockout both shorter than
\* half of it; two attempts; N_Cr shorter than S3.
CONSTANTS
  HalfRange = 4
  S3 = 2
  Lockout = 3
  MaxAttempts = 2
  N_Cr = 1
  ZeroSeed = 0
  ZeroKey = 0
  BadKey = 222
  Programs = {"fuzz", "explore", "frames"}
  GenStates <- MCGenStates
  Seeds <- MCSeeds
  Keys <- MCKeys
  Step <- MCStep
  SeedOf <- MCSeedOf
  KeyOf <- MCKeyOf
  ClientRequests <- MCRequests
SPECIFICATION ExplorerSpec
INVARIANTS
  TypeOK
  NothingOpenInDefault
  LockoutMatchesAttempts
  NoWedgedContext
PROPERTIES
  UnlockOnlyByFreshKey
  ResetNeedsAuthority
  AttemptsSurvive
  SeedJudgedOnce
  ImplementsAuthority
  OracleIsSilent
