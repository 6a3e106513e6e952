\* A clock that wraps after 6 ticks; the loop may leave the deadlines alone
\* for as long as S3, and longer than the lockout.
CONSTANTS
  HalfRange = 3
  S3 = 3
  Lockout = 2
  MaxAttempts = 2
  MaxPollGap = 3
  ZeroSeed = 0
  GenStates = {1}
  Seeds = {0, 1}
  Keys = {"right", "wrong", "none"}
  Step <- MCStep
  SeedOf <- MCStep
  KeyOf <- MCKeyOf
  ClientRequests <- MCRequests
  TickRange = 2
  LowBattery <- MCLow
  ResetRange = 1
SPECIFICATION EcuSpec
INVARIANTS
  LockoutLiftsOnTime
PROPERTIES
  ExpiryIsExact
  LockoutLastsItsDelay
  LockoutEnds
  AbandonedSessionCloses
  ApplicationChangesOnPurpose
