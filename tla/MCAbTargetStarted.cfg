\* When an attempt is said to have started.
CONSTANTS
  d1 = d1
  d2 = d2
  NoDigest = NoDigest
  Digests <- MCDigests
  MaxAttempts = 2
  MaxClock = 1
  MaxTransactions = 0
  InitialSlots <- MCTargets
SPECIFICATION TargetSpec
PROPERTIES
  StartedAtIsHandover
