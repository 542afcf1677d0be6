\* A slot that is being written and that the bootloader would boot.
CONSTANTS
  d1 = d1
  d2 = d2
  NoDigest = NoDigest
  Digests <- MCDigests
  MaxAttempts = 2
  MaxClock = 0
  MaxTransactions = 1
  InitialSlots <- MCTargets
SPECIFICATION TargetSpec
INVARIANTS
  NeverBootsUnverified
