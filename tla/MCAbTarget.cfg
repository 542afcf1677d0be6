\* A target over several transactions, any of which may be abandoned, on every
\* small pair of slots that obeys the contract.
CONSTANTS
  d1 = d1
  d2 = d2
  NoDigest = NoDigest
  Digests <- MCDigests
  MaxAttempts = 3
  MaxClock = 1
  MaxTransactions = 2
  InitialSlots <- MCConformantPairs
SPECIFICATION TargetFairSpec
INVARIANTS
  TypeOK
  NeverRaises
  SlotsConform
  GoodPayloadIsInstalled
  SelectorAgrees
  TransactionConforms
  FallbackIsRunning
  AttemptBudget
  AttemptLedger
  SelectableHoldsPayload
  FallbackNeverLost
PROPERTIES
  ActiveSlotNeverWritten
  PromotionEarned
  AbortIsRecorded
  PayloadHandedOver
  SelectionStaysUnique
  TargetKeepsContract
  BootLoopRunsDown
  BootLoopEnds
