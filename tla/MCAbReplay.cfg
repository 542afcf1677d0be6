\* Replays of any events, on documents the constructor accepts or not, while
\* the probe is edited.
CONSTANTS
  d1 = d1
  d2 = d2
  NoDigest = NoDigest
  Digests <- MCDigests
  MaxAttempts = 2
  MaxClock = 0
  InitialSlots <- MCSlots
  strict = strict
  relaxed = relaxed
  Checks <- MCChecks
  Incomplete = Incomplete
  RejectedSlots <- MCRejected
  MaxRefused = 1
SYMMETRY MCSymmetry
SPECIFICATION ReplaySpec
INVARIANTS
  LogExplainsOutcome
  EmittedKeepsFallback
  EmittedConforms
  GateIsReviewed
  PromotionIsShown
