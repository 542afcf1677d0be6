\* The documents of the handoff, and the tools that make and judge them.
CONSTANTS
  Releases = {"r1", "r2"}
  Modes = {"recovery", "ephemeral"}
  Roles = {"kernel", "rootfs"}
  Tokens = {"t1"}
  Correlations = {"c1", "c2"}
  Absent = "absent"
  MaxCalls = 2
  MaxRevisions = 2
SPECIFICATION DocumentsSpec
INVARIANTS
  AcceptedDigestsAreMeasured
  TransactionsNotMerged
  EvidenceDecides
  GatesCoverPolicy
