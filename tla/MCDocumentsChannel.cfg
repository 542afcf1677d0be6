\* The channel a manifest's boot mode is given.
CONSTANTS
  Releases = {"r1"}
  Modes = {"installer", "recovery", "ephemeral", "bootstrap"}
  Roles = {"kernel"}
  Tokens = {"t1"}
  Correlations = {"c1"}
  Absent = "absent"
  MaxCalls = 1
  MaxRevisions = 0
SPECIFICATION DocumentsSpec
INVARIANTS
  ChannelIsMapped
