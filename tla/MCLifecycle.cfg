\* Two callers of one object, each with records that may be stale.
CONSTANTS
  c1 = c1
  c2 = c2
  Callers = {c1, c2}
  Approvals = {"urn:approval"}
  Requests <- MCAllRequests
  InitialStates <- MCMinted
SPECIFICATION Spec
INVARIANTS
  TypeOK
  LineageComplete
  HostMutationLicensed
  RecordAuditable
  RollbackStaysOpen
PROPERTIES
  NeverBackwards
