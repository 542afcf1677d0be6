\* An object that has no position yet.
CONSTANTS
  c1 = c1
  c2 = c2
  Callers = {c1}
  Approvals = {"urn:approval"}
  Requests <- MCAllRequests
  InitialStates <- MCMinted
SPECIFICATION Spec
INVARIANTS
  MintIsPossible
