\* The ratchet on the manifest's declarations.
CONSTANTS
  planned = planned
  rollback = rollback
  Items = {planned, rollback}
  Within <- MCWithin
  Files = {"code", "docs"}
SPECIFICATION Spec
INVARIANTS
  ListIsDebt
