\* A plan that goes forward.
CONSTANTS
  p1 = p1
  p2 = p2
  p3 = p3
  Paths = {p1, p2, p3}
  MaxGeneration = 3
SPECIFICATION Spec
INVARIANTS
  TargetIsPrevious
