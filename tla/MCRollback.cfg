\* Three generations of three systems.
CONSTANTS
  p1 = p1
  p2 = p2
  p3 = p3
  Paths = {p1, p2, p3}
  MaxGeneration = 3
SPECIFICATION Spec
INVARIANTS
  TypeOK
  ResultIsHonest
PROPERTIES
  LandsOnTarget
  OnlyOnRequest
  CallEnds
