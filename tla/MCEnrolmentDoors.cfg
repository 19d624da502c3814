SPECIFICATION Spec
CONSTANTS
  Doors = {d1, d2, d3}
  d1 = d1
  d2 = d2
  d3 = d3
  MaxSessions = 3
  MaxOps = 5
SYMMETRY DoorSymmetry
INVARIANTS NoFaceWithoutConsent DoorsEndAlike NoErasedFaceReturns
CHECK_DEADLOCK FALSE
