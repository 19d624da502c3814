SPECIFICATION Spec
CONSTANTS
  Requests = {}
  MaxPunches = 1
  MaxAsks = 0
  MaxFaults = 1
INVARIANTS LatePunchNotLost
CHECK_DEADLOCK FALSE
