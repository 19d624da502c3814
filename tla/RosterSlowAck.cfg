SPECIFICATION RosterSpec
CONSTANTS
  Staff = {1}
  PendingCap = 1
  FaceCap = 2
  MaxOps = 2
  MaxNumber = 6
  MaxFaces = 2
  MaxBeats = 1
  MaxRosterFaults = 0
  Captures = TRUE
  SlowAck = TRUE
  SlowLane = TRUE
  PendingFails = FALSE
  Restores = FALSE
INVARIANTS NoCaptureVanishes
CHECK_DEADLOCK FALSE
