SPECIFICATION SyncSpec
CONSTANTS
  Staff = {1, 2}
  PendingCap = 1
  FaceCap = 1
  MaxOps = 2
  MaxNumber = 8
  MaxFaces = 2
  MaxBeats = 1
  MaxRosterFaults = 2
  Captures = FALSE
  SlowAck = FALSE
  SlowLane = TRUE
  PendingFails = FALSE
  Restores = FALSE
  MaxStamps = 2
  MaxStarts = 2
INVARIANTS EqualNumbersEqualRosters NeverAhead VouchedByNtp PlacedByItsStart
PROPERTIES HeldIsSent
CHECK_DEADLOCK FALSE
