SPECIFICATION DevicesSpec
CONSTANTS
  Staff = {1}
  PendingCap = 1
  FaceCap = 2
  MaxOps = 2
  MaxNumber = 5
  MaxFaces = 2
  MaxBeats = 0
  MaxRosterFaults = 2
  Captures = TRUE
  SlowAck = FALSE
  SlowLane = TRUE
  PendingFails = TRUE
  Restores = TRUE
  Tabs = {t1, t2}
  t1 = t1
  t2 = t2
  Accounts = {ann, bob}
  ann = ann
  bob = bob
  Nobody = Nobody
  Requests = {r1}
  r1 = r1
  MaxSignIns = 2
  MaxExpiries = 1
  MaxTroubles = 1
SYMMETRY BrowserSymmetry
INVARIANTS NoCaptureVanishes RequestsAccounted
CHECK_DEADLOCK FALSE
