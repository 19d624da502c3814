SPECIFICATION KioskSpec
CONSTANTS
  MaxMessages = 3
  MaxDrops = 1
  MaxClients = 2
  People = {"ann", "bob"}
  Stranger = "stranger"
  Nobody = "nobody"
  KRecent = 2
  MaxPunches = 3
  Staff = {1}
  PendingCap = 1
  FaceCap = 1
  MaxOps = 2
  MaxNumber = 14
  MaxFaces = 1
  MaxBeats = 1
  MaxRosterFaults = 2
  Captures = FALSE
  SlowAck = FALSE
  SlowLane = FALSE
  PendingFails = FALSE
  Restores = FALSE
INVARIANTS OkMeansAcked ClientOutlivesSender StampedOfflineOnceStopped
INVARIANTS OnePunchAWindow OneOpeningAnArrival BarrierKeepsItsTime
PROPERTIES StopEnds ComesLevel
CHECK_DEADLOCK FALSE
