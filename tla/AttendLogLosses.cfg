SPECIFICATION Spec
CONSTANTS
  Files = 2
  FileCap = 1
  MaxPunches = 3
  MaxBoots = 3
  MaxRot = 1
  NvsMayFail = TRUE
  CountMayFail = FALSE
  MayErase = TRUE
INVARIANTS NothingLost RepeatsOnlyThroughAHole BootCountsOn
CHECK_DEADLOCK FALSE
