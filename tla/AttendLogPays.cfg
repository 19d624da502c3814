SPECIFICATION FairSpec
CONSTANTS
  Files = 2
  FileCap = 2
  MaxPunches = 2
  MaxBoots = 2
  MaxRot = 1
  NvsMayFail = FALSE
  CountMayFail = TRUE
  MayErase = FALSE
INVARIANTS OneIdOnePunch
PROPERTIES LedgerSteps LedgerPays
CHECK_DEADLOCK FALSE
