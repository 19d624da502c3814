SPECIFICATION Spec
CONSTANTS
  Requests = {"leave", "morning", "afternoon", "trip", "fix"}
  MaxPunches = 2
  MaxAsks = 1
  MaxFaults = 1
INVARIANTS DayFollowsItsFacts MeasureKept
PROPERTIES DaySettles
CHECK_DEADLOCK FALSE
