SPECIFICATION ComponentsSpec
CONSTANTS
  MaxWrites = 6
  Advances = {adv}
  Calendar <- MCCalendar
  Plans <- MCPlans
  MaxExecutions = 3
  Keys = {"over", "first", "second"}
  Deliveries = {"d1", "d2", "d3", "d4"}
  Parts <- MCParts
  KeyOf <- MCKeyOf
  Entitled = 2
  CarryOverMax = 1
  Firmwares = {1, 2}
  Packs = {"p1", "p2", "bad"}
  MinFirmware <- MCMinFirmware
  LoadsUnder <- MCLoads
  AnswersUnder <- MCAnswers
  Cmds = {"open", "reboot"}
  Reboots = {"reboot"}
  SeenRing = 1
  InboxDepth = 1
  MaxTickets = 3
  MaxClaims = 2
  Attempts = 1
INVARIANTS NeverRolledBack
INVARIANTS ComponentsTypeOK
INVARIANTS ComesBackOnce BonusStandsOnIssued OneSlipAMonth
INVARIANTS DaysAddUp NeverOverdrawn
INVARIANTS APackThatAnswers RollbackTold
INVARIANTS CommandToldTruly
INVARIANTS StaysLetIn FacesFollowTicket
PROPERTIES IssuedStays
CHECK_DEADLOCK FALSE
