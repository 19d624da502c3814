SPECIFICATION OutboxSpec
CONSTANTS
  Tabs = {t1}
  t1 = t1
  Accounts = {ann}
  ann = ann
  Nobody = Nobody
  Requests = {r1}
  r1 = r1
  MaxSignIns = 1
  MaxExpiries = 1
  MaxTroubles = 2
INVARIANTS UnsentStays
CHECK_DEADLOCK FALSE
