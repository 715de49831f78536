CONSTANTS
  s1 = s1
  c1 = c1
  c2 = c2
  Loopback = Loopback
  Server = {s1}
  Call = {c1, c2}
  Requests <- MCRequests
SPECIFICATION TestSpec
INVARIANTS
  StopLeavesNothing
  ResultWhole
PROPERTIES
  KeepsRunning
  KillingStopReturns
  HangUpKills
CHECK_DEADLOCK FALSE
