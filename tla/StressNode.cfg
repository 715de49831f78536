\* Two start requests compete for a node with two links and an extra listener.
CONSTANTS
  Run = {r1, r2}
  Target = {t1, t2}
  Port = {p1}
  StressAbortAfter = 2
  NoRun = NoRun
  AnyRun = AnyRun
  QuietShutdown = TRUE
SPECIFICATION Spec
INVARIANTS
  SingleRun
  StatusHonest
  AbortedLinkSilent
  JournalOrdered
  ShutdownComplete
PROPERTIES
  StopHitsItsRun
  StopHalts
  ShutdownEnds
  RunEnds
CHECK_DEADLOCK FALSE
