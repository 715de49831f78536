\* A start request may arrive while App.Stop is under way.
CONSTANTS
  Run = {r1}
  Target = {t1}
  Port = {p1}
  StressAbortAfter = 1
  NoRun = NoRun
  AnyRun = AnyRun
  QuietShutdown = FALSE
SPECIFICATION SafeSpec
INVARIANTS
  ShutdownComplete
CHECK_DEADLOCK FALSE
