\* Two agents, one pull of each at a time, answers of two samples, a crash.
CONSTANTS
  Agent = {1, 2}
  Puller = {c1}
  MaxSamples <- MCSamples
  Limit = 2
  MaxCrashes = 1
  Period = 1
  Clock <- MCClock
  Layouts <- MCLayouts
  Targets <- MCTargets
SPECIFICATION Spec
INVARIANTS
  StoredPrefix
  VerdictSound
  FaultNamed
PROPERTIES
  ImplementsLog
CHECK_DEADLOCK FALSE
