\* Two machines, the peer flaky; two starts, a stop and at most two lost calls.
CONSTANTS
  N = 2
  StressMaxTargets = 2
  UsePorts = TRUE
  Self = 1
  MaxStarts = 2
  MaxStops = 1
  MaxLosses = 2
  Flaky = {2}
  QuietStop = TRUE
SPECIFICATION Spec
INVARIANTS
  ShownIsCurrent
  RecordedRunOver
  StopHaltsMesh
PROPERTIES
  LeftForCause
  TabRecovers
CHECK_DEADLOCK FALSE
