\* Two machines, nothing is lost; Stop may be clicked during the fan-out.
CONSTANTS
  N = 2
  StressMaxTargets = 1
  UsePorts = TRUE
  Self = 1
  MaxStarts = 1
  MaxStops = 1
  MaxLosses = 0
  Flaky = {}
  QuietStop = FALSE
SPECIFICATION SafeSpec
INVARIANTS
  StopHaltsMesh
CHECK_DEADLOCK FALSE
