\* Four machines, the smallest mesh on which two tests run at once; the test of one
\* pair may fail or measure nothing.
CONSTANTS
  N = 4
  LiveCap = 1
  Directions = {"down"}
  Flaky <- MCFlaky
SPECIFICATION Spec
INVARIANTS
  EndpointExclusive
  EveryPairAccounted
  NoIdleCapacity
  ProgressConsistent
  OnlyCompleteSweepsCount
  SweepLeavesNothing
PROPERTIES
  SweepEnds
  ImplementsPlan
