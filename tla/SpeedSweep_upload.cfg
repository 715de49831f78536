\* An upload-only sweep between two machines.
CONSTANTS
  N = 2
  LiveCap = 0
  Directions = {"up"}
  Flaky = {}
SPECIFICATION SafeSpec
INVARIANTS
  MeasuredSweepRecorded
