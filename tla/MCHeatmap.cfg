\* One peer, two zooms, a window of four steps.
CONSTANTS
  Runner = {ui, peer}
  Retention = 4
  TestTime = 2
  Peer = {p1}
  Zoom = {1, 2}
  Span = 4
  Budgets <- MCBudgets
SPECIFICATION Spec
INVARIANTS
  CellsHonest
  TestsTold
CHECK_DEADLOCK FALSE
