\* One peer, the reset of the button and one that another machine asks for.
CONSTANTS
  Peer = {p1}
  Nobody = Nobody
  UdpProbeCount = 3
  LossyAt = 2
  DegradeEnterN = 2
  EventRingCap = 3
  Status = {"Up", "Disconnected", "Unknown"}
  Speed = {"none", "1 Gbps", "2.5 Gbps"}
  Reset = {r1, r2}
  Click = r1
  Budgets <- MCBudgets
SPECIFICATION Spec
INVARIANTS
  
  DegradedForCause
  AckedWereReset
PROPERTIES
  PeerLogsCatchUp
CHECK_DEADLOCK FALSE
