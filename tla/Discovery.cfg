\* The followed instance and another one, on its machine or on a machine of its own.
CONSTANTS
  Node = {n1, n2}
  Self = n1
  Addr = {a1, a2}
  NoAddr = NoAddr
  TTL = 2
  Interval = 1
  Announces = 2
  Quick = 0
  MaxDelay = 1
  MaxChanges = 1
  MaxStarts = 2
SPECIFICATION Spec
INVARIANTS
  FreshAddress
  OwnMachineUnlisted
PROPERTIES
  LiveFound
CHECK_DEADLOCK FALSE
