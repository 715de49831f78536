\* One server, stopped at any moment.
CONSTANT Server = {s1}
SPECIFICATION Spec
PROPERTIES
  StopReturns
CHECK_DEADLOCK FALSE
