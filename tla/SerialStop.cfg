\* An acknowledgement that comes late, a stop that is lost: two commands do.
CONSTANTS
  StatusLen = 3
  DataLen = 4
  NetCommands = {"stop"}
  Faults = {"lost", "late"}
  MaxCommands = 3
SPECIFICATION Spec
INVARIANT StopReported
CHECK_DEADLOCK FALSE
