\* A start and a stop, nothing fails.
CONSTANTS
  Rates = {2}
  Refused = {}
  MinutesPerFile = 2
  AutoStart = FALSE
  Commands = {"start", "stop"}
  Faults = {}
  MaxPack = 3
  MaxCommands = 3
SPECIFICATION Spec
INVARIANT StoresIntoBuffer
CHECK_DEADLOCK FALSE
