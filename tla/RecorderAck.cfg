\* One lost answer to the start command of the port thread.
CONSTANTS
  Rates = {2}
  Refused = {}
  MinutesPerFile = 2
  AutoStart = TRUE
  Commands = {}
  Faults = {"ack"}
  MaxPack = 2
  MaxCommands = 0
SPECIFICATION Spec
INVARIANT RaiseHandled
CHECK_DEADLOCK FALSE
