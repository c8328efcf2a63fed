\* Starts of the client, at a frequency of 0 or 1 as well; nothing fails.
CONSTANTS
  Rates = {1, 2}
  Refused = {0}
  MinutesPerFile = 2
  AutoStart = FALSE
  Commands = {"start"}
  Faults = {}
  MaxPack = 4
  MaxCommands = 2
SPECIFICATION Spec
INVARIANT StoresInside
CHECK_DEADLOCK FALSE
