\* A status of three units, a packet of four: a late short answer shifts what
\* follows by one unit, a late status by more than the repair looks at.  Three
\* commands: an answer may be two exchanges late.
CONSTANTS
  StatusLen = 3
  DataLen = 4
  NetCommands = {"start", "stop"}
  Faults = {"lost", "late", "write"}
  MaxCommands = 3
SPECIFICATION Spec
INVARIANT TypeOK
INVARIANT InStep
INVARIANT UsedOnce
PROPERTY ImplementsExchange
CHECK_DEADLOCK FALSE
