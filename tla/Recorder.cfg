\* The port thread by itself: up to three packets a minute, two minutes a
\* file, so that nine packets fill a file and begin another one at every rate.
\* A client by itself: it starts, stops and starts again while packets arrive;
\* three packets at rate 1 fill a file and begin another.  And both at a time.
CONSTANTS
  Rates = {1, 2, 3}
  Refused <- NoneOrNegative
  MinutesPerFile = 2
  AutoStart = TRUE
  Commands = {"start", "stop"}
  Faults = {"dir", "alloc", "ack", "lost", "stale", "open", "write"}
  MaxPack = 9
  MaxCommands = 3
SPECIFICATION Spec
CONSTRAINT Bounded
INVARIANT TypeOK
INVARIANT MinutesRecorded
INVARIANT FileLayout
INVARIANT NoStrayFile
INVARIANT FileBounded
INVARIANT HeaderFirst
INVARIANT NoLeak
INVARIANT OneStartIsSafe
INVARIANT OneStartKeepsOrder
CHECK_DEADLOCK FALSE
