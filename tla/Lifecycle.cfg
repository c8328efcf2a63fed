\* SIGINT at any moment, once; every outcome of the cancellation of a thread
\* nobody named.
CONSTANTS
  Outcomes = {"none", "crash", "port", "net", "nmea"}
  MaxSignals = 1
SPECIFICATION Spec
INVARIANT TypeOK
INVARIANT OnceMore
INVARIANT StoppedAtEnd
INVARIANT QuietAtClose
PROPERTY Ends
PROPERTY KeepsTime
CHECK_DEADLOCK FALSE
