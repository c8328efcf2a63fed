\* A ring of two packets and two writes are enough: the network thread empties
\* the ring between the port thread's store of end and its comparison.
CONSTANTS
  Capacity = 2
  MaxPack = 2
SPECIFICATION Spec
INVARIANT OverwritesOnlyWhenFull
CHECK_DEADLOCK FALSE
