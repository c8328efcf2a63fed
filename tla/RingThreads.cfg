\* Three slots, four packets: the ring overflows twice and its indices go round
\* while the network thread is inside a read, and a clear can meet every step
\* of a write.
CONSTANTS
  Capacity = 2
  MaxPack = 4
SPECIFICATION Spec
INVARIANT TypeOK
INVARIANT FifoUntilOverrun
CHECK_DEADLOCK FALSE
