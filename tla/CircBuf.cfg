\* Four slots, three distinguishable packets: the indices wrap and the ring
\* overflows on every path longer than three writes.
CONSTANTS
  Elem = {p1, p2, p3}
  Capacity = 3
  Zero = Zero
  NoElem = NoElem
SPECIFICATION Spec
INVARIANT TypeOK
PROPERTY ImplementsQueue
