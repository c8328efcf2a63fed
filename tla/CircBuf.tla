------------------------------ MODULE CircBuf -------------------------------
(***************************************************************************)
(* circbuf.c: the ring of packets between the port thread and the network  *)
(* thread, each call taken as one step.  One slot is always kept open, so  *)
(* that start = end means empty and never full.  RingThreads.tla takes the *)
(* calls apart and interleaves them.                                       *)
(***************************************************************************)
EXTENDS Integers, Sequences

CONSTANTS
  Elem,      \* packets (ElemType)
  Capacity,  \* the size argument of cb_init
  Zero,      \* the contents of a slot calloc has just cleared
  NoElem     \* no cb_read has happened yet

ASSUME CapacityAssumption == Capacity \in Nat \ {0}

VARIABLES
  start,     \* index of the oldest element
  end,       \* index at which to write the new element
  elems,     \* the vector of elements
  out,       \* the element the last cb_read copied out
  call       \* history: the last call and the element it was given

vars == <<start, end, elems, out, call>>

size == Capacity + 1        \* cb->size: one slot more than asked for

Index == 0 .. size - 1

(* Bug: the index does not wrap.                                           *)
BugSucc(i) == i + 1

Succ(i) == (i + 1) % size

cb_is_empty == end = start

cb_init ==
  /\ start = 0
  /\ end = 0
  /\ elems = [i \in Index |-> Zero]

Init == cb_init /\ out = NoElem /\ call = <<"init", NoElem>>

(* Bug: a write into a full ring does not push the oldest element out.     *)
BugWrite(e) ==
  /\ elems' = [elems EXCEPT ![end] = e]
  /\ end' = Succ(end)
  /\ call' = <<"write", e>>
  /\ UNCHANGED <<start, out>>

cb_write(e) ==
  /\ elems' = [elems EXCEPT ![end] = e]
  /\ end' = Succ(end)
  /\ start' = IF end' = start THEN Succ(start) ELSE start
  /\ call' = <<"write", e>>
  /\ UNCHANGED out

(* "App must ensure !cbIsEmpty() first": the network thread does.          *)
cb_read ==
  /\ ~ cb_is_empty
  /\ out' = elems[start]
  /\ start' = Succ(start)
  /\ call' = <<"read", NoElem>>
  /\ UNCHANGED <<end, elems>>

cb_clear ==
  /\ start' = 0
  /\ end' = 0
  /\ call' = <<"clear", NoElem>>
  /\ UNCHANGED <<elems, out>>

Next == (\E e \in Elem : cb_write(e)) \/ cb_read \/ cb_clear

Spec == Init /\ [][Next]_vars

-----------------------------------------------------------------------------
(* Type correctness of the ring: both indices stay inside the vector.      *)
TypeOK ==
  /\ start \in Index
  /\ end \in Index
  /\ elems \in [Index -> Elem \cup {Zero}]
  /\ out \in Elem \cup {Zero, NoElem}
  /\ call \in {"init", "write", "read", "clear"} \X (Elem \cup {NoElem})

(* How many elements lie between start and end, going round the vector.    *)
Count == IF start <= end THEN end - start ELSE end + size - start

(* Where the k-th element after the oldest is.                             *)
Slot(k) == IF start + k < size THEN start + k ELSE start + k - size

(* The elements the ring holds, oldest first.                              *)
Contents == [i \in 1 .. Count |-> elems[Slot(i - 1)]]

Queue == INSTANCE OverwriteQueue WITH queue <- Contents

(* The ring is an overwriting queue, call by call: whatever the sequence   *)
(* of cb_write, cb_read and cb_clear, and however often the indices wrap,  *)
(* a read hands out the oldest element, and a write keeps everything but,  *)
(* if the ring was full, the oldest.                                       *)
ImplementsQueue == Queue!Spec
=============================================================================
