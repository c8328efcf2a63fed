--------------------------- MODULE OverwriteQueue ---------------------------
(***************************************************************************)
(* What a circular buffer promises its user: a first-in first-out queue of *)
(* at most Capacity elements that never refuses an element.  Putting one   *)
(* into a full queue drops the oldest.                                     *)
(***************************************************************************)
EXTENDS Naturals, Sequences

CONSTANTS
  Elem,      \* what the queue holds
  Capacity,  \* how many elements it keeps
  NoElem     \* nothing was taken out yet

VARIABLES
  queue,     \* the elements, oldest first
  out,       \* the element the last Get handed out
  call       \* the last operation and the element it was given

vars == <<queue, out, call>>

Init ==
  /\ queue = << >>
  /\ out = NoElem
  /\ call = <<"init", NoElem>>

Put(e) ==
  /\ queue' = IF Len(queue) < Capacity
                THEN Append(queue, e)
                ELSE Append(Tail(queue), e)
  /\ out' = out
  /\ call' = <<"write", e>>

Get ==
  /\ queue # << >>
  /\ out' = Head(queue)
  /\ queue' = Tail(queue)
  /\ call' = <<"read", NoElem>>

Clear ==
  /\ queue' = << >>
  /\ out' = out
  /\ call' = <<"clear", NoElem>>

Next == (\E e \in Elem : Put(e)) \/ Get \/ Clear

Spec == Init /\ [][Next]_vars
=============================================================================
