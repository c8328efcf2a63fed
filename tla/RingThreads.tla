---------------------------- MODULE RingThreads -----------------------------
(***************************************************************************)
(* The ring of circbuf.c as the threads of mythreads.c use it: no lock, the *)
(* port thread (P) writing every packet it records (mythreads.c:252) while *)
(* the network thread (N) answers GET_DATA (:539-550) and CLR_BUF (:531).  *)
(* A step is one access to shared memory, in program order as the -O0      *)
(* build makes them; copying a packet of 1212 bytes takes two steps.       *)
(* Packets are numbered 1, 2, ... in the order P writes them.              *)
(***************************************************************************)
EXTENDS Integers, Sequences

CONSTANTS
  Capacity,  \* test_buf_size: 8 at 250 Hz, 50 at 2000 Hz (sender.c:48)
  MaxPack    \* bound: how many packets P writes

ASSUME CapacityAssumption == Capacity \in Nat \ {0}
ASSUME MaxPackAssumption == MaxPack \in Nat

VARIABLES
  start, end, elems,   \* the ring
  wpc, slot,           \* P: where it is in cb_write, the index it has loaded
  npc, index, pack,    \* N: where it is, the index it has loaded, its copy
  lastPack,            \* history: packets P has begun to write
  served,              \* history: packets N has handed to sendto since
  floor,               \* history: CLR_BUF came: packets up to this one are
                       \* to be forgotten
  clean,               \* history: that CLR_BUF met no write half way
  full,                \* history: the ring was full as P last stored end
  overrun              \* history: since then a write pushed the start

ring == <<start, end, elems>>
port == <<wpc, slot>>
net  == <<npc, index, pack>>
hist == <<lastPack, served, floor, clean, full, overrun>>
vars == <<ring, port, net, hist>>

size  == Capacity + 1
Index == 0 .. size - 1
Blank == 0             \* a slot as calloc left it
Torn  == -1            \* part of one packet and part of another

Packets == 1 .. MaxPack
Values  == Packets \cup {Blank, Torn}

(* Bug: the index does not wrap.                                           *)
BugSucc(i) == i + 1

Succ(i) == (i + 1) % size

Init ==
  /\ start = 0 /\ end = 0 /\ elems = [i \in Index |-> Blank]
  /\ wpc = "idle" /\ slot = 0
  /\ npc = "idle" /\ index = 0 /\ pack = Blank
  /\ lastPack = 0 /\ served = << >>
  /\ floor = 0 /\ clean = TRUE /\ full = FALSE /\ overrun = FALSE

-----------------------------------------------------------------------------
(* The port thread: cb_write.                                              *)

(* cb->elems[cb->end] = *elem : the slot is neither old nor new meanwhile. *)
CopyIn ==
  /\ wpc = "idle" /\ lastPack < MaxPack
  /\ slot' = end
  /\ elems' = [elems EXCEPT ![end] = Torn]
  /\ wpc' = "copying"
  /\ lastPack' = lastPack + 1
  /\ clean' = (clean /\ npc # "clearing")
  /\ UNCHANGED <<start, end, net, served, floor, full, overrun>>

CopiedIn ==
  /\ wpc = "copying"
  /\ elems' = [elems EXCEPT ![slot] = lastPack]
  /\ wpc' = "copied"
  /\ UNCHANGED <<start, end, slot, net, hist>>

(* cb->end = (cb->end + 1) % cb->size                                      *)
LoadEnd ==
  /\ wpc = "copied"
  /\ slot' = end
  /\ wpc' = "loaded"
  /\ UNCHANGED <<ring, net, hist>>

StoreEnd ==
  /\ wpc = "loaded"
  /\ end' = Succ(slot)
  /\ wpc' = "stored"
  /\ full' = (end' = start)
  /\ UNCHANGED <<start, elems, slot, net, lastPack, served, floor, clean, overrun>>

(* if (cb->end == cb->start): one step, since N changes both only in       *)
(* cb_clear, start first, and P between the two loads sees what it would   *)
(* have seen between those two stores.                                     *)
TestFull ==
  /\ wpc = "stored"
  /\ wpc' = IF end = start THEN "full" ELSE "idle"
  /\ UNCHANGED <<ring, slot, net, hist>>

(* cb->start = (cb->start + 1) % cb->size                                  *)
LoadStart ==
  /\ wpc = "full"
  /\ slot' = start
  /\ wpc' = "pushing"
  /\ UNCHANGED <<ring, net, hist>>

StoreStart ==
  /\ wpc = "pushing"
  /\ start' = Succ(slot)
  /\ wpc' = "idle"
  /\ overrun' = TRUE
  /\ UNCHANGED <<end, elems, slot, net, lastPack, served, floor, clean, full>>

-----------------------------------------------------------------------------
(* The network thread: GET_DATA is cb_is_empty, cb_read and the answer.    *)

(* cb->end == cb->start                                                    *)
Get ==
  /\ npc = "idle"
  /\ index' = end
  /\ npc' = "testing"
  /\ UNCHANGED <<ring, port, pack, hist>>

(* Empty: N answers with the status instead and is ready again.            *)
TestEmpty ==
  /\ npc = "testing"
  /\ npc' = IF index = start THEN "idle" ELSE "reading"
  /\ UNCHANGED <<ring, port, index, pack, hist>>

(* *elem = cb->elems[cb->start]                                            *)
CopyOut ==
  /\ npc = "reading"
  /\ index' = start
  /\ pack' = elems[start]
  /\ npc' = "copying"
  /\ UNCHANGED <<ring, port, hist>>

(* A copy during which the slot changed, or that began inside a write, may *)
(* be either packet or a mixture of both.                                  *)
CopiedOut ==
  /\ npc = "copying"
  /\ \/ pack' = pack
     \/ pack' = elems[index]
     \/ pack # elems[index] /\ pack' = Torn
  /\ npc' = "copied"
  /\ UNCHANGED <<ring, port, index, hist>>

(* cb->start = (cb->start + 1) % cb->size                                  *)
Advance ==
  /\ npc = "copied"
  /\ index' = start
  /\ npc' = "advancing"
  /\ UNCHANGED <<ring, port, pack, hist>>

(* Bug: the packet stays in the ring.                                      *)
BugServe ==
  /\ npc = "advancing"
  /\ start' = index
  /\ served' = Append(served, pack)
  /\ npc' = "idle"
  /\ UNCHANGED <<end, elems, port, index, pack, lastPack,
                 floor, clean, full, overrun>>

(* The store ends cb_read; sendto hands the copy out.                      *)
Serve ==
  /\ npc = "advancing"
  /\ start' = Succ(index)
  /\ served' = Append(served, pack)
  /\ npc' = "idle"
  /\ UNCHANGED <<end, elems, port, index, pack, lastPack,
                 floor, clean, full, overrun>>

(* CLR_BUF: cb_clear, two stores.  A packet P is writing at the time may   *)
(* stay in the ring, everything before it is to be forgotten.              *)
Clear ==
  /\ npc = "idle"
  /\ start' = 0
  /\ npc' = "clearing"
  /\ clean' = (wpc = "idle")
  /\ floor' = IF clean' THEN lastPack ELSE lastPack - 1
  /\ served' = << >>
  /\ overrun' = FALSE
  /\ UNCHANGED <<end, elems, port, index, pack, lastPack, full>>

(* Bug: cb_clear leaves end where it was.                                  *)
BugCleared ==
  /\ npc = "clearing"
  /\ npc' = "idle"
  /\ UNCHANGED <<ring, port, index, pack, hist>>

Cleared ==
  /\ npc = "clearing"
  /\ end' = 0
  /\ npc' = "idle"
  /\ UNCHANGED <<start, elems, port, index, pack, hist>>

-----------------------------------------------------------------------------
PortNext ==
  \/ CopyIn \/ CopiedIn \/ LoadEnd \/ StoreEnd
  \/ TestFull \/ LoadStart \/ StoreStart

NetNext ==
  \/ Get \/ TestEmpty \/ CopyOut \/ CopiedOut \/ Advance \/ Serve
  \/ Clear \/ Cleared

Next == PortNext \/ NetNext

Spec == Init /\ [][Next]_vars

-----------------------------------------------------------------------------
(* Type correctness.  That the indices stay inside elems is what keeps the *)
(* unsynchronised cb_write and cb_read inside the allocated vector.        *)
TypeOK ==
  /\ start \in Index /\ end \in Index
  /\ elems \in [Index -> Values]
  /\ wpc \in {"idle", "copying", "copied", "loaded", "stored", "full", "pushing"}
  /\ slot \in Index
  /\ npc \in {"idle", "testing", "reading", "copying", "copied", "advancing",
              "clearing"}
  /\ index \in Index /\ pack \in Values
  /\ lastPack \in 0 .. MaxPack
  /\ served \in Seq(Values)
  /\ floor \in 0 .. MaxPack
  /\ clean \in BOOLEAN /\ full \in BOOLEAN /\ overrun \in BOOLEAN

(* From the start, and from every CLR_BUF that met no write half way, the  *)
(* client gets the packets one after the other, nothing lost, repeated,    *)
(* torn, reordered or from before the clear, until a write first pushes    *)
(* the start of the ring: up to there no lock is missing, although P and N *)
(* never wait for each other.                                              *)
FifoUntilOverrun ==
  clean /\ ~ overrun => \A i \in 1 .. Len(served) : served[i] = floor + i

(* "Write an element, overwriting oldest element if buffer is full"        *)
(* (circbuf.c:60): as long as no CLR_BUF meets a write half way, the start *)
(* is pushed only by a write that found the ring full.                     *)
OverwritesOnlyWhenFull == clean /\ wpc \in {"full", "pushing"} => full
=============================================================================
