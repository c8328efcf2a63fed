------------------------- MODULE RingThreads_proofs -------------------------
(***************************************************************************)
(* Proofs about RingThreads.tla for every capacity and any number of       *)
(* packets.                                                                *)
(***************************************************************************)
EXTENDS RingThreads, TLAPS

(* The remainder the code computes is a subtraction.                       *)
LEMMA Wrap ==
  ASSUME NEW x \in 0 .. 2 * size - 1
  PROVE  x % size = IF x < size THEN x ELSE x - size
  BY CapacityAssumption DEF size

(* The successor of an index is an index.                                  *)
LEMMA SuccValue ==
  ASSUME NEW i \in Index
  PROVE  /\ Succ(i) = IF i = size - 1 THEN 0 ELSE i + 1
         /\ Succ(i) \in Index
  BY CapacityAssumption, Wrap DEF Succ, Index, size

-----------------------------------------------------------------------------
(* The inductive invariant.                                                *)

(* A thread inside cb_write has a packet to write.                         *)
HasPacket == wpc # "idle" => lastPack # 0

Writing == wpc \in {"copying", "copied", "loaded"}

(* The packets in the ring: written, and end moved past them, but not yet  *)
(* served.                                                                 *)
Held == (IF Writing THEN lastPack - 1 ELSE lastPack) - floor - Len(served)

(* The index k places after start.                                         *)
Pos(k) == IF start + k < size THEN start + k ELSE start + k - size

(* The ring holds the next packets to serve; it is full to the last slot   *)
(* only between the store of end and the end of the write.                 *)
HoldsNext ==
  /\ Held \in 0 .. size
  /\ Writing \/ wpc = "idle" => Held <= Capacity
  /\ end = Pos(Held)
  /\ \A k \in 0 .. Held - 1 : elems[Pos(k)] = floor + Len(served) + k + 1

(* P prepares the slot end points to.                                      *)
WriterAtEnd ==
  /\ Writing => slot = end
  /\ wpc \in {"copied", "loaded"} => elems[end] = lastPack

(* N tests against an end P may have moved on from, and reads the oldest.  *)
ReaderAtStart ==
  /\ npc = "testing" => \E d \in 0 .. Held : index = Pos(d)
  /\ npc \in {"reading", "copying", "copied", "advancing"} => Held >= 1
  /\ npc \in {"copying", "advancing"} => index = start
  /\ npc \in {"copying", "copied", "advancing"} => pack = floor + Len(served) + 1

ServedInOrder == \A i \in 1 .. Len(served) : served[i] = floor + i

(* While CLR_BUF runs and P keeps out of the ring.                         *)
BeingCleared ==
  /\ wpc = "idle" /\ start = 0
  /\ floor = lastPack /\ served = << >>

Calm == clean /\ ~ overrun

InOrder == HoldsNext /\ WriterAtEnd /\ ReaderAtStart /\ ServedInOrder

CalmInv == Calm => IF npc = "clearing" THEN BeingCleared ELSE InOrder

IInv == TypeOK /\ HasPacket /\ CalmInv

-----------------------------------------------------------------------------
(* The initial state: an empty ring nobody has cleared yet.                *)
LEMMA InitInv == Init => IInv
<1> SUFFICES ASSUME Init PROVE IInv
  OBVIOUS
<1>1. TypeOK
  BY CapacityAssumption, MaxPackAssumption
     DEF Init, TypeOK, Index, size, Values, Packets
<1>2. Held = 0
  BY DEF Init, Held, Writing
<1>3. HoldsNext
  BY <1>2, CapacityAssumption DEF Init, HoldsNext, Writing, Pos, size
<1>4. QED
  BY <1>1, <1>3
     DEF Init, IInv, HasPacket, CalmInv, InOrder, WriterAtEnd, ReaderAtStart,
         ServedInOrder, Writing

(* The types hold after every step; nothing but the history needs          *)
(* HasPacket.                                                              *)
LEMMA TypeStep ==
  ASSUME TypeOK, HasPacket, [Next]_vars
  PROVE  TypeOK' /\ HasPacket'
<1> USE CapacityAssumption, MaxPackAssumption
<1> USE DEF TypeOK, HasPacket
<1>0. 0 \in Index
  BY DEF Index, size
<1>1. CASE CopyIn
  BY <1>1 DEF CopyIn, net, Values, Packets
<1>2. CASE CopiedIn
  <2>1. lastPack \in Values
    BY <1>2 DEF CopiedIn, Values, Packets
  <2>2. QED
    BY <1>2, <2>1 DEF CopiedIn, net, hist
<1>3. CASE LoadEnd
  BY <1>3 DEF LoadEnd, ring, net, hist
<1>4. CASE StoreEnd
  BY <1>4, SuccValue DEF StoreEnd, net
<1>5. CASE TestFull
  BY <1>5 DEF TestFull, ring, net, hist
<1>6. CASE LoadStart
  BY <1>6 DEF LoadStart, ring, net, hist
<1>7. CASE StoreStart
  BY <1>7, SuccValue DEF StoreStart, net
<1>8. CASE Get
  BY <1>8 DEF Get, ring, port, hist
<1>9. CASE TestEmpty
  BY <1>9 DEF TestEmpty, ring, port, hist
<1>10. CASE CopyOut
  BY <1>10 DEF CopyOut, ring, port, hist
<1>11. CASE CopiedOut
  BY <1>11 DEF CopiedOut, ring, port, hist, Values
<1>12. CASE Advance
  BY <1>12 DEF Advance, ring, port, hist
<1>13. CASE Serve
  BY <1>13, SuccValue DEF Serve, port
<1>14. CASE Clear
  <2>1. wpc # "idle" => lastPack - 1 \in 0 .. MaxPack
    OBVIOUS
  <2>2. floor' \in 0 .. MaxPack
    BY <1>14, <2>1 DEF Clear
  <2>3. QED
    BY <1>0, <1>14, <2>2 DEF Clear, port
<1>15. CASE Cleared
  BY <1>0, <1>15 DEF Cleared, port, hist
<1>16. CASE UNCHANGED vars
  BY <1>16 DEF vars, ring, port, net, hist
<1>17. QED
  BY <1>1, <1>2, <1>3, <1>4, <1>5, <1>6, <1>7, <1>8, <1>9, <1>10, <1>11,
     <1>12, <1>13, <1>14, <1>15, <1>16 DEF Next, PortNext, NetNext

(* Both indices, and the copies of them the threads work with, stay inside *)
(* the vector, however the two threads interleave (circbuf.c:53-75).       *)
THEOREM TypeCorrect == Spec => []TypeOK
<1>1. Init => TypeOK /\ HasPacket
  BY InitInv DEF IInv
<1>2. TypeOK /\ HasPacket /\ [Next]_vars => TypeOK' /\ HasPacket'
  BY TypeStep
<1>3. QED
  BY <1>1, <1>2, PTL DEF Spec

-----------------------------------------------------------------------------
(* P's steps.  A step of P that leaves the ring calm found N outside       *)
(* cb_clear.                                                               *)
LEMMA PortCalm ==
  ASSUME IInv, PortNext, Calm'
  PROVE  Calm /\ npc' = npc /\ npc # "clearing" /\ InOrder
<1> USE DEF Calm, CalmInv, IInv, BeingCleared, net, hist
<1>1. CASE CopyIn
  BY <1>1 DEF CopyIn
<1>2. CASE CopiedIn
  BY <1>2 DEF CopiedIn
<1>3. CASE LoadEnd
  BY <1>3 DEF LoadEnd
<1>4. CASE StoreEnd
  BY <1>4 DEF StoreEnd
<1>5. CASE TestFull
  BY <1>5 DEF TestFull
<1>6. CASE LoadStart
  BY <1>6 DEF LoadStart
<1>7. CASE StoreStart
  BY <1>7 DEF StoreStart
<1>8. QED
  BY <1>1, <1>2, <1>3, <1>4, <1>5, <1>6, <1>7 DEF PortNext

(* Different places of the ring are different slots.                       *)
LEMMA PosValue ==
  ASSUME TypeOK
  PROVE  /\ \A k \in 0 .. size : Pos(k) \in Index
         /\ \A j, k \in 0 .. Capacity : Pos(j) = Pos(k) => j = k
         /\ Pos(0) = start /\ Pos(size) = start
         /\ \A k \in 0 .. Capacity : Succ(Pos(k)) = Pos(k + 1)
<1> USE CapacityAssumption DEF TypeOK, Index, size, Pos
<1>1. \A k \in 0 .. size : Pos(k) \in Index
  OBVIOUS
<1>2. \A j, k \in 0 .. Capacity : Pos(j) = Pos(k) => j = k
  OBVIOUS
<1>3. Pos(0) = start /\ Pos(size) = start
  OBVIOUS
<1>4. ASSUME NEW k \in 0 .. Capacity
      PROVE  Succ(Pos(k)) = Pos(k + 1)
  <2>1. Pos(k) \in Index
    BY <1>1
  <2>2. Succ(Pos(k)) = IF Pos(k) = size - 1 THEN 0 ELSE Pos(k) + 1
    BY <2>1, SuccValue
  <2>3. QED
    BY <2>2
<1>5. QED
  BY <1>1, <1>2, <1>3, <1>4

(* P takes the open slot; the packets in the ring are elsewhere.           *)
LEMMA CopyInCalm ==
  ASSUME IInv, TypeOK', CopyIn, Calm'
  PROVE  InOrder'
<1>1. InOrder /\ npc' = npc /\ TypeOK
  BY PortCalm DEF PortNext, IInv
<1>2. Held' = Held /\ Held \in 0 .. Capacity
  BY <1>1 DEF CopyIn, Held, Writing, InOrder, HoldsNext, TypeOK, net
<1>3. \A k : Pos(k)' = Pos(k)
  BY DEF CopyIn, Pos, size
<1>4. \A k \in 0 .. Held - 1 : Pos(k) # end
  BY <1>1, <1>2, PosValue, CapacityAssumption DEF InOrder, HoldsNext
<1>5. \A k \in 0 .. Held - 1 : Pos(k) \in Index /\ elems'[Pos(k)] = elems[Pos(k)]
  BY <1>1, <1>2, <1>4, PosValue, CapacityAssumption DEF CopyIn, TypeOK, size
<1>6. HoldsNext'
  BY <1>1, <1>2, <1>3, <1>5 DEF HoldsNext, InOrder, CopyIn, Writing, size
<1>7. WriterAtEnd'
  BY DEF CopyIn, WriterAtEnd, Writing
<1>8. ReaderAtStart' /\ ServedInOrder'
  BY <1>1, <1>2, <1>3
     DEF ReaderAtStart, ServedInOrder, InOrder, CopyIn, net
<1>9. QED
  BY <1>6, <1>7, <1>8 DEF InOrder

(* The packet is in its slot; the ring does not hold it yet.               *)
LEMMA CopiedInCalm ==
  ASSUME IInv, TypeOK', CopiedIn, Calm'
  PROVE  InOrder'
<1>1. InOrder /\ npc' = npc /\ TypeOK
  BY PortCalm DEF PortNext, IInv
<1>2. Held' = Held /\ Held \in 0 .. Capacity
  BY <1>1 DEF CopiedIn, Held, Writing, InOrder, HoldsNext, TypeOK, net, hist
<1>3. \A k : Pos(k)' = Pos(k)
  BY DEF CopiedIn, Pos, size
<1>4. \A k \in 0 .. Held - 1 : Pos(k) # end
  BY <1>1, <1>2, PosValue, CapacityAssumption DEF InOrder, HoldsNext
<1>5. slot = end
  BY <1>1 DEF CopiedIn, InOrder, WriterAtEnd, Writing
<1>6. \A k \in 0 .. Held - 1 : Pos(k) \in Index /\ elems'[Pos(k)] = elems[Pos(k)]
  BY <1>1, <1>2, <1>4, <1>5, PosValue, CapacityAssumption
     DEF CopiedIn, TypeOK, size
<1>7. HoldsNext'
  BY <1>1, <1>2, <1>3, <1>6
     DEF HoldsNext, InOrder, CopiedIn, Writing, size, hist
<1>8. WriterAtEnd'
  BY <1>1, <1>5 DEF CopiedIn, WriterAtEnd, Writing, TypeOK, hist
<1>9. ReaderAtStart' /\ ServedInOrder'
  BY <1>1, <1>2, <1>3
     DEF ReaderAtStart, ServedInOrder, InOrder, CopiedIn, net, hist
<1>10. QED
  BY <1>7, <1>8, <1>9 DEF InOrder

(* Moving end past the packet puts it into the ring.                       *)
LEMMA StoreEndCalm ==
  ASSUME IInv, TypeOK', StoreEnd, Calm'
  PROVE  InOrder'
<1>1. InOrder /\ npc' = npc /\ TypeOK
  BY PortCalm DEF PortNext, IInv
<1>2. Held' = Held + 1 /\ Held \in 0 .. Capacity
  BY <1>1 DEF StoreEnd, Held, Writing, InOrder, HoldsNext, TypeOK, net
<1>3. \A k : Pos(k)' = Pos(k)
  BY DEF StoreEnd, Pos, size
<1>4. slot = end /\ end = Pos(Held) /\ elems[end] = lastPack
  BY <1>1 DEF StoreEnd, InOrder, HoldsNext, WriterAtEnd, Writing
<1>5. end' = Pos(Held + 1)
  BY <1>1, <1>2, <1>4, PosValue DEF StoreEnd
<1>6. lastPack = floor + Len(served) + Held + 1
  BY <1>1 DEF Held, Writing, StoreEnd, TypeOK
<1>7. HoldsNext'
  <2>1. Held' \in 0 .. size
    BY <1>2, CapacityAssumption DEF size
  <2>2. ASSUME NEW k \in 0 .. Held
        PROVE  elems[Pos(k)] = floor + Len(served) + k + 1
    <3>1. CASE k = Held
      BY <1>4, <1>6, <3>1
    <3>2. CASE k \in 0 .. Held - 1
      BY <1>1, <3>2 DEF InOrder, HoldsNext
    <3>3. QED
      BY <1>2, <3>1, <3>2
  <2>3. \A k \in 0 .. Held' - 1 : k \in 0 .. Held
    BY <1>2
  <2>4. QED
    BY <1>2, <1>3, <1>5, <2>1, <2>2, <2>3
       DEF HoldsNext, StoreEnd, Writing, size
<1>8. WriterAtEnd'
  BY DEF StoreEnd, WriterAtEnd, Writing
<1>9. ReaderAtStart'
  <2>1. 0 .. Held \subseteq 0 .. Held + 1 /\ (Held >= 1 => Held + 1 >= 1)
    BY <1>2
  <2>2. QED
    BY <1>1, <1>2, <1>3, <2>1 DEF ReaderAtStart, InOrder, StoreEnd, net
<1>10. ServedInOrder'
  BY <1>1 DEF ServedInOrder, InOrder, StoreEnd
<1>11. QED
  BY <1>7, <1>8, <1>9, <1>10 DEF InOrder

(* A write that goes past TestFull leaves the open slot open.              *)
LEMMA TestFullCalm ==
  ASSUME IInv, TypeOK', TestFull, Calm'
  PROVE  InOrder'
<1>1. InOrder /\ npc' = npc /\ TypeOK
  BY PortCalm DEF PortNext, IInv
<1>2. Held' = Held /\ Held \in 0 .. size
  BY <1>1 DEF TestFull, Held, Writing, InOrder, HoldsNext, TypeOK, net, hist
<1>3. \A k : Pos(k)' = Pos(k)
  BY DEF TestFull, Pos, size, ring
<1>4. wpc' = "idle" => Held <= Capacity
  <2>1. SUFFICES ASSUME end # start PROVE Held # size
    BY <1>2, CapacityAssumption DEF TestFull, size
  <2>2. QED
    BY <1>1, <2>1, PosValue DEF InOrder, HoldsNext
<1>5. HoldsNext' /\ WriterAtEnd'
  BY <1>1, <1>2, <1>3, <1>4
     DEF HoldsNext, WriterAtEnd, InOrder, TestFull, Writing, size, ring, hist
<1>6. ReaderAtStart' /\ ServedInOrder'
  BY <1>1, <1>2, <1>3
     DEF ReaderAtStart, ServedInOrder, InOrder, TestFull, net, hist, ring
<1>7. QED
  BY <1>5, <1>6 DEF InOrder

(* P's loads disturb nothing.                                              *)
LEMMA LoadsCalm ==
  ASSUME IInv, TypeOK', LoadEnd \/ LoadStart, Calm'
  PROVE  InOrder'
<1>1. InOrder /\ npc' = npc /\ TypeOK
  BY PortCalm DEF PortNext, IInv
<1>2. Held' = Held /\ (Writing' \/ wpc' = "idle" => Writing)
  BY DEF LoadEnd, LoadStart, Held, Writing, hist
<1>3. \A k : Pos(k)' = Pos(k)
  BY DEF LoadEnd, LoadStart, Pos, size, ring
<1>4. HoldsNext'
  BY <1>1, <1>2, <1>3
     DEF HoldsNext, InOrder, LoadEnd, LoadStart, size, ring, hist
<1>5. WriterAtEnd'
  BY <1>1 DEF WriterAtEnd, InOrder, LoadEnd, LoadStart, Writing, ring, hist
<1>6. ReaderAtStart' /\ ServedInOrder'
  BY <1>1, <1>2, <1>3
     DEF ReaderAtStart, ServedInOrder, InOrder, LoadEnd, LoadStart,
         net, hist, ring
<1>7. QED
  BY <1>4, <1>5, <1>6 DEF InOrder

-----------------------------------------------------------------------------
(* N's steps.                                                              *)

(* Steps that touch neither the ring nor the history.                      *)
NetLocal == UNCHANGED <<ring, port, hist>>

LEMMA NetLocalCalm ==
  ASSUME IInv, NetLocal, Calm', npc # "clearing", ReaderAtStart'
  PROVE  InOrder'
<1>1. InOrder
  BY DEF IInv, CalmInv, Calm, NetLocal, hist
<1>2. Held' = Held /\ (Writing' <=> Writing)
  BY DEF NetLocal, Held, Writing, port, hist
<1>3. \A k : Pos(k)' = Pos(k)
  BY DEF NetLocal, Pos, size, ring
<1>4. HoldsNext' /\ WriterAtEnd' /\ ServedInOrder'
  BY <1>1, <1>2, <1>3
     DEF InOrder, HoldsNext, WriterAtEnd, ServedInOrder, NetLocal, size,
         Writing, ring, port, hist
<1>5. QED
  BY <1>4 DEF InOrder

(* What N knows after each of its loads and copies.                        *)
LEMMA ReadingCalm ==
  ASSUME IInv, TypeOK', Calm',
         Get \/ TestEmpty \/ CopyOut \/ CopiedOut \/ Advance
  PROVE  InOrder'
<1>1. NetLocal
  BY DEF Get, TestEmpty, CopyOut, CopiedOut, Advance, NetLocal
<1>2. npc # "clearing"
  BY DEF Get, TestEmpty, CopyOut, CopiedOut, Advance
<1>3. InOrder /\ TypeOK
  BY <1>1, <1>2 DEF IInv, CalmInv, Calm, NetLocal, hist
<1>4. Held' = Held /\ Held \in 0 .. size
  BY <1>1, <1>3 DEF NetLocal, Held, Writing, port, hist, InOrder, HoldsNext
<1>5. \A k : Pos(k)' = Pos(k)
  BY <1>1 DEF NetLocal, Pos, size, ring
<1>6. start' = start /\ elems' = elems /\ floor' = floor /\ served' = served
  BY <1>1 DEF NetLocal, ring, hist
<1>7. CASE Get
  <2>1. index' = Pos(Held)
    BY <1>3, <1>7 DEF Get, InOrder, HoldsNext
  <2>2. ReaderAtStart'
    BY <1>4, <1>5, <1>7, <2>1 DEF Get, ReaderAtStart
  <2>3. QED
    BY <1>1, <1>2, <2>2, NetLocalCalm
<1>8. CASE TestEmpty
  <2>1. ASSUME index # start PROVE Held >= 1
    <3>1. PICK d \in 0 .. Held : index = Pos(d)
      BY <1>3, <1>8 DEF TestEmpty, InOrder, ReaderAtStart
    <3>2. d # 0
      BY <1>3, <2>1, <3>1, PosValue
    <3>3. QED
      BY <1>4, <3>2
  <2>2. ReaderAtStart'
    BY <1>4, <1>8, <2>1 DEF TestEmpty, ReaderAtStart
  <2>3. QED
    BY <1>1, <1>2, <2>2, NetLocalCalm
<1>9. CASE CopyOut
  <2>1. Held >= 1 /\ elems[Pos(0)] = floor + Len(served) + 0 + 1
    BY <1>3, <1>4, <1>9 DEF CopyOut, InOrder, ReaderAtStart, HoldsNext
  <2>2. Pos(0) = start
    BY <1>3, PosValue
  <2>3. pack' = floor + Len(served) + 1
    BY <1>3, <1>9, <2>1, <2>2 DEF CopyOut, TypeOK
  <2>4. ReaderAtStart'
    BY <1>4, <1>6, <1>9, <2>1, <2>3 DEF CopyOut, ReaderAtStart
  <2>5. QED
    BY <1>1, <1>2, <2>4, NetLocalCalm
<1>10. CASE CopiedOut
  <2>1. Held >= 1 /\ index = start /\ elems[Pos(0)] = floor + Len(served) + 0 + 1
    BY <1>3, <1>4, <1>10 DEF CopiedOut, InOrder, ReaderAtStart, HoldsNext
  <2>2. Pos(0) = start
    BY <1>3, PosValue
  <2>3. pack = floor + Len(served) + 1 /\ elems[index] = pack
    BY <1>3, <1>10, <2>1, <2>2 DEF CopiedOut, InOrder, ReaderAtStart, TypeOK
  <2>4. pack' = pack
    BY <1>10, <2>3 DEF CopiedOut
  <2>5. ReaderAtStart'
    BY <1>4, <1>6, <1>10, <2>1, <2>3, <2>4 DEF CopiedOut, ReaderAtStart
  <2>6. QED
    BY <1>1, <1>2, <2>5, NetLocalCalm
<1>11. CASE Advance
  <2>1. ReaderAtStart'
    BY <1>3, <1>4, <1>6, <1>11 DEF Advance, InOrder, ReaderAtStart
  <2>2. QED
    BY <1>1, <1>2, <2>1, NetLocalCalm
<1>12. QED
  BY <1>7, <1>8, <1>9, <1>10, <1>11

(* Serving takes the oldest packet out of the ring.                        *)
LEMMA ServeCalm ==
  ASSUME IInv, TypeOK', Serve, Calm'
  PROVE  InOrder'
<1>1. InOrder /\ TypeOK
  BY DEF IInv, CalmInv, Calm, Serve
<1>2. /\ Held \in 1 .. size /\ index = start
      /\ pack = floor + Len(served) + 1
  BY <1>1 DEF Serve, InOrder, HoldsNext, ReaderAtStart
<1>3. /\ served' = Append(served, pack) /\ Len(served') = Len(served) + 1
      /\ Len(served) \in Nat
  BY <1>1 DEF Serve, TypeOK
<1>4. Held' = Held - 1
  BY <1>1, <1>3 DEF Serve, Held, Writing, port, TypeOK
<1>5. start' = IF start = size - 1 THEN 0 ELSE start + 1
  BY <1>1, <1>2, SuccValue DEF Serve, TypeOK
<1>6. \A k \in 0 .. Capacity : Pos(k)' = Pos(k + 1)
  BY <1>1, <1>5, CapacityAssumption DEF Pos, TypeOK, Index, size
<1>7. HoldsNext'
  <2>1. Held' \in 0 .. size /\ Held' \in 0 .. Capacity
    BY <1>2, <1>4, CapacityAssumption DEF size
  <2>2. ASSUME NEW h \in 0 .. Capacity, h = Held - 1
        PROVE  end' = Pos(h)'
    <3>1. Pos(h)' = Pos(h + 1) /\ h + 1 = Held
      BY <1>2, <1>6, <2>2, CapacityAssumption DEF size
    <3>2. QED
      BY <1>1, <3>1 DEF Serve, InOrder, HoldsNext
  <2>3. ASSUME NEW k \in 0 .. Held' - 1
        PROVE  elems'[Pos(k)'] = floor' + Len(served') + k + 1
    <3>1. k + 1 \in 0 .. Held - 1 /\ k \in 0 .. Capacity
      BY <1>2, <1>4, <2>1, CapacityAssumption DEF size
    <3>2. elems[Pos(k + 1)] = floor + Len(served) + (k + 1) + 1
      BY <1>1, <3>1 DEF InOrder, HoldsNext
    <3>3. elems'[Pos(k)'] = floor + Len(served) + (k + 1) + 1
      BY <1>6, <3>1, <3>2 DEF Serve
    <3>4. QED
      BY <1>1, <1>3, <3>3 DEF Serve, TypeOK
  <2>4. end' = Pos(Held)'
    BY <1>4, <2>1, <2>2 DEF Pos
  <2>5. (Writing \/ wpc = "idle")' => Held' <= Capacity
    BY <2>1, CapacityAssumption
  <2>6. QED
    BY <2>1, <2>3, <2>4, <2>5 DEF HoldsNext, Pos, size
<1>8. WriterAtEnd' /\ ReaderAtStart'
  BY <1>1
     DEF Serve, InOrder, WriterAtEnd, ReaderAtStart, Writing, port
<1>9. ServedInOrder'
  <2>1. ASSUME NEW i \in 1 .. Len(served')
        PROVE  served'[i] = floor' + i
    <3>1. CASE i = Len(served) + 1
      BY <1>1, <1>2, <1>3, <3>1 DEF Serve, TypeOK
    <3>2. CASE i \in 1 .. Len(served)
      BY <1>1, <1>3, <3>2 DEF Serve, TypeOK, InOrder, ServedInOrder
    <3>3. QED
      BY <1>3, <3>1, <3>2
  <2>2. QED
    BY <2>1 DEF ServedInOrder
<1>10. QED
  BY <1>7, <1>8, <1>9 DEF InOrder

(* A clear that meets no write leaves the ring empty.                      *)
LEMMA ClearedCalm ==
  ASSUME IInv, TypeOK', Cleared, Calm'
  PROVE  InOrder'
<1>1. BeingCleared /\ TypeOK
  BY DEF IInv, CalmInv, Calm, Cleared, hist
<1>2. /\ wpc' = "idle" /\ start' = 0 /\ end' = 0 /\ floor' = lastPack'
      /\ served' = << >> /\ npc' = "idle"
  BY <1>1 DEF Cleared, BeingCleared, port, hist
<1>3. Held' = 0
  BY <1>2 DEF Held, Writing, TypeOK
<1>4. HoldsNext'
  BY <1>2, <1>3, CapacityAssumption DEF HoldsNext, Writing, Pos, size
<1>5. QED
  BY <1>2, <1>4
     DEF InOrder, WriterAtEnd, ReaderAtStart, ServedInOrder, Writing

(* Every step preserves the invariant.                                     *)
LEMMA Step == IInv /\ [Next]_vars => IInv'
<1> SUFFICES ASSUME IInv, [Next]_vars PROVE IInv'
  OBVIOUS
<1>1. TypeOK' /\ HasPacket'
  BY TypeStep DEF IInv
<1>2. SUFFICES ASSUME Calm'
               PROVE  IF npc' = "clearing" THEN BeingCleared' ELSE InOrder'
  BY <1>1 DEF IInv, CalmInv
<1>3. CASE PortNext
  <2>1. npc' # "clearing" /\ ~ overrun'
    BY <1>2, <1>3, PortCalm DEF Calm
  <2>2. InOrder'
    <3>1. ~ StoreStart
      BY <2>1 DEF StoreStart
    <3>2. QED
      BY <1>1, <1>2, <1>3, <3>1, CopyInCalm, CopiedInCalm, StoreEndCalm,
         TestFullCalm, LoadsCalm DEF PortNext
  <2>3. QED
    BY <2>1, <2>2
<1>4. CASE Get \/ TestEmpty \/ CopyOut \/ CopiedOut \/ Advance
  <2>1. npc' # "clearing"
    BY <1>4 DEF Get, TestEmpty, CopyOut, CopiedOut, Advance
  <2>2. QED
    BY <1>1, <1>2, <1>4, <2>1, ReadingCalm
<1>5. CASE Serve
  <2>1. npc' # "clearing"
    BY <1>5 DEF Serve
  <2>2. QED
    BY <1>1, <1>2, <1>5, <2>1, ServeCalm
<1>6. CASE Clear
  BY <1>2, <1>6 DEF Clear, Calm, BeingCleared, port
<1>7. CASE Cleared
  <2>1. npc' # "clearing"
    BY <1>7 DEF Cleared
  <2>2. QED
    BY <1>1, <1>2, <1>7, <2>1, ClearedCalm
<1>8. CASE UNCHANGED vars
  BY <1>2, <1>8
     DEF IInv, CalmInv, Calm, BeingCleared, InOrder, HoldsNext, WriterAtEnd,
         ReaderAtStart, ServedInOrder, Held, Writing, Pos, size,
         vars, ring, port, net, hist
<1>9. QED
  BY <1>3, <1>4, <1>5, <1>6, <1>7, <1>8 DEF Next, NetNext

(* The invariant is stronger than the property.                            *)
LEMMA InvFifo == IInv => FifoUntilOverrun
<1> SUFFICES ASSUME IInv, Calm PROVE ServedInOrder
  BY DEF FifoUntilOverrun, ServedInOrder, Calm
<1>1. CASE npc = "clearing"
  BY <1>1 DEF IInv, CalmInv, BeingCleared, ServedInOrder
<1>2. CASE npc # "clearing"
  BY <1>2 DEF IInv, CalmInv, InOrder
<1>3. QED
  BY <1>1, <1>2

(* For every size of the ring: until a write first pushes the start, the   *)
(* client is served the packets from the last clean CLR_BUF on in their    *)
(* order, without loss, repetition or a torn copy (circbuf.c:62-75 called  *)
(* from mythreads.c:252 and :540-543).                                     *)
THEOREM Fifo == Spec => []FifoUntilOverrun
<1>1. IInv /\ [Next]_vars => IInv'
  BY Step
<1>2. QED
  BY InitInv, InvFifo, <1>1, PTL DEF Spec
=============================================================================
