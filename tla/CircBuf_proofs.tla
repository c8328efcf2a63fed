--------------------------- MODULE CircBuf_proofs ---------------------------
(***************************************************************************)
(* Proofs about CircBuf.tla for every capacity and every set of packets.   *)
(***************************************************************************)
EXTENDS CircBuf, SequenceTheorems, TLAPS

(* Going round the vector at most once: for the values the code computes,  *)
(* the remainder is a subtraction.                                         *)
LEMMA Wrap ==
  ASSUME NEW x \in 0 .. 2 * size - 1
  PROVE  x % size = IF x < size THEN x ELSE x - size
  BY CapacityAssumption DEF size

(* The successor of an index is an index.                                  *)
LEMMA SuccValue ==
  ASSUME NEW i \in Index
  PROVE  /\ Succ(i) = IF i = size - 1 THEN 0 ELSE i + 1
         /\ Succ(i) \in Index
  BY CapacityAssumption, Wrap DEF Succ, Index, size

(* Both indices of the ring stay inside the vector, whatever is called     *)
(* (circbuf.c: cb_write, cb_read, cb_clear).                               *)
THEOREM TypeCorrect == Spec => []TypeOK
<1>1. Init => TypeOK
  BY CapacityAssumption DEF Init, cb_init, TypeOK, Index, size
<1>2. TypeOK /\ [Next]_vars => TypeOK'
  <2> SUFFICES ASSUME TypeOK, [Next]_vars
               PROVE  TypeOK'
    OBVIOUS
  <2>1. ASSUME NEW e \in Elem, cb_write(e)
        PROVE  TypeOK'
    BY <2>1, SuccValue DEF cb_write, TypeOK
  <2>2. CASE cb_read
    BY <2>2, SuccValue DEF cb_read, TypeOK
  <2>3. CASE cb_clear
    BY <2>3, CapacityAssumption DEF cb_clear, TypeOK, Index, size
  <2>4. CASE UNCHANGED vars
    BY <2>4 DEF vars, TypeOK
  <2>5. QED
    BY <2>1, <2>2, <2>3, <2>4 DEF Next
<1>3. QED
  BY <1>1, <1>2, PTL DEF Spec

-----------------------------------------------------------------------------
Slots == Elem \cup {Zero}

(* What the abstract queue of a well-typed ring looks like.                *)
ContentsShape ==
  /\ Count \in 0 .. Capacity
  /\ Contents \in Seq(Slots)
  /\ Len(Contents) = Count
  /\ \A i \in 1 .. Count :
        /\ Slot(i - 1) = IF start + i - 1 < size
                           THEN start + i - 1 ELSE start + i - 1 - size
        /\ Slot(i - 1) \in Index
        /\ Contents[i] = elems[Slot(i - 1)]

(* The contents are a sequence of at most Capacity elements.               *)
LEMMA Shape == TypeOK => ContentsShape
<1> SUFFICES ASSUME TypeOK PROVE ContentsShape
  OBVIOUS
<1>1. Count \in 0 .. Capacity
  BY CapacityAssumption DEF TypeOK, Index, size, Count
<1>2. ASSUME NEW i \in 1 .. Count
      PROVE  /\ Slot(i - 1) = IF start + i - 1 < size
                                THEN start + i - 1 ELSE start + i - 1 - size
             /\ Slot(i - 1) \in Index
  BY <1>1, CapacityAssumption DEF Slot, Index, size, TypeOK
<1>3. Contents \in [1 .. Count -> Slots]
  BY <1>2 DEF Contents, TypeOK, Slots
<1>4. Contents \in Seq(Slots)
  BY <1>1, <1>3, SeqDef
<1>5. Len(Contents) = Count
  BY <1>1, <1>3, <1>4, LenProperties
<1>6. QED
  BY <1>1, <1>2, <1>4, <1>5 DEF ContentsShape, Contents

(* A write into a ring that is not full appends to the queue.              *)
LEMMA WriteAppends ==
  ASSUME TypeOK, TypeOK', NEW e \in Elem, cb_write(e), Succ(end) # start
  PROVE  Count < Capacity /\ Contents' = Append(Contents, e)
<1>1. ContentsShape /\ ContentsShape'
  BY Shape, PTL
<1>2. /\ start' = start
      /\ Succ(end) = IF end = size - 1 THEN 0 ELSE end + 1
      /\ end' = Succ(end)
  BY SuccValue DEF cb_write, TypeOK
<1>3. Count' = Count + 1 /\ Count < Capacity
  BY <1>2, CapacityAssumption DEF Count, TypeOK, Index, size
<1>4. /\ Append(Contents, e) \in Seq(Slots)
      /\ Len(Append(Contents, e)) = Count + 1
      /\ \A i \in 1 .. Count : Append(Contents, e)[i] = Contents[i]
      /\ Append(Contents, e)[Count + 1] = e
  BY <1>1 DEF ContentsShape, Slots
<1>5. ASSUME NEW i \in 1 .. Count + 1
      PROVE  Contents'[i] = Append(Contents, e)[i]
  <2>1. Contents'[i] = elems'[Slot(i - 1)']
    BY <1>1, <1>3 DEF ContentsShape
  <2>2. Slot(i - 1)' = Slot(i - 1)
    BY <1>2 DEF Slot, size
  <2>3. CASE i \in 1 .. Count
    <3>1. Slot(i - 1) # end
      BY <1>3, <2>3, CapacityAssumption DEF Slot, Count, TypeOK, Index, size
    <3>2. QED
      BY <1>1, <1>4, <2>1, <2>2, <2>3, <3>1
         DEF ContentsShape, cb_write, TypeOK
  <2>4. CASE i = Count + 1
    <3>1. Slot(i - 1)' = end
      BY <1>2, <1>3, <2>4, CapacityAssumption
         DEF Slot, Count, TypeOK, Index, size
    <3>2. QED
      BY <1>4, <2>1, <2>4, <3>1 DEF cb_write, TypeOK
  <2>5. QED
    BY <1>1, <2>3, <2>4 DEF ContentsShape
<1>6. QED
  BY <1>1, <1>3, <1>4, <1>5, SeqEqual DEF ContentsShape

(* A write into a full ring drops the oldest element, then appends.        *)
LEMMA WriteOverwrites ==
  ASSUME TypeOK, TypeOK', NEW e \in Elem, cb_write(e), Succ(end) = start
  PROVE  Count = Capacity /\ Contents' = Append(Tail(Contents), e)
<1>1. ContentsShape /\ ContentsShape'
  BY Shape, PTL
<1>2. /\ start = IF end = size - 1 THEN 0 ELSE end + 1
      /\ end' = start
      /\ start' = IF start = size - 1 THEN 0 ELSE start + 1
  BY SuccValue DEF cb_write, TypeOK
<1>3. Count = Capacity /\ Count' = Capacity
  BY <1>2, CapacityAssumption DEF Count, TypeOK, Index, size
<1>4. /\ Tail(Contents) \in Seq(Slots)
      /\ Len(Tail(Contents)) = Capacity - 1
      /\ \A i \in 1 .. Capacity - 1 : Tail(Contents)[i] = Contents[i + 1]
  BY <1>1, <1>3, HeadTailProperties, EmptySeq, CapacityAssumption
     DEF ContentsShape
<1>5. /\ Append(Tail(Contents), e) \in Seq(Slots)
      /\ Len(Append(Tail(Contents), e)) = Capacity
      /\ \A i \in 1 .. Capacity - 1 :
            Append(Tail(Contents), e)[i] = Tail(Contents)[i]
      /\ Append(Tail(Contents), e)[Capacity] = e
  BY <1>4, CapacityAssumption DEF Slots
<1>6. ASSUME NEW i \in 1 .. Capacity
      PROVE  Contents'[i] = Append(Tail(Contents), e)[i]
  <2>1. /\ Contents'[i] = elems'[Slot(i - 1)']
        /\ Slot(i - 1)' = IF start' + i - 1 < size
                        THEN start' + i - 1 ELSE start' + i - 1 - size
    BY <1>1, <1>3 DEF ContentsShape, size
  <2>2. CASE i \in 1 .. Capacity - 1
    <3>1. /\ Contents[i + 1] = elems[Slot(i)]
          /\ Slot(i) \in Index
          /\ Slot(i) = IF start + i < size
                             THEN start + i ELSE start + i - size
      <4>1. i + 1 \in 1 .. Count
        BY <1>3, <2>2, CapacityAssumption
      <4>2. (i + 1) - 1 = i
        BY <2>2
      <4>3. Contents[i + 1] = elems[Slot(i)] /\ Slot(i) \in Index
        BY <1>1, <4>1, <4>2 DEF ContentsShape
      <4>4. QED
        BY <4>3 DEF Slot
    <3>2. Slot(i - 1)' = Slot(i) /\ Slot(i) # end
      BY <1>2, <2>1, <2>2, <3>1, CapacityAssumption DEF TypeOK, Index, size
    <3>3. QED
      BY <1>4, <1>5, <2>1, <2>2, <3>1, <3>2 DEF cb_write, TypeOK
  <2>3. CASE i = Capacity
    <3>1. Slot(i - 1)' = end
      BY <1>2, <2>1, <2>3, CapacityAssumption DEF TypeOK, Index, size
    <3>2. QED
      BY <1>5, <2>1, <2>3, <3>1 DEF cb_write, TypeOK
  <2>4. i \in 1 .. Capacity - 1 \/ i = Capacity
    BY CapacityAssumption
  <2>5. QED
    BY <2>2, <2>3, <2>4
<1>7. QED
  BY <1>1, <1>3, <1>5, <1>6, SeqEqual DEF ContentsShape

(* A read takes the head off the queue.                                    *)
LEMMA ReadTakesHead ==
  ASSUME TypeOK, TypeOK', cb_read
  PROVE  Contents # << >> /\ out' = Head(Contents) /\ Contents' = Tail(Contents)
<1>1. ContentsShape /\ ContentsShape'
  BY Shape, PTL
<1>2. /\ start' = IF start = size - 1 THEN 0 ELSE start + 1
      /\ end' = end /\ end # start
  BY SuccValue DEF cb_read, cb_is_empty, TypeOK
<1>3. Count \in 1 .. Capacity /\ Count' = Count - 1
  <2>1. start \in 0 .. Capacity /\ end \in 0 .. Capacity
    BY CapacityAssumption DEF TypeOK, Index, size
  <2>2. QED
    BY <1>2, <2>1, CapacityAssumption DEF Count, size
<1>4. Contents # << >>
  BY <1>1, <1>3, EmptySeq DEF ContentsShape
<1>5. out' = Head(Contents)
  <2>1. Slot(0) = start /\ Contents[1] = elems[Slot(0)]
    <3>1. 1 \in 1 .. Count /\ 1 - 1 = 0
      BY <1>3
    <3>2. Contents[1] = elems[Slot(0)]
      BY <1>1, <3>1 DEF ContentsShape
    <3>3. Slot(0) = start
      BY CapacityAssumption DEF Slot, TypeOK, Index, size
    <3>4. QED
      BY <3>2, <3>3
  <2>2. Head(Contents) = Contents[1]
    BY <1>1, <1>4 DEF ContentsShape
  <2>3. QED
    BY <2>1, <2>2 DEF cb_read
<1>6. /\ Tail(Contents) \in Seq(Slots)
      /\ Len(Tail(Contents)) = Count - 1
      /\ \A i \in 1 .. Count - 1 : Tail(Contents)[i] = Contents[i + 1]
  BY <1>1, <1>4, HeadTailProperties DEF ContentsShape
<1>7. ASSUME NEW i \in 1 .. Count - 1
      PROVE  Contents'[i] = Tail(Contents)[i]
  <2>1. /\ Contents'[i] = elems'[Slot(i - 1)']
        /\ Slot(i - 1)' = IF start' + i - 1 < size
                        THEN start' + i - 1 ELSE start' + i - 1 - size
    BY <1>1, <1>3 DEF ContentsShape, size
  <2>2. /\ Contents[i + 1] = elems[Slot(i)]
        /\ Slot(i) = IF start + i < size THEN start + i ELSE start + i - size
    <3>1. i + 1 \in 1 .. Count /\ (i + 1) - 1 = i
      BY <1>3
    <3>2. Contents[i + 1] = elems[Slot(i)]
      BY <1>1, <3>1 DEF ContentsShape
    <3>3. QED
      BY <3>2 DEF Slot
  <2>3. Slot(i - 1)' = Slot(i)
    BY <1>2, <1>3, <2>1, <2>2, CapacityAssumption DEF TypeOK, Index, size
  <2>4. QED
    BY <1>6, <2>1, <2>2, <2>3 DEF cb_read
<1>8. QED
  BY <1>1, <1>3, <1>4, <1>5, <1>6, <1>7, SeqEqual DEF ContentsShape

(* A ring whose indices agree holds nothing.                               *)
HoldsNothing == Contents = << >>

LEMMA EqualIndicesEmpty == TypeOK /\ cb_is_empty => HoldsNothing
<1> SUFFICES ASSUME TypeOK, start = end PROVE Contents = << >>
  BY DEF cb_is_empty, HoldsNothing
<1>1. ContentsShape
  BY Shape
<1>2. Count = 0
  BY CapacityAssumption DEF Count, TypeOK, Index, size
<1>3. QED
  BY <1>1, <1>2, EmptySeq, SeqEqual DEF ContentsShape

(* The ring buffer implements the overwriting queue: every call of         *)
(* circbuf.c is the queue operation of the same name on Contents.          *)
THEOREM Implements == Spec => ImplementsQueue
<1>1. Init => Queue!Init
  <2> SUFFICES ASSUME Init PROVE Queue!Init
    OBVIOUS
  <2>1. TypeOK /\ start = end
    BY CapacityAssumption DEF Init, cb_init, TypeOK, Index, size
  <2>2. QED
    BY <2>1, EqualIndicesEmpty DEF Queue!Init, Init, cb_is_empty, HoldsNothing
<1>2. TypeOK /\ TypeOK' /\ [Next]_vars => [Queue!Next]_(Queue!vars)
  <2> SUFFICES ASSUME TypeOK, TypeOK', [Next]_vars
               PROVE  [Queue!Next]_(Queue!vars)
    OBVIOUS
  <2>1. ASSUME NEW e \in Elem, cb_write(e)
        PROVE  Queue!Put(e)
    <3>1. Len(Contents) = Count
      BY Shape DEF ContentsShape
    <3>2. out' = out /\ call' = <<"write", e>>
      BY <2>1 DEF cb_write
    <3>3. CASE Succ(end) = start
      BY <2>1, <3>1, <3>2, <3>3, WriteOverwrites, CapacityAssumption
         DEF Queue!Put
    <3>4. CASE Succ(end) # start
      BY <2>1, <3>1, <3>2, <3>4, WriteAppends DEF Queue!Put
    <3>5. QED
      BY <3>3, <3>4
  <2>2. CASE cb_read
    BY <2>2, ReadTakesHead DEF cb_read, Queue!Next, Queue!Get
  <2>3. CASE cb_clear
    <3>1. Contents' = << >>
      <4>1. TypeOK' /\ cb_is_empty' => HoldsNothing'
        BY EqualIndicesEmpty, PTL
      <4>2. QED
        BY <2>3, <4>1 DEF cb_clear, cb_is_empty, HoldsNothing
    <3>2. QED
      BY <2>3, <3>1 DEF cb_clear, Queue!Next, Queue!Clear
  <2>4. CASE UNCHANGED vars
    BY <2>4 DEF vars, Queue!vars, Contents, Count, Slot
  <2>5. QED
    BY <2>1, <2>2, <2>3, <2>4 DEF Next, Queue!Next
<1>3. QED
  BY <1>1, <1>2, TypeCorrect, PTL DEF Spec, ImplementsQueue, Queue!Spec
=============================================================================
