------------------------- MODULE SerialPort_proofs -------------------------
(***************************************************************************)
(* Proofs about SerialPort: its type, that nothing is taken for good twice *)
(* however late the answers are, and that the exchanges stay in step until *)
(* an answer comes late.                                                   *)
(***************************************************************************)
EXTENDS SerialPort, SequenceTheorems, TLAPS

(* Units come in the order of the commands they answer, and a header is    *)
(* the first unit of its answer.                                           *)
Ordered ==
  \A i \in 1 .. Len(sent) :
    /\ sent[i].cmd <= asked
    /\ \A j \in 1 .. Len(sent) :
         i < j /\ sent[j].part = 1 => sent[i].cmd < sent[j].cmd

(* What this exchange (or, between exchanges, the next one) has in front   *)
(* of it has headers of later answers only than the one last taken.        *)
Fresh ==
  /\ lastUsed <= asked
  /\ \A i \in 1 .. Len(sent) :
       i > (IF cs = Free THEN taken ELSE begin) /\ sent[i].part = 1 => lastUsed < sent[i].cmd

(* As long as no answer was late: the line holds no more than the answer   *)
(* to the command of this exchange, which is what it asks for or shorter.  *)
OneAnswer ==
  ~ late /\ ~ early =>
    IF cs = Free THEN taken = Len(sent)
    ELSE /\ Len(sent) <= begin + Wanted(pc[cs])
         /\ \A i \in begin + 1 .. Len(sent) : sent[i].cmd = asked
         /\ step = "check" => taken = Len(sent)

IInv == TypeOK /\ Ordered /\ Fresh /\ OneAnswer

-----------------------------------------------------------------------------
(* A short status is one unit, nothing is longer than a packet, and no two *)
(* kinds have the same length.                                             *)
LEMMA Lengths ==
  /\ LengthOf("short") = 1 /\ LengthOf("status") = StatusLen /\ LengthOf("data") = DataLen
  /\ \A kind \in {"short", "status", "data"} :
       /\ LengthOf(kind) \in 1 .. DataLen
       /\ LengthOf(kind) = DataLen => kind = "data"
<1>1. LengthOf("short") = 1 /\ LengthOf("status") = StatusLen /\ LengthOf("data") = DataLen
  BY DEF LengthOf
<1> QED
  BY <1>1, LengthAssumption

(* What a command asks for.                                                *)
LEMMA WantedType ==
  ASSUME NEW c \in Cmds
  PROVE  /\ Wanted(c) \in 1 .. DataLen
         /\ \A kind \in Kinds(c) :
              kind \in {"short", "status", "data"} /\ LengthOf(kind) <= Wanted(c)
<1>1. CASE c = "status"
  BY <1>1, Lengths, LengthAssumption DEF Wanted, Kinds
<1>2. CASE c = "data"
  BY <1>2, Lengths, LengthAssumption DEF Wanted, Kinds
<1>3. CASE c \notin {"status", "data"}
  <2>1. Wanted(c) = 1 /\ Kinds(c) = {"short"}
    BY <1>3 DEF Wanted, Kinds
  <2> QED
    BY <2>1, Lengths, LengthAssumption
<1> QED
  BY <1>1, <1>2, <1>3

(* An answer behind what was sent before.                                  *)
LEMMA Appended ==
  ASSUME NEW s \in Seq(Units), NEW n \in 1 .. MaxCommands,
         NEW kind \in {"short", "status", "data"}
  PROVE  /\ s \o Answer(n, kind) \in Seq(Units)
         /\ Len(s \o Answer(n, kind)) = Len(s) + LengthOf(kind)
         /\ \A i \in 1 .. Len(s) : (s \o Answer(n, kind))[i] = s[i]
         /\ \A i \in Len(s) + 1 .. Len(s) + LengthOf(kind) :
              /\ (s \o Answer(n, kind))[i].cmd = n
              /\ (s \o Answer(n, kind))[i].part = i - Len(s)
<1> DEFINE a == Answer(n, kind)
<1>1. LengthOf(kind) \in Nat /\ LengthOf(kind) <= DataLen
  BY Lengths, LengthAssumption
<1>2. \A p \in 1 .. LengthOf(kind) : [cmd |-> n, kind |-> kind, part |-> p] \in Units
  BY <1>1, LengthAssumption DEF Units
<1>3. a \in Seq(Units)
  <2>1. a \in [1 .. LengthOf(kind) -> Units]
    BY <1>2 DEF Answer
  <2> QED
    BY <1>1, <2>1
<1>4. Len(a) = LengthOf(kind)
  BY <1>1, <1>3 DEF Answer
<1>5. \A i \in 1 .. LengthOf(kind) : a[i] = [cmd |-> n, kind |-> kind, part |-> i]
  BY DEF Answer
<1> HIDE DEF a
<1>6. /\ s \o a \in Seq(Units)
      /\ Len(s \o a) = Len(s) + Len(a)
      /\ \A i \in 1 .. Len(s) + Len(a) :
           (s \o a)[i] = IF i <= Len(s) THEN s[i] ELSE a[i - Len(s)]
  BY <1>3, ConcatProperties
<1>7. Len(s) \in Nat
  BY LenProperties
<1>8. ASSUME NEW i \in Len(s) + 1 .. Len(s) + LengthOf(kind)
      PROVE  (s \o a)[i] = [cmd |-> n, kind |-> kind, part |-> i - Len(s)]
  <2>1. i - Len(s) \in 1 .. LengthOf(kind) /\ i \in 1 .. Len(s) + Len(a) /\ ~ i <= Len(s)
    BY <1>1, <1>4, <1>7
  <2> QED
    BY <1>5, <1>6, <2>1
<1>9. \A i \in 1 .. Len(s) : (s \o a)[i] = s[i]
  <2> SUFFICES ASSUME NEW i \in 1 .. Len(s) PROVE (s \o a)[i] = s[i]
    OBVIOUS
  <2>1. i \in 1 .. Len(s) + Len(a) /\ i <= Len(s)
    BY <1>1, <1>4, <1>7
  <2> QED
    BY <1>6, <2>1
<1> QED
  <2>1. Len(s \o a) = Len(s) + LengthOf(kind) /\ s \o a \in Seq(Units)
    BY <1>4, <1>6
  <2>2. ASSUME NEW i \in Len(s) + 1 .. Len(s) + LengthOf(kind)
        PROVE  (s \o a)[i].cmd = n /\ (s \o a)[i].part = i - Len(s)
    <3>1. (s \o a)[i] = [cmd |-> n, kind |-> kind, part |-> i - Len(s)]
      BY <1>8
    <3>2. /\ [cmd |-> n, kind |-> kind, part |-> i - Len(s)].cmd = n
          /\ [cmd |-> n, kind |-> kind, part |-> i - Len(s)].part = i - Len(s)
      OBVIOUS
    <3> QED
      BY <3>1, <3>2, Zenon
  <2> QED
    BY <2>1, <2>2, <1>9 DEF a

-----------------------------------------------------------------------------
(* What the checks of an answer let through.                               *)

(* What is taken for good is a header among the units read.                *)
LEMMA UsesHeader ==
  ASSUME TypeOK, NEW i, Uses(i)
  PROVE  i \in begin + 1 .. taken /\ i \in 1 .. Len(sent) /\ sent[i].part = 1
<1>1. /\ begin \in Nat /\ taken \in Nat /\ Len(sent) \in Nat
      /\ begin <= taken /\ taken <= Len(sent)
  BY LenProperties DEF TypeOK
<1>2. i \in {begin + 1, begin + 2}
  BY DEF Uses
<1>3. i <= taken /\ sent[i].part = 1
  <2>1. CASE Whole
    BY <2>1 DEF Uses, Whole, IsHeader
  <2>2. CASE Salvaged
    BY <2>2 DEF Uses, Salvaged, IsHeader
  <2>3. CASE ~ Whole /\ ~ Salvaged
    BY <2>3 DEF Uses, IsHeader
  <2> QED
    BY <2>1, <2>2, <2>3
<1> QED
  BY <1>1, <1>2, <1>3

(* What DataGet takes for a packet begins with the header of one.          *)
LEMMA PacketHeader ==
  ASSUME TypeOK, cs # Free, Packet
  PROVE  \E i \in 1 .. taken : Uses(i) /\ sent[i].kind = "data"
<1>1. /\ begin \in Nat /\ taken \in Nat /\ Len(sent) \in Nat
      /\ begin <= taken /\ taken <= Len(sent)
      /\ sent \in Seq(Units)
  BY LenProperties DEF TypeOK
<1>2. num \in Nat /\ num # 1 /\ pc[cs] = "data" /\ num <= DataLen
  <2>1. taken <= begin + DataLen
    BY DEF TypeOK, Packet, Wanted
  <2> QED
    BY <1>1, <2>1, LengthAssumption DEF Packet, num
<1>3. ASSUME NEW i \in {begin + 1, begin + 2}, IsHeader(i, DataLen)
      PROVE  i \in 1 .. taken /\ sent[i].kind = "data"
  <2>1. i \in 1 .. Len(sent) /\ i \in 1 .. taken
    BY <1>1, <1>3 DEF IsHeader
  <2>2. sent[i].kind \in {"short", "status", "data"}
    <3>1. sent[i] \in Units
      BY <1>1, <2>1, ElementOfSeq
    <3> QED
      BY <3>1 DEF Units
  <2> QED
    BY <1>3, <2>1, <2>2, Lengths DEF IsHeader
<1>4. CASE Salvaged
  <2>1. Uses(begin + 1)
    BY <1>4 DEF Uses, Ok
  <2> QED
    BY <1>3, <1>4, <2>1 DEF Salvaged
<1>5. CASE ~ Salvaged
  <2>1. Good /\ num = DataLen
    BY <1>2, <1>5, LengthAssumption DEF Packet, Ok, Good, Wanted
  <2>2. CASE Whole
    <3>1. IsHeader(begin + 1, DataLen)
      BY <2>1, <2>2 DEF Whole
    <3>2. Uses(begin + 1)
      BY <2>1, <2>2 DEF Uses, Ok
    <3> QED
      BY <1>3, <3>1, <3>2
  <2>3. CASE ~ Whole
    <3>1. IsHeader(begin + 2, DataLen)
      BY <2>1, <2>3, LengthAssumption DEF Good, Patched, Shifted
    <3>2. Uses(begin + 2)
      BY <1>5, <2>1, <2>3, <3>1 DEF Uses, Ok
    <3> QED
      BY <1>3, <3>1, <3>2
  <2> QED
    BY <2>2, <2>3
<1> QED
  BY <1>4, <1>5

-----------------------------------------------------------------------------
(* The inductive invariant.                                                *)

LEMMA InitInv == Init => IInv
<1> SUFFICES ASSUME Init PROVE IInv
  OBVIOUS
<1>1. Len(sent) = 0 /\ sent \in Seq(Units)
  BY EmptySeq DEF Init
<1>2. TypeOK
  <2>1. pc = [t \in Threads |-> IF t = "port" THEN "outer" ELSE "idle"]
    BY DEF Init
  <2>2. /\ pc \in [Threads -> Cmds \cup {"outer", "idle", "done"}]
        /\ pc["port"] = "outer" /\ pc["net"] = "idle"
    BY <2>1 DEF Threads
  <2>3. arrived \in 0 .. Len(sent) /\ taken \in 0 .. arrived /\ begin \in 0 .. taken
    BY <1>1 DEF Init
  <2>4. asked \in 0 .. MaxCommands /\ lastUsed \in 0 .. MaxCommands
    BY BoundAssumption DEF Init
  <2> QED
    BY <1>1, <2>2, <2>3, <2>4 DEF Init, TypeOK, Free
<1> QED
  BY <1>1, <1>2 DEF Init, IInv, Ordered, Fresh, OneAnswer, Free

(* Where a thread may go after an exchange.                                *)
PortPlaces == {"outer", "sync", "status", "data", "start", "stop", "done"}

LEMMA ContinueType ==
  ASSUME TypeOK, NEW t \in Threads, pc[t] \in Cmds, NEW ok \in BOOLEAN, Continue(t, ok)
  PROVE  /\ pc' \in [Threads -> Cmds \cup {"outer", "idle", "done"}]
         /\ pc'["port"] \in PortPlaces
         /\ pc'["net"] \in NetCommands \cup {"idle", "done"}
         /\ check' \in BOOLEAN
         /\ \A u \in Threads \ {t} : pc'[u] = pc[u]
<1> DEFINE c == pc[t]
           next == IF t = "net" THEN {IF ending THEN "done" ELSE "idle"}
                   ELSE CASE c = "sync" -> {"status"}
                          [] c = "status" -> IF ok /\ ~ check THEN {"data", "start"} ELSE {"data"}
                          [] c = "start" -> {"data"}
                          [] c = "data" -> {IF ok THEN "data" ELSE "outer"}
                          [] c = "stop" -> {"done"}
<1>1. PICK n \in next : /\ pc' = [pc EXCEPT ![t] = n]
                        /\ check' = (check \/ (t = "port" /\ n = "start"))
  BY DEF Continue
<1>2. /\ pc \in [Threads -> Cmds \cup {"outer", "idle", "done"}]
      /\ pc["port"] \in PortPlaces
      /\ pc["net"] \in NetCommands \cup {"idle", "done"}
      /\ check \in BOOLEAN
  BY DEF TypeOK, PortPlaces
<1>3. IF t = "net" THEN n \in {"idle", "done"} ELSE n \in PortPlaces
  <2>1. CASE t = "net"
    BY <2>1
  <2>2. CASE t = "port"
    <3>1. c \in {"sync", "status", "data", "start", "stop"}
      BY <1>2, <2>2 DEF PortPlaces, Cmds
    <3> QED
      BY <2>2, <3>1 DEF PortPlaces
  <2> QED
    BY <2>1, <2>2 DEF Threads
<1>4. n \in Cmds \cup {"outer", "idle", "done"}
  BY <1>3 DEF PortPlaces, Cmds
<1> QED
  BY <1>1, <1>2, <1>3, <1>4 DEF Threads

(* The line: what was read, what arrived, what was sent.                   *)
LEMMA LineOrder ==
  ASSUME TypeOK
  PROVE  /\ begin \in Nat /\ taken \in Nat /\ arrived \in Nat /\ Len(sent) \in Nat
         /\ begin <= taken /\ taken <= arrived /\ arrived <= Len(sent)
         /\ sent \in Seq(Units) /\ asked \in Nat /\ lastUsed \in Nat
  BY LenProperties DEF TypeOK

LEMMA UnitType ==
  ASSUME TypeOK, NEW i \in 1 .. Len(sent)
  PROVE  sent[i].cmd \in Nat /\ sent[i].cmd \in 1 .. MaxCommands /\ sent[i].part \in Nat
<1>1. sent[i] \in Units
  BY LineOrder, ElementOfSeq
<1> QED
  BY <1>1, LengthAssumption, BoundAssumption DEF Units

(* A command is written: its answer is behind the others, and their order  *)
(* stays.                                                                  *)
LEMMA SendInv ==
  ASSUME IInv, NEW t \in Threads, Send(t)
  PROVE  IInv'
<1>1. TypeOK /\ Ordered /\ Fresh /\ OneAnswer
  BY DEF IInv
<1>2. /\ begin \in Nat /\ taken \in Nat /\ arrived \in Nat /\ Len(sent) \in Nat
      /\ begin <= taken /\ taken <= arrived /\ arrived <= Len(sent)
      /\ sent \in Seq(Units) /\ asked \in Nat /\ lastUsed \in Nat
  BY <1>1, LineOrder
<1>3. /\ cs = Free /\ pc[t] \in Cmds /\ asked < MaxCommands
      /\ cs' = t /\ step' = "read" /\ asked' = asked + 1 /\ begin' = taken
      /\ UNCHANGED <<pc, arrived, taken, check, ending, late, early, lastUsed>>
  BY DEF Send, hist
<1>4. cs' # Free
  BY <1>3 DEF Threads, Free
<1>5. asked' \in 1 .. MaxCommands
  BY <1>2, <1>3, BoundAssumption
<1>6. dev' \in {"stopped", "running"}
  BY <1>1 DEF Send, TypeOK
<1>7. Wanted(pc[t]) \in 1 .. DataLen
  BY <1>3, WantedType
<1>8. /\ sent' \in Seq(Units) /\ Len(sent') \in Nat
      /\ Len(sent) <= Len(sent') /\ Len(sent') <= Len(sent) + Wanted(pc[t])
      /\ \A i \in 1 .. Len(sent) : sent'[i] = sent[i]
      /\ \A i \in Len(sent) + 1 .. Len(sent') :
           sent'[i].cmd = asked' /\ sent'[i].part = i - Len(sent)
  <2>1. CASE sent' = sent
    BY <1>2, <1>7, <2>1
  <2>2. CASE \E kind \in Kinds(pc[t]) : sent' = sent \o Answer(asked + 1, kind)
    <3>1. PICK kind \in Kinds(pc[t]) : sent' = sent \o Answer(asked', kind)
      BY <1>3, <2>2
    <3>2. /\ kind \in {"short", "status", "data"} /\ LengthOf(kind) <= Wanted(pc[t])
          /\ LengthOf(kind) \in 1 .. DataLen
      BY <1>3, <3>1, WantedType, Lengths
    <3>3. /\ sent' \in Seq(Units) /\ Len(sent') = Len(sent) + LengthOf(kind)
          /\ \A i \in 1 .. Len(sent) : sent'[i] = sent[i]
          /\ \A i \in Len(sent) + 1 .. Len(sent) + LengthOf(kind) :
               sent'[i].cmd = asked' /\ sent'[i].part = i - Len(sent)
      <4> DEFINE n == asked'
      <4>1. n \in 1 .. MaxCommands /\ sent \in Seq(Units)
        BY <1>2, <1>5
      <4>2. sent' = sent \o Answer(n, kind) /\ kind \in {"short", "status", "data"}
        BY <3>1, <3>2
      <4> HIDE DEF n
      <4>3. /\ sent \o Answer(n, kind) \in Seq(Units)
            /\ Len(sent \o Answer(n, kind)) = Len(sent) + LengthOf(kind)
            /\ \A i \in 1 .. Len(sent) : (sent \o Answer(n, kind))[i] = sent[i]
            /\ \A i \in Len(sent) + 1 .. Len(sent) + LengthOf(kind) :
                 /\ (sent \o Answer(n, kind))[i].cmd = n
                 /\ (sent \o Answer(n, kind))[i].part = i - Len(sent)
        BY <4>1, <4>2, Appended
      <4> QED
        BY <4>2, <4>3 DEF n
    <3> QED
      BY <1>2, <1>7, <3>2, <3>3, LengthAssumption
  <2> QED
    BY <2>1, <2>2 DEF Send
<1>9. TypeOK'
  <2>1. arrived \in 0 .. Len(sent') /\ taken \in 0 .. arrived /\ taken <= taken + Wanted(pc[t])
    BY <1>2, <1>7, <1>8
  <2> QED
    BY <1>1, <1>3, <1>5, <1>6, <1>8, <2>1 DEF TypeOK
<1>10. Ordered'
  <2> SUFFICES ASSUME NEW i \in 1 .. Len(sent'), NEW j \in 1 .. Len(sent')
               PROVE  /\ sent'[i].cmd <= asked'
                      /\ i < j /\ sent'[j].part = 1 => sent'[i].cmd < sent'[j].cmd
    BY <1>8 DEF Ordered
  <2>1. ASSUME NEW k \in 1 .. Len(sent)
        PROVE  sent'[k] = sent[k] /\ sent[k].cmd \in Nat /\ sent[k].cmd < asked'
    BY <1>1, <1>2, <1>3, <1>8, <2>1, UnitType DEF Ordered
  <2>2. CASE i \in 1 .. Len(sent) /\ j \in 1 .. Len(sent)
    <3>1. i < j /\ sent[j].part = 1 => sent[i].cmd < sent[j].cmd
      BY <1>1, <2>2 DEF Ordered
    <3>2. sent'[i] = sent[i] /\ sent'[j] = sent[j] /\ sent[i].cmd \in Nat /\ sent[i].cmd < asked'
      BY <2>1, <2>2
    <3> QED
      BY <1>2, <1>3, <3>1, <3>2
  <2>3. CASE i \in 1 .. Len(sent) /\ j \notin 1 .. Len(sent)
    <3>1. sent'[j].cmd = asked'
      BY <1>2, <1>8, <2>3
    <3>2. sent'[i] = sent[i] /\ sent[i].cmd \in Nat /\ sent[i].cmd < asked'
      BY <2>1, <2>3
    <3> QED
      BY <1>2, <1>3, <3>1, <3>2
  <2>4. CASE i \notin 1 .. Len(sent)
    <3>1. sent'[i].cmd = asked'
      BY <1>2, <1>8, <2>4
    <3>2. i < j => sent'[j].part # 1
      <4> SUFFICES ASSUME i < j PROVE sent'[j].part # 1
        OBVIOUS
      <4>1. j \in Len(sent) + 1 .. Len(sent') /\ j - Len(sent) # 1
        BY <1>2, <1>8, <2>4
      <4> QED
        BY <1>8, <4>1
    <3> QED
      BY <1>2, <1>3, <3>1, <3>2
  <2> QED
    BY <2>2, <2>3, <2>4
<1>11. Fresh'
  <2>1. lastUsed <= asked
    BY <1>1 DEF Fresh
  <2>2. ASSUME NEW i \in 1 .. Len(sent'), i > taken, sent'[i].part = 1
        PROVE  lastUsed < sent'[i].cmd
    <3>1. CASE i \in 1 .. Len(sent)
      <4>1. sent'[i] = sent[i]
        BY <1>8, <3>1
      <4> QED
        BY <1>1, <1>3, <2>2, <3>1, <4>1 DEF Fresh
    <3>2. CASE i \notin 1 .. Len(sent)
      <4>1. sent'[i].cmd = asked'
        BY <1>2, <1>8, <3>2
      <4> QED
        BY <1>2, <1>3, <2>1, <4>1
    <3> QED
      BY <3>1, <3>2
  <2>3. lastUsed' <= asked'
    BY <1>2, <1>3, <2>1
  <2> QED
    BY <1>3, <1>4, <2>2, <2>3 DEF Fresh
<1>12. OneAnswer'
  <2> SUFFICES ASSUME ~ late, ~ early
               PROVE  /\ Len(sent') <= taken + Wanted(pc[t])
                      /\ \A i \in taken + 1 .. Len(sent') : sent'[i].cmd = asked'
    BY <1>3, <1>4 DEF OneAnswer
  <2>1. taken = Len(sent)
    BY <1>1, <1>3 DEF OneAnswer
  <2> QED
    BY <1>8, <2>1
<1> QED
  BY <1>9, <1>10, <1>11, <1>12 DEF IInv

(* Nothing on the line, no exchange begun or ended.                        *)
LEMMA OutsideInv ==
  ASSUME IInv, Loop \/ Request \/ End \/ \E t \in Threads : Refuse(t)
  PROVE  IInv'
<1>1. TypeOK /\ Ordered /\ Fresh /\ OneAnswer
  BY DEF IInv
<1>2. UNCHANGED <<cs, step, asked, line, dev, hist>>
  BY DEF Loop, Request, End, Refuse, control
<1>3. /\ pc' \in [Threads -> Cmds \cup {"outer", "idle", "done"}]
      /\ pc'["port"] \in PortPlaces
      /\ pc'["net"] \in NetCommands \cup {"idle", "done"}
      /\ check' \in BOOLEAN /\ ending' \in BOOLEAN
      /\ cs # Free => pc'[cs] = pc[cs]
  <2>1. CASE Loop
    <3>1. PICK next \in {"stop", "sync", "data"} : pc' = [pc EXCEPT !["port"] = next]
      BY <2>1 DEF Loop
    <3>2. cs # "port"
      BY <1>1, <2>1 DEF Loop, TypeOK, Free, Cmds
    <3> QED
      BY <1>1, <2>1, <3>1, <3>2 DEF TypeOK, PortPlaces, Threads, Cmds, Loop
  <2>2. CASE Request
    <3>1. PICK c \in NetCommands : pc' = [pc EXCEPT !["net"] = c]
      BY <2>2 DEF Request
    <3>2. cs # "net"
      BY <1>1, <2>2 DEF Request, TypeOK, Free, Cmds
    <3> QED
      BY <1>1, <2>2, <3>1, <3>2, CommandAssumption
         DEF TypeOK, PortPlaces, Threads, Cmds, Request
  <2>3. CASE End
    BY <1>1, <2>3 DEF End, TypeOK, PortPlaces, control
  <2>4. CASE \E t \in Threads : Refuse(t)
    <3>1. PICK t \in Threads : Refuse(t)
      BY <2>4
    <3> QED
      BY <1>1, <3>1, ContinueType DEF Refuse, TypeOK
  <2> QED
    BY <2>1, <2>2, <2>3, <2>4
<1>4. TypeOK'
  BY <1>1, <1>2, <1>3 DEF TypeOK, line, hist, PortPlaces
<1>5. Ordered' /\ Fresh'
  BY <1>1, <1>2 DEF Ordered, Fresh, line, hist
<1>6. OneAnswer'
  BY <1>1, <1>2, <1>3 DEF OneAnswer, line, hist
<1> QED
  BY <1>4, <1>5, <1>6 DEF IInv

LEMMA ArriveInv ==
  ASSUME IInv, Arrive
  PROVE  IInv'
<1>1. TypeOK /\ Ordered /\ Fresh /\ OneAnswer
  BY DEF IInv
<1>2. /\ arrived < Len(sent) /\ arrived' = arrived + 1
      /\ UNCHANGED <<pc, cs, step, asked, sent, taken, begin, dev, check, ending, hist>>
  BY DEF Arrive, control
<1>3. arrived' \in 0 .. Len(sent) /\ taken \in 0 .. arrived'
  BY <1>1, <1>2, LineOrder
<1> QED
  BY <1>1, <1>2, <1>3 DEF IInv, TypeOK, Ordered, Fresh, OneAnswer, hist

(* A round of the read: as far as there is something, and as it is wanted. *)
LEMMA TakeInv ==
  ASSUME IInv, Take
  PROVE  IInv'
<1>1. TypeOK /\ Ordered /\ Fresh /\ OneAnswer
  BY DEF IInv
<1>2. /\ begin \in Nat /\ taken \in Nat /\ arrived \in Nat /\ Len(sent) \in Nat
      /\ begin <= taken /\ taken <= arrived /\ arrived <= Len(sent)
  BY <1>1, LineOrder
<1> DEFINE all == begin + Wanted(pc[cs])
<1>3. /\ cs # Free /\ step = "read" /\ taken < arrived
      /\ taken' = IF arrived < all THEN arrived ELSE all
      /\ step' = IF taken' = all \/ ending THEN "check" ELSE "read"
      /\ early' = (early \/ (ending /\ taken' # all /\ taken' < Len(sent)))
      /\ UNCHANGED <<pc, cs, asked, sent, arrived, begin, dev, check, ending, late, lastUsed>>
  BY DEF Take
<1>4. all \in Nat /\ begin <= all /\ taken <= all
  BY <1>1, <1>2, <1>3, WantedType, LengthAssumption DEF TypeOK
<1>5. taken' \in 0 .. arrived /\ begin \in 0 .. taken' /\ taken' <= all
  BY <1>2, <1>3, <1>4
<1>6. TypeOK'
  <2>1. step' \in {"read", "check"} /\ early' \in BOOLEAN
    BY <1>1, <1>3 DEF TypeOK
  <2>2. taken' <= begin' + Wanted(pc'[cs'])
    BY <1>3, <1>5
  <2> QED
    BY <1>1, <1>3, <1>5, <2>1, <2>2 DEF TypeOK
<1>7. Ordered' /\ Fresh'
  BY <1>1, <1>3 DEF Ordered, Fresh
<1>8. OneAnswer'
  <2> SUFFICES ASSUME ~ late, ~ early'
               PROVE  /\ Len(sent) <= all
                      /\ \A i \in begin + 1 .. Len(sent) : sent[i].cmd = asked
                      /\ step' = "check" => taken' = Len(sent)
    BY <1>3 DEF OneAnswer
  <2>1. /\ Len(sent) <= all
        /\ \A i \in begin + 1 .. Len(sent) : sent[i].cmd = asked
    BY <1>1, <1>3 DEF OneAnswer
  <2>2. ASSUME step' = "check" PROVE taken' = Len(sent)
    <3>1. CASE taken' = all
      BY <1>2, <1>4, <1>5, <2>1, <3>1
    <3>2. CASE taken' # all
      <4>1. ~ taken' < Len(sent)
        BY <1>3, <2>2, <3>2
      <4> QED
        BY <1>2, <1>5, <4>1
    <3> QED
      BY <3>1, <3>2
  <2> QED
    BY <2>1, <2>2
<1> QED
  BY <1>6, <1>7, <1>8 DEF IInv

LEMMA TimeoutInv ==
  ASSUME IInv, Timeout
  PROVE  IInv'
<1>1. TypeOK /\ Ordered /\ Fresh /\ OneAnswer
  BY DEF IInv
<1>2. /\ cs # Free /\ step' = "check" /\ taken = arrived
      /\ late' = (late \/ arrived < Len(sent))
      /\ UNCHANGED <<pc, cs, asked, line, dev, check, ending, early, lastUsed>>
  BY DEF Timeout
<1>3. TypeOK' /\ Ordered' /\ Fresh'
  BY <1>1, <1>2 DEF TypeOK, Ordered, Fresh, line
<1>4. OneAnswer'
  <2>1. ~ (arrived < Len(sent)) => taken = Len(sent)
    BY <1>1, <1>2, LineOrder
  <2> QED
    BY <1>1, <1>2, <2>1 DEF OneAnswer, line
<1> QED
  BY <1>3, <1>4 DEF IInv

(* The end of an exchange: what it took for good was a header, and later   *)
(* headers are of later answers.                                           *)
LEMMA CheckInv ==
  ASSUME IInv, Check
  PROVE  IInv'
<1>1. TypeOK /\ Ordered /\ Fresh /\ OneAnswer
  BY DEF IInv
<1>2. /\ begin \in Nat /\ taken \in Nat /\ arrived \in Nat /\ Len(sent) \in Nat
      /\ begin <= taken /\ taken <= arrived /\ arrived <= Len(sent)
      /\ asked \in Nat /\ lastUsed \in Nat
  BY <1>1, LineOrder
<1> DEFINE places == {begin + 1, begin + 2}
<1>3. /\ cs # Free /\ step = "check" /\ cs' = Free
      /\ Continue(cs, IF pc[cs] = "data" THEN Packet ELSE Ok)
      /\ lastUsed' = IF \E i \in places : Uses(i)
                       THEN sent[CHOOSE i \in places : Uses(i)].cmd ELSE lastUsed
      /\ UNCHANGED <<step, asked, line, dev, ending, late, early>>
  BY DEF Check
<1>4. /\ lastUsed' \in 0 .. MaxCommands /\ lastUsed' <= asked
      /\ \A j \in 1 .. Len(sent) : j > taken /\ sent[j].part = 1 => lastUsed' < sent[j].cmd
  <2>1. CASE \E i \in places : Uses(i)
    <3>1. PICK i : i \in places /\ Uses(i) /\ lastUsed' = sent[i].cmd
      BY <1>3, <2>1
    <3>2. i \in begin + 1 .. taken /\ i \in 1 .. Len(sent)
      BY <1>1, <3>1, UsesHeader
    <3>3. sent[i].cmd \in 1 .. MaxCommands
      BY <1>1, <3>2, UnitType
    <3>4. ASSUME NEW j \in 1 .. Len(sent), j > taken, sent[j].part = 1
          PROVE  sent[i].cmd < sent[j].cmd
      <4>1. i < j
        BY <1>2, <3>2, <3>4
      <4> QED
        BY <1>1, <3>2, <3>4, <4>1 DEF Ordered
    <3> QED
      BY <1>1, <3>1, <3>2, <3>3, <3>4, BoundAssumption DEF Ordered
  <2>2. CASE ~ \E i \in places : Uses(i)
    <3>1. lastUsed' = lastUsed
      BY <1>3, <2>2
    <3>2. \A j \in 1 .. Len(sent) : j > taken => j > begin
      BY <1>2
    <3> QED
      BY <1>1, <1>3, <3>1, <3>2 DEF Fresh, TypeOK
  <2> QED
    BY <2>1, <2>2
<1>5. TypeOK'
  <2>1. cs \in Threads /\ pc[cs] \in Cmds
    BY <1>1, <1>3 DEF TypeOK
  <2>2. PICK ok \in BOOLEAN : Continue(cs, ok)
    BY <1>3 DEF Packet, Ok, Good, Salvaged, Whole, Patched, Shifted
  <2>3. /\ pc' \in [Threads -> Cmds \cup {"outer", "idle", "done"}]
        /\ pc'["port"] \in PortPlaces
        /\ pc'["net"] \in NetCommands \cup {"idle", "done"}
        /\ check' \in BOOLEAN
    BY <1>1, <2>1, <2>2, ContinueType
  <2> QED
    BY <1>1, <1>3, <1>4, <2>3 DEF TypeOK, line, PortPlaces, Free
<1>6. Ordered'
  BY <1>1, <1>3 DEF Ordered, line
<1>7. Fresh'
  BY <1>3, <1>4 DEF Fresh, line
<1>8. OneAnswer'
  BY <1>1, <1>3 DEF OneAnswer, line
<1> QED
  BY <1>5, <1>6, <1>7, <1>8 DEF IInv

LEMMA NextInv == IInv /\ [Next]_vars => IInv'
<1> SUFFICES ASSUME IInv, [Next]_vars PROVE IInv'
  OBVIOUS
<1>1. CASE Loop \/ Request \/ End \/ \E t \in Threads : Refuse(t)
  BY <1>1, OutsideInv
<1>2. CASE \E t \in Threads : Send(t)
  BY <1>2, SendInv
<1>3. CASE Arrive
  BY <1>3, ArriveInv
<1>4. CASE Take
  BY <1>4, TakeInv
<1>5. CASE Timeout
  BY <1>5, TimeoutInv
<1>6. CASE Check
  BY <1>6, CheckInv
<1>7. CASE UNCHANGED vars
  BY <1>7 DEF vars, control, line, hist, IInv, TypeOK, Ordered, Fresh, OneAnswer
<1> QED
  BY <1>1, <1>2, <1>3, <1>4, <1>5, <1>6, <1>7 DEF Next

THEOREM Invariance == Spec => []IInv
  BY InitInv, NextInv, PTL DEF Spec

-----------------------------------------------------------------------------
(* Type correctness of the line and of the two threads on it: no read      *)
(* takes more than it was asked for, or more than there was.               *)
THEOREM TypeCorrect == Spec => []TypeOK
<1>1. IInv => TypeOK
  BY DEF IInv
<1> QED
  BY <1>1, Invariance, PTL

(* Lost commands alone do not bring the program and the recorder out of    *)
(* step: that takes an answer later than 2 ms, or the end of the program.  *)
THEOREM InStepUntilLate == Spec => []InStep
<1>1. IInv => InStep
  <2> SUFFICES ASSUME IInv, ~ late, ~ early
               PROVE  /\ cs = Free => taken = Len(sent)
                      /\ cs # Free /\ step = "check" =>
                           \A i \in begin + 1 .. taken : sent[i].cmd = asked
    BY DEF InStep
  <2>1. CASE cs = Free
    BY <2>1 DEF IInv, OneAnswer
  <2>2. CASE cs # Free /\ step = "check"
    BY <2>2 DEF IInv, OneAnswer
  <2> QED
    BY <2>1, <2>2
<1> QED
  BY <1>1, Invariance, PTL

(* However late the answers are, no packet is recorded twice, none after a *)
(* later one, and nothing but a packet as a packet: for statuses and       *)
(* packets of any length, and any number of commands.                      *)
THEOREM NothingUsedTwice == Spec => []UsedOnce
<1>1. IInv => UsedOnce
  <2> SUFFICES ASSUME IInv, cs # Free, step = "check"
               PROVE  /\ \A i \in 1 .. taken : Uses(i) => sent[i].cmd > lastUsed
                      /\ Packet => \E i \in 1 .. taken : Uses(i) /\ sent[i].kind = "data"
    BY DEF UsedOnce
  <2>1. ASSUME NEW i \in 1 .. taken, Uses(i) PROVE sent[i].cmd > lastUsed
    <3>1. i \in begin + 1 .. taken /\ i \in 1 .. Len(sent) /\ sent[i].part = 1
      BY <2>1, UsesHeader DEF IInv
    <3>2. i > begin /\ sent[i].cmd \in Nat /\ lastUsed \in Nat
      BY <3>1, UnitType, LineOrder DEF IInv
    <3>3. lastUsed < sent[i].cmd
      BY <3>1, <3>2 DEF IInv, Fresh
    <3> QED
      BY <3>2, <3>3
  <2>2. Packet => \E i \in 1 .. taken : Uses(i) /\ sent[i].kind = "data"
    BY PacketHeader DEF IInv
  <2> QED
    BY <2>1, <2>2
<1> QED
  BY <1>1, Invariance, PTL

-----------------------------------------------------------------------------
(* What the exchanges promise (Exchange).                                  *)

(* Nothing that a caller of proto.c can see.                               *)
LEMMA Stutters ==
  ASSUME UNCHANGED <<cs, dev, late, early>>, Phase' = Phase, Command' = Command,
         Carried' = Carried
  PROVE  UNCHANGED Promise!vars
  BY DEF Promise!vars, Trusted

(* What Check returns depends on the bytes read, and on the command.       *)
LEMMA SameResult ==
  ASSUME UNCHANGED <<cs, sent, taken, begin>>, pc'[cs] = pc[cs]
  PROVE  Ok' = Ok
<1>1. num' = num
  BY DEF num
<1>2. \A i, n : IsHeader(i, n)' = IsHeader(i, n)
  BY DEF IsHeader
<1> QED
  BY <1>1, <1>2 DEF Ok, Good, Salvaged, Whole, Patched, Shifted

(* The line as before: the same command has got to the recorder.           *)
LEMMA SameCarried ==
  ASSUME UNCHANGED <<sent, asked>>
  PROVE  Carried' = Carried
  BY DEF Carried

(* Writing a command begins an exchange; the recorder carries it out if    *)
(* it answers.                                                             *)
LEMMA SendAsks ==
  ASSUME IInv, NEW t \in Threads, Send(t)
  PROVE  Promise!Ask
<1>1. TypeOK /\ Ordered
  BY DEF IInv
<1>2. /\ cs = Free /\ pc[t] \in Cmds /\ asked < MaxCommands
      /\ cs' = t /\ step' = "read" /\ asked' = asked + 1
      /\ UNCHANGED <<pc, late, early>>
  BY DEF Send, hist
<1>3. asked \in Nat /\ asked' \in 1 .. MaxCommands /\ Len(sent) \in Nat /\ sent \in Seq(Units)
  BY <1>1, <1>2, LineOrder, BoundAssumption
<1>4. t # Free
  BY DEF Threads, Free
<1>5. Phase = "free" /\ Phase' = "waiting" /\ Command' = pc[t] /\ Trusted' = Trusted
  BY <1>2, <1>4 DEF Phase, Command, Trusted
<1>6. CASE \E kind \in Kinds(pc[t]) : sent' = sent \o Answer(asked + 1, kind)
  <2>1. PICK kind \in Kinds(pc[t]) : sent' = sent \o Answer(asked', kind)
    BY <1>2, <1>6
  <2>2. kind \in {"short", "status", "data"} /\ LengthOf(kind) \in 1 .. DataLen
    BY <1>2, <2>1, WantedType, Lengths
  <2>3. /\ Len(sent') = Len(sent) + LengthOf(kind)
        /\ sent'[Len(sent) + 1].cmd = asked'
    <3> DEFINE n == asked'
    <3>1. n \in 1 .. MaxCommands /\ sent' = sent \o Answer(n, kind)
      BY <1>3, <2>1
    <3> HIDE DEF n
    <3>2. /\ Len(sent \o Answer(n, kind)) = Len(sent) + LengthOf(kind)
          /\ \A i \in Len(sent) + 1 .. Len(sent) + LengthOf(kind) :
               (sent \o Answer(n, kind))[i].cmd = n
      BY <1>3, <2>2, <3>1, Appended
    <3>3. Len(sent) + 1 \in Len(sent) + 1 .. Len(sent) + LengthOf(kind)
      BY <1>3, <2>2, LengthAssumption
    <3> QED
      BY <3>1, <3>2, <3>3 DEF n
  <2>4. Len(sent) + 1 \in 1 .. Len(sent')
    BY <1>3, <2>2, <2>3, LengthAssumption
  <2>5. Carried' = TRUE
    BY <2>3, <2>4 DEF Carried
  <2>6. dev' = Promise!After(pc[t], dev)
    <3>1. sent' # sent
      BY <1>3, <2>2, <2>3, LengthAssumption
    <3>2. dev' = CASE pc[t] = "start" -> "running" [] pc[t] = "stop" -> "stopped" [] OTHER -> dev
      BY <3>1 DEF Send
    <3> QED
      BY <3>2 DEF Promise!After
  <2> QED
    BY <1>2, <1>5, <2>5, <2>6 DEF Promise!Ask
<1>7. CASE sent' = sent /\ dev' = dev
  <2>1. \A i \in 1 .. Len(sent) : sent[i].cmd # asked'
    <3> SUFFICES ASSUME NEW i \in 1 .. Len(sent) PROVE sent[i].cmd # asked'
      OBVIOUS
    <3>1. sent[i].cmd \in Nat /\ sent[i].cmd <= asked
      BY <1>1, UnitType DEF Ordered
    <3> QED
      BY <1>2, <1>3, <3>1
  <2>2. Carried' = FALSE
    BY <1>7, <2>1 DEF Carried
  <2> QED
    BY <1>2, <1>5, <1>7, <2>2 DEF Promise!Ask
<1> QED
  BY <1>6, <1>7 DEF Send

(* A read takes no more than was sent.                                     *)
LEMMA TakenPrime ==
  ASSUME TypeOK, TypeOK', UNCHANGED sent
  PROVE  begin \in Nat /\ taken' \in Nat /\ taken' <= Len(sent) /\ Len(sent) \in Nat
<1>1. begin \in Nat /\ Len(sent) \in Nat
  BY LineOrder
<1>2. arrived' \in 0 .. Len(sent) /\ taken' \in 0 .. arrived'
  BY DEF TypeOK
<1> QED
  BY <1>1, <1>2

(* The read ends: the exchange has succeeded or failed.                    *)
LEMMA ReadEnds ==
  ASSUME IInv, IInv', cs # Free, step = "read", step' = "check",
         UNCHANGED <<pc, cs, asked, sent, begin, dev>>,
         late => late', early => early',
         Trusted => \A i \in begin + 1 .. taken' : sent[i].cmd = asked
  PROVE  Promise!Succeed \/ Promise!Fail
<1>0. begin \in Nat /\ taken' \in Nat /\ taken' <= Len(sent) /\ Len(sent) \in Nat
  BY TakenPrime DEF IInv
<1>1. Phase = "waiting" /\ Phase' = IF Ok' THEN "ok" ELSE "failed"
  BY DEF Phase
<1>2. Command' = Command /\ Carried' = Carried
  BY SameCarried DEF Command
<1>3. Trusted' \in {Trusted, FALSE}
  <2>1. late \in BOOLEAN /\ early \in BOOLEAN /\ late' \in BOOLEAN /\ early' \in BOOLEAN
    BY DEF IInv, TypeOK
  <2>2. Trusted' => Trusted
    BY <2>1 DEF Trusted
  <2>3. Trusted \in BOOLEAN /\ Trusted' \in BOOLEAN
    BY DEF Trusted
  <2> QED
    BY <2>2, <2>3
<1>4. CASE Ok'
  <2>1. Trusted => Carried'
    <3> SUFFICES ASSUME Trusted PROVE Carried'
      OBVIOUS
    <3>1. /\ begin \in Nat /\ taken' \in Nat /\ taken' <= Len(sent) /\ Len(sent) \in Nat
      BY <1>0
    <3>2. Wanted(pc[cs]) \in 1 .. DataLen
      BY WantedType DEF IInv, TypeOK
    <3>3. taken' - begin >= 1
      <4>1. num' = taken' - begin /\ num' \in Int
        BY <3>1 DEF num
      <4>2. num' >= Wanted(pc[cs]) \/ num' = 1 \/ num' > 1
        BY <1>4 DEF Ok, Good, Salvaged
      <4> QED
        BY <3>2, <4>1, <4>2, LengthAssumption
    <3>4. begin + 1 \in begin + 1 .. taken' /\ begin + 1 \in 1 .. Len(sent)
      <4> DEFINE read == taken'
      <4>1. read \in Nat /\ read <= Len(sent) /\ read - begin >= 1
        BY <3>1, <3>3
      <4> HIDE DEF read
      <4>2. begin + 1 \in begin + 1 .. read /\ begin + 1 \in 1 .. Len(sent)
        BY <3>1, <4>1
      <4> QED
        BY <4>2 DEF read
    <3>5. Carried
      BY <3>4 DEF Carried
    <3> QED
      BY <1>2, <3>5
  <2> QED
    BY <1>1, <1>2, <1>3, <1>4, <2>1 DEF Promise!Succeed
<1>5. CASE ~ Ok'
  BY <1>1, <1>2, <1>3, <1>5 DEF Promise!Fail
<1> QED
  BY <1>4, <1>5

(* Every step of the line and of its two threads is one of the exchange,   *)
(* or none that its caller could see.                                      *)
LEMMA StepRefines == IInv /\ IInv' /\ [Next]_vars => [Promise!Next]_Promise!vars
<1> SUFFICES ASSUME IInv, IInv', [Next]_vars PROVE [Promise!Next]_Promise!vars
  OBVIOUS
<1>0. TypeOK /\ OneAnswer /\ (cs # Free => pc[cs] \in Cmds)
  BY DEF IInv, TypeOK
<1>1. ASSUME UNCHANGED <<cs, step, asked, sent, taken, begin, dev, hist>>,
             cs # Free => pc'[cs] = pc[cs]
      PROVE  UNCHANGED Promise!vars
  <2>1. cs # Free => Ok' = Ok
    BY <1>1, SameResult
  <2>2. Phase' = Phase /\ Command' = Command
    BY <1>1, <2>1 DEF Phase, Command
  <2>3. UNCHANGED <<cs, dev, late, early>> /\ Carried' = Carried
    BY <1>1, SameCarried DEF hist
  <2> QED
    BY <2>2, <2>3, Stutters
<1>2. CASE Loop \/ Request \/ End \/ \E t \in Threads : Refuse(t)
  <2>1. UNCHANGED <<cs, step, asked, sent, taken, begin, dev, hist>>
    BY <1>2 DEF Loop, Request, End, Refuse, control, line
  <2>2. cs # Free => pc'[cs] = pc[cs]
    <3>1. CASE Loop
      <4>1. PICK next : pc' = [pc EXCEPT !["port"] = next]
        BY <3>1 DEF Loop
      <4>2. cs # "port" \/ cs = Free
        BY <1>0, <3>1 DEF Loop, Cmds
      <4> QED
        BY <1>0, <4>1, <4>2 DEF TypeOK
    <3>2. CASE Request
      <4>1. PICK c : pc' = [pc EXCEPT !["net"] = c]
        BY <3>2 DEF Request
      <4>2. cs # "net" \/ cs = Free
        BY <1>0, <3>2 DEF Request, Cmds
      <4> QED
        BY <1>0, <4>1, <4>2 DEF TypeOK
    <3>3. CASE End \/ \E t \in Threads : Refuse(t)
      BY <3>3 DEF End, Refuse, control
    <3> QED
      BY <1>2, <3>1, <3>2, <3>3
  <2> QED
    BY <1>1, <2>1, <2>2
<1>3. ASSUME NEW t \in Threads, Send(t) PROVE Promise!Ask
  BY <1>3, SendAsks
<1>4. CASE Arrive
  BY <1>1, <1>4 DEF Arrive, control
<1>5. CASE Take
  <2>1. /\ cs # Free /\ step = "read"
        /\ UNCHANGED <<pc, cs, asked, sent, begin, dev, late>>
        /\ early => early'
        /\ step' \in {"read", "check"} /\ (step' = "read" => early' = early)
    BY <1>0, <1>5 DEF Take, TypeOK
  <2>2. CASE step' = "read"
    <3>1. Phase' = Phase /\ Command' = Command /\ Carried' = Carried
      BY <2>1, <2>2, SameCarried DEF Phase, Command
    <3> QED
      BY <2>1, <2>2, <3>1, Stutters
  <2>3. CASE step' = "check"
    <3>1. Trusted => \A i \in begin + 1 .. taken' : sent[i].cmd = asked
      <4>1. taken' \in Nat /\ taken' <= Len(sent) /\ begin \in Nat /\ Len(sent) \in Nat
        BY <2>1, TakenPrime DEF IInv
      <4>2. Trusted => \A i \in begin + 1 .. Len(sent) : sent[i].cmd = asked
        BY <1>0, <2>1 DEF OneAnswer, Trusted
      <4>3. \A i \in begin + 1 .. taken' : i \in begin + 1 .. Len(sent)
        BY <4>1
      <4> QED
        BY <4>2, <4>3
    <3>2. Promise!Succeed \/ Promise!Fail
      <4>1. late => late'
        BY <2>1
      <4> QED
        BY <2>1, <2>3, <3>1, <4>1, ReadEnds
    <3> QED
      BY <3>2 DEF Promise!Next
  <2> QED
    BY <2>1, <2>2, <2>3
<1>6. CASE Timeout
  <2>1. /\ cs # Free /\ step = "read" /\ step' = "check"
        /\ late => late'
        /\ UNCHANGED <<pc, cs, asked, sent, taken, begin, dev, early>>
    BY <1>6 DEF Timeout, line
  <2>2. Trusted => \A i \in begin + 1 .. taken' : sent[i].cmd = asked
    <3>1. /\ taken \in Nat /\ taken <= arrived /\ arrived <= Len(sent) /\ begin \in Nat
          /\ arrived \in Nat /\ Len(sent) \in Nat
      BY <1>0, LineOrder
    <3>2. Trusted => \A i \in begin + 1 .. Len(sent) : sent[i].cmd = asked
      BY <1>0, <2>1 DEF OneAnswer, Trusted
    <3> QED
      BY <2>1, <3>1, <3>2
  <2> QED
    <3>1. early => early'
      BY <2>1
    <3>2. Promise!Succeed \/ Promise!Fail
      BY <2>1, <2>2, <3>1, ReadEnds
    <3> QED
      BY <3>2 DEF Promise!Next
<1>7. CASE Check
  <2>1. /\ cs # Free /\ step = "check" /\ cs' = Free
        /\ UNCHANGED <<asked, sent, dev, late, early>>
    BY <1>7 DEF Check, line
  <2>2. Phase \in {"ok", "failed"} /\ Phase' = "free" /\ Command' = Free
    BY <2>1 DEF Phase, Command
  <2>3. UNCHANGED <<Carried, dev, Trusted>>
    BY <2>1, SameCarried DEF Trusted
  <2> QED
    BY <2>2, <2>3 DEF Promise!Return, Promise!Next
<1>8. CASE UNCHANGED vars
  BY <1>1, <1>8 DEF vars, control, line
<1> QED
  BY <1>2, <1>3, <1>4, <1>5, <1>6, <1>7, <1>8 DEF Next, Promise!Next

(* For statuses and packets of any length, however many commands, whatever *)
(* the line loses or delays: the exchanges of proto.c are one at a time,   *)
(* change the recorder only as asked, and report no success that was none  *)
(* until one of them has left an answer behind (proto.c:147-303, 372-718). *)
THEOREM Implements == Spec => ImplementsExchange
<1>1. Init => Promise!Init
  <2> SUFFICES ASSUME Init PROVE Promise!Init
    OBVIOUS
  <2>1. cs = Free /\ Len(sent) = 0 /\ ~ late /\ ~ early /\ dev \in {"stopped", "running"}
    BY EmptySeq DEF Init
  <2>2. Phase = "free" /\ Command = Free /\ Carried = FALSE /\ Trusted = TRUE
    BY <2>1 DEF Phase, Command, Carried, Trusted
  <2> QED
    BY <2>1, <2>2 DEF Promise!Init
<1> QED
  BY <1>1, StepRefines, Invariance, PTL DEF Spec, ImplementsExchange, Promise!Spec

(* What follows from the promise alone: an order carried out has its       *)
(* effect until the exchange is over, and a success is of one carried out. *)
Obeyed ==
  /\ Phase # "free" /\ Carried /\ Command = "stop" => dev = "stopped"
  /\ Phase = "ok" /\ Trusted => Carried

LEMMA ObeyedInv == Obeyed /\ [Promise!Next]_Promise!vars => Obeyed'
<1> SUFFICES ASSUME Obeyed, [Promise!Next]_Promise!vars PROVE Obeyed'
  OBVIOUS
<1>1. CASE Promise!Ask
  <2>1. Phase' = "waiting" /\ dev' = IF Carried' THEN Promise!After(Command', dev) ELSE dev
    BY <1>1 DEF Promise!Ask
  <2>2. Promise!After("stop", dev) = "stopped"
    BY DEF Promise!After
  <2> QED
    BY <2>1, <2>2 DEF Obeyed
<1>2. CASE Promise!Succeed \/ Promise!Fail
  <2>1. /\ Phase = "waiting" /\ Phase' \in {"ok", "failed"}
        /\ Command' = Command /\ Carried' = Carried /\ dev' = dev
    BY <1>2, Zenon DEF Promise!Succeed, Promise!Fail
  <2>2. Trusted' => Trusted
    BY <1>2, Zenon DEF Promise!Succeed, Promise!Fail
  <2>3. Phase' = "ok" => Carried \/ ~ Trusted
    BY <1>2 DEF Promise!Succeed, Promise!Fail
  <2> QED
    BY <2>1, <2>2, <2>3 DEF Obeyed
<1>3. CASE Promise!Return
  BY <1>3 DEF Promise!Return, Obeyed
<1>4. CASE UNCHANGED Promise!vars
  BY <1>4 DEF Promise!vars, Obeyed
<1> QED
  BY <1>1, <1>2, <1>3, <1>4 DEF Promise!Next

(* "SUCCESS: stop measuring!" (proto.c:494) is true as long as every       *)
(* answer was waited for, whatever commands the line loses: what makes it  *)
(* false is a late answer.                                                 *)
THEOREM StopUntilLate == Spec => [](Trusted => StopReported)
<1>1. Init => Obeyed
  BY DEF Init, Obeyed, Phase
<1>2. Obeyed => (Trusted => StopReported)
  BY DEF Obeyed, StopReported, Phase, Command
<1> QED
  BY <1>1, <1>2, ObeyedInv, StepRefines, Invariance, PTL DEF Spec
=============================================================================
