----------------------------- MODULE SerialPort -----------------------------
(***************************************************************************)
(* The serial line to the recorder (proto.c): one exchange at a time, under *)
(* the mutex cs, of the port thread or of the network thread.  Nothing in  *)
(* the bytes says which command they answer, nobody empties the line before *)
(* a command, and a pause of 2 ms ends a read: what comes later is the next *)
(* exchange's.                                                             *)
(*                                                                         *)
(* Bytes are counted in fives: a short status is one unit, and a header    *)
(* that test_crc16 finds within ten bytes is in the first two units.  The  *)
(* units the device ever sent are numbered; arrived and taken say how far  *)
(* the line and the program are.                                           *)
(***************************************************************************)
EXTENDS Integers, Sequences

CONSTANTS
  StatusLen, DataLen,  \* sizeof DEV_STATUS_STRUCT and ADS1282_PACK_STRUCT
  NetCommands,         \* what the client makes the network thread send
  Faults,              \* "lost" (a command), "late" (an answer), "write"
  MaxCommands          \* bound: commands written to the line

ASSUME LengthAssumption ==
  StatusLen \in Nat /\ DataLen \in Nat /\ 2 < StatusLen /\ StatusLen < DataLen
ASSUME CommandAssumption == NetCommands \subseteq {"start", "stop", "test", "reset"}
ASSUME BoundAssumption == MaxCommands \in Nat

VARIABLES
  pc,       \* what each thread does next: a command it will send, or its place
  cs,       \* the mutex: the thread in an exchange, or Free
  step,     \* of that exchange: "read" or "check"
  asked,    \* commands written; the exchange's own is the last
  sent,     \* the units the device sent, in order
  arrived,  \* how many of them are in the line or were
  taken,    \* how many of them were read
  begin,    \* taken, when this exchange began: the buffer is what follows
  dev,      \* is the device measuring
  check,    \* the port thread has started the device once
  ending,   \* is_end_thread
  late,     \* history: a read ended while an answer was under way
  early,    \* history: the end of the program broke a read off
  lastUsed  \* history: the command whose answer was last taken for good

line    == <<sent, arrived, taken, begin>>
control == <<pc, cs, step>>
hist    == <<late, early, lastUsed>>
vars == <<control, asked, line, dev, check, ending, hist>>

Threads == {"port", "net"}
Free    == "free"
Cmds    == {"sync", "status", "data", "start", "stop", "test", "reset"}

LengthOf(kind) ==
  CASE kind = "short" -> 1 [] kind = "status" -> StatusLen [] kind = "data" -> DataLen

(* The len each command passes to data_port_read_any_data.                 *)
Wanted(c) == CASE c = "status" -> StatusLen [] c = "data" -> DataLen [] OTHER -> 1

(* What the device may answer: the short status also stands for an error.  *)
Kinds(c) == CASE c = "status" -> {"short", "status"}
              [] c = "data" -> {"short", "data"}
              [] OTHER -> {"short"}

Answer(n, kind) == [p \in 1 .. LengthOf(kind) |-> [cmd |-> n, kind |-> kind, part |-> p]]

Init ==
  /\ pc = [t \in Threads |-> IF t = "port" THEN "outer" ELSE "idle"]
  /\ cs = Free /\ step = "check"
  /\ asked = 0 /\ sent = << >> /\ arrived = 0 /\ taken = 0 /\ begin = 0
  /\ dev \in {"stopped", "running"} /\ check = FALSE /\ ending = FALSE
  /\ late = FALSE /\ early = FALSE /\ lastUsed = 0

-----------------------------------------------------------------------------
(* What the threads want.                                                  *)

(* The port thread's outer loop: once a second TimeSync and StatusGet,     *)
(* then DataGet; at the end, StopDevice.                                   *)
Loop ==
  /\ pc["port"] = "outer"
  /\ \E next \in IF ending THEN {"stop"} ELSE {"sync", "data"} :
       pc' = [pc EXCEPT !["port"] = next]
  /\ UNCHANGED <<cs, step, asked, line, dev, check, ending, hist>>

(* A datagram of the client.                                               *)
Request ==
  /\ pc["net"] = "idle"
  /\ \E c \in NetCommands : pc' = [pc EXCEPT !["net"] = c]
  /\ UNCHANGED <<cs, step, asked, line, dev, check, ending, hist>>

(* SIGINT                                                                  *)
End ==
  /\ ~ ending /\ ending' = TRUE
  /\ UNCHANGED <<control, asked, line, dev, check, hist>>

(* Where a thread goes after its exchange; ok says that the command        *)
(* succeeded, for DataGet that it brought a packet.  The first status that *)
(* says the device is set up leads to the start.                           *)
Continue(t, ok) ==
  LET c == pc[t]
      next == IF t = "net" THEN {IF ending THEN "done" ELSE "idle"}
              ELSE CASE c = "sync" -> {"status"}
                     [] c = "status" -> IF ok /\ ~ check THEN {"data", "start"} ELSE {"data"}
                     [] c = "start" -> {"data"}
                     [] c = "data" -> {IF ok THEN "data" ELSE "outer"}
                     [] c = "stop" -> {"done"}
  IN  \E n \in next :
        /\ pc' = [pc EXCEPT ![t] = n]
        /\ check' = (check \/ (t = "port" /\ n = "start"))

-----------------------------------------------------------------------------
(* An exchange.                                                            *)

(* Bug: the answer is read behind that of the exchange before.             *)
BugSend(t) ==
  /\ cs = Free /\ pc[t] \in Cmds /\ asked < MaxCommands
  /\ cs' = t /\ step' = "read"
  /\ asked' = asked + 1
  /\ \/ /\ \E kind \in Kinds(pc[t]) : sent' = sent \o Answer(asked + 1, kind)
        /\ dev' = CASE pc[t] = "start" -> "running" [] pc[t] = "stop" -> "stopped"
                    [] OTHER -> dev
     \/ "lost" \in Faults /\ UNCHANGED <<sent, dev>>
  /\ UNCHANGED <<pc, begin, arrived, taken, check, ending, hist>>

(* Enter the critical section and write the command, which arrives or not. *)
(* One step: nobody else is in the critical section.  The device answers   *)
(* what it gets; the answer takes its time (Arrive).                       *)
Send(t) ==
  /\ cs = Free /\ pc[t] \in Cmds /\ asked < MaxCommands
  /\ cs' = t /\ step' = "read"
  /\ asked' = asked + 1
  /\ begin' = taken
  /\ \/ /\ \E kind \in Kinds(pc[t]) : sent' = sent \o Answer(asked + 1, kind)
        /\ dev' = CASE pc[t] = "start" -> "running" [] pc[t] = "stop" -> "stopped"
                    [] OTHER -> dev
     \/ "lost" \in Faults /\ UNCHANGED <<sent, dev>>
  /\ UNCHANGED <<pc, arrived, taken, check, ending, hist>>

(* The write fails or is short; or StartDevice refuses the frequency.      *)
Refuse(t) ==
  /\ cs = Free /\ pc[t] \in Cmds
  /\ "write" \in Faults \/ (t = "net" /\ pc[t] = "start")
  /\ Continue(t, FALSE)
  /\ UNCHANGED <<cs, step, asked, line, dev, ending, hist>>

Arrive ==
  /\ arrived < Len(sent)
  /\ arrived' = arrived + 1
  /\ UNCHANGED <<control, asked, sent, taken, begin, dev, check, ending, hist>>

(* Bug: the read returns after the first bytes.                            *)
BugTake ==
  /\ cs # Free /\ step = "read" /\ taken < arrived
  /\ LET all == begin + Wanted(pc[cs])
     IN  /\ taken' = IF arrived < all THEN arrived ELSE all
         /\ step' = "check"
  /\ UNCHANGED <<pc, cs, asked, sent, arrived, begin, dev, check, ending, hist>>

(* Bug: the read takes its length for what it got.                         *)
BugLength ==
  /\ cs # Free /\ step = "read" /\ taken < arrived
  /\ taken' = begin + Wanted(pc[cs])
  /\ step' = "check"
  /\ UNCHANGED <<pc, cs, asked, sent, arrived, begin, dev, check, ending, hist>>

(* One round of data_port_read: what is there, as far as it is wanted.     *)
Take ==
  /\ cs # Free /\ step = "read" /\ taken < arrived
  /\ LET all == begin + Wanted(pc[cs])
     IN  /\ taken' = IF arrived < all THEN arrived ELSE all
         /\ step' = IF taken' = all \/ ending THEN "check" ELSE "read"
         /\ early' = (early \/ (ending /\ taken' # all /\ taken' < Len(sent)))
  /\ UNCHANGED <<pc, cs, asked, sent, arrived, begin, dev, check, ending, late, lastUsed>>

(* select: nothing for 2 ms.                                               *)
Timeout ==
  /\ cs # Free /\ step = "read" /\ taken = arrived
  /\ arrived = Len(sent) \/ "late" \in Faults
  /\ step' = "check"
  /\ late' = (late \/ arrived < Len(sent))
  /\ UNCHANGED <<pc, cs, asked, line, dev, check, ending, early, lastUsed>>

-----------------------------------------------------------------------------
(* data_port_read_any_data and test_crc16, on the buffer.                  *)

num == taken - begin

(* Where the header of an answer of that length is.                        *)
IsHeader(i, length) ==
  i <= taken /\ sent[i].part = 1 /\ LengthOf(sent[i].kind) = length

(* The length in front is the number of bytes read, and their CRC right.   *)
Whole == num > 0 /\ IsHeader(begin + 1, num)

(* "A patch, if the header shifts": a status or a packet that begins       *)
(* otherwise is moved to the header found within ten bytes, or, a status,  *)
(* left where it is; neither has its CRC looked at.                        *)
Shifted == num = DataLen /\ IsHeader(begin + 2, DataLen)
Patched == num = StatusLen \/ Shifted

(* Fewer bytes than wanted, and not five, are no answer.                   *)
Good == (num >= Wanted(pc[cs]) \/ num = 1) /\ (Whole \/ Patched)

(* "Try to fix": a packet cut short is taken if it begins like one.        *)
Salvaged == pc[cs] = "data" /\ num > 1 /\ IsHeader(begin + 1, DataLen)

Ok == Good \/ Salvaged

(* DataGet returns 0.                                                      *)
Packet == pc[cs] = "data" /\ Ok /\ num # 1

(* The answers taken for good: the header is first, or shifted by a unit.  *)
Uses(i) ==
  /\ Ok /\ i \in {begin + 1, begin + 2}
  /\ IF Whole \/ Salvaged THEN i = begin + 1 ELSE IsHeader(i, num)

(* What the exchange returns, and LeaveCriticalSection.                    *)
Check ==
  /\ cs # Free /\ step = "check"
  /\ Continue(cs, IF pc[cs] = "data" THEN Packet ELSE Ok)
  /\ cs' = Free
  /\ lastUsed' = IF \E i \in {begin + 1, begin + 2} : Uses(i)
                   THEN sent[CHOOSE i \in {begin + 1, begin + 2} : Uses(i)].cmd
                   ELSE lastUsed
  /\ UNCHANGED <<step, asked, line, dev, ending, late, early>>

Next ==
  \/ Loop \/ Request \/ End
  \/ \E t \in Threads : Send(t) \/ Refuse(t)
  \/ Arrive \/ Take \/ Timeout \/ Check

Spec == Init /\ [][Next]_vars

-----------------------------------------------------------------------------
Units == [cmd : 1 .. MaxCommands, kind : {"short", "status", "data"}, part : 1 .. DataLen]

(* Type correctness: the program is never ahead of the line, and a read    *)
(* never takes more than was asked for.                                    *)
TypeOK ==
  /\ pc \in [Threads -> Cmds \cup {"outer", "idle", "done"}]
  /\ pc["port"] \in {"outer", "sync", "status", "data", "start", "stop", "done"}
  /\ pc["net"] \in NetCommands \cup {"idle", "done"}
  /\ cs \in Threads \cup {Free} /\ step \in {"read", "check"}
  /\ cs # Free => pc[cs] \in Cmds /\ taken <= begin + Wanted(pc[cs])
  /\ asked \in 0 .. MaxCommands
  /\ sent \in Seq(Units)
  /\ arrived \in 0 .. Len(sent) /\ taken \in 0 .. arrived /\ begin \in 0 .. taken
  /\ dev \in {"stopped", "running"}
  /\ check \in BOOLEAN /\ ending \in BOOLEAN
  /\ late \in BOOLEAN /\ early \in BOOLEAN
  /\ lastUsed \in 0 .. MaxCommands

(* Until the first answer comes late (or the end of the program breaks a   *)
(* read off), an exchange reads nothing but the answer to its own command, *)
(* whatever commands were lost before it, and leaves the line empty for    *)
(* the next one.                                                           *)
InStep ==
  ~ late /\ ~ early =>
    /\ cs = Free => taken = Len(sent)
    /\ cs # Free /\ step = "check" =>
         \A i \in begin + 1 .. taken : sent[i].cmd = asked

(* However late the answers: none is taken for good by two exchanges or    *)
(* after a later one, and what DataGet takes for a packet begins with the  *)
(* header of one, so that no packet is recorded twice or out of order.     *)
UsedOnce ==
  cs # Free /\ step = "check" =>
    /\ \A i \in 1 .. taken : Uses(i) => sent[i].cmd > lastUsed
    /\ Packet => \E i \in 1 .. taken : Uses(i) /\ sent[i].kind = "data"

(* How far the exchange is and what it asks for; whether the recorder got  *)
(* the last command; whether every answer was waited for so far.           *)
Phase ==
  IF cs = Free THEN "free" ELSE IF step = "read" THEN "waiting"
  ELSE IF Ok THEN "ok" ELSE "failed"
Command == IF cs = Free THEN Free ELSE pc[cs]
Carried == \E i \in 1 .. Len(sent) : sent[i].cmd = asked
Trusted == ~ late /\ ~ early

Promise == INSTANCE Exchange WITH
  Commands <- Cmds, NoCommand <- Free,
  phase <- Phase, command <- Command, carried <- Carried, trusted <- Trusted

(* The exchanges of proto.c, whatever the line does to them, are those of  *)
(* Exchange: one at a time, the recorder started and stopped only by one   *)
(* that asks for it, and no success that was none until an answer was late *)
(* or broken off, the exchange that leaves it behind included.             *)
ImplementsExchange == Promise!Spec

(* "SUCCESS: stop measuring!" (proto.c:494): when StopDevice returns 0,    *)
(* the device has stopped.                                                 *)
StopReported ==
  cs # Free /\ step = "check" /\ pc[cs] = "stop" /\ Ok => dev = "stopped"
=============================================================================
