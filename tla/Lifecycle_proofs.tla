-------------------------- MODULE Lifecycle_proofs --------------------------
(***************************************************************************)
(* Proofs about Lifecycle's safety properties, for any number of SIGINTs   *)
(* and every outcome of the cancellation.                                  *)
(***************************************************************************)
EXTENDS Lifecycle, TLAPS

Labels == Exchanges \cup {"off", "test", "record", "call", "blocked",
                          "run", "open", "wait", "dead"}

(* A command since SIGINT is the last: the loop is over behind it.         *)
LastCommand ==
  /\ extra \in {0, 1}
  /\ extra = 1 => ending /\ pc["net"] \notin {"call", "blocked", "run"}

(* The port thread stops the device when it ends; after that only a start  *)
(* in the buffer of the network thread can start it, and is its last.      *)
PortStopped ==
  /\ pc["port"] = "stop" => ending
  /\ pc["net"] = "start" => cmd \in {"start", "junk"}
  /\ pc["port"] = "dead" /\ "port" \notin hit =>
       /\ ending
       /\ \/ told = "stop"
          \/ cmd \in {"start", "junk"} /\ pc["net"] \in {"test", "dead"}

(* main before the first pthread_create.                                   *)
Early == {"log", "port", "status", "ring", "socket", "create net"}

(* main gets to the end without the port thread, or after all three.       *)
PortJoined ==
  /\ main \in Early => pc["net"] = "off"
  /\ main \in Early \cup {"create nmea"} => pc["nmea"] = "off"
  /\ main \in Early \cup {"create nmea", "create port"} => pc["port"] = "off"
  /\ main \in {"join nmea", "join port"} => pc["net"] = "dead"
  /\ main = "join port" => pc["nmea"] = "dead"
  /\ main \in {"close", "close log", "exited"} =>
       \/ pc["port"] = "off"
       \/ pc["net"] = "dead" /\ pc["nmea"] = "dead" /\ pc["port"] = "dead"

IInv == TypeOK /\ LastCommand /\ PortStopped /\ PortJoined

-----------------------------------------------------------------------------
LEMMA InitInv == Init => IInv
<1> SUFFICES ASSUME Init PROVE IInv
  OBVIOUS
<1>1. /\ pc \in [Threads -> Labels]
      /\ pc["port"] = "off" /\ pc["net"] = "off"
  BY DEF Init, Threads, Labels
<1>2. pc["nmea"] = "off"
  BY DEF Init, Threads
<1> QED
  <2>1. signals \in 0 .. MaxSignals /\ extra \in Nat /\ extra = 0
    BY SignalAssumption DEF Init
  <2>2. TypeOK
    BY <1>1, <2>1 DEF Init, TypeOK, Free, Labels
  <2>3. LastCommand
    BY <2>1 DEF LastCommand
  <2>4. PortStopped
    BY <1>1 DEF PortStopped
  <2>5. PortJoined
    BY <1>1, <1>2 DEF Init, PortJoined, Early
  <2> QED
    BY <2>2, <2>3, <2>4, <2>5 DEF IInv

(* What a step of a thread makes of the labels.                            *)
LEMMA GotoType ==
  ASSUME TypeOK, NEW t \in Threads, NEW label \in Labels, Goto(t, label)
  PROVE  /\ pc' \in [Threads -> Labels]
         /\ pc'[t] = label /\ \A u \in Threads \ {t} : pc'[u] = pc[u]
  BY DEF TypeOK, Goto, Labels

-----------------------------------------------------------------------------
(* main and the signal handler.                                            *)

LEMMA MainInv ==
  ASSUME IInv, Main
  PROVE  IInv'
<1>1. TypeOK /\ LastCommand /\ PortStopped /\ PortJoined
  BY DEF IInv
<1>2. UNCHANGED Rest
  BY DEF Main, OpenLog, OpenPort, Prepare, OpenNet, Create, Join, ClosePort, Exit
<1>3. /\ main' \in {"log", "port", "status", "ring", "socket", "create net", "create nmea",
                    "create port", "join net", "join nmea", "join port", "close", "close log",
                    "exited", "crashed"}
      /\ sock' \in {"none", "open", "closed"} /\ shut' \in BOOLEAN
  BY <1>1 DEF Main, OpenLog, OpenPort, Prepare, OpenNet, Create, Join, ClosePort, Exit, TypeOK, socket
<1>4. CASE UNCHANGED pc
  <2>1. PortJoined'
    BY <1>1, <1>4 DEF Main, OpenLog, OpenPort, Prepare, OpenNet, Create, Join, ClosePort, Exit, PortJoined, Early
  <2>2. TypeOK'
    BY <1>1, <1>2, <1>3, <1>4 DEF TypeOK, Rest, port
  <2> QED
    BY <1>1, <1>2, <1>4, <2>1, <2>2 DEF IInv, LastCommand, PortStopped, Rest
<1>5. ASSUME NEW t \in Threads, NEW label, NEW next, Create(t, label, next), ~ UNCHANGED pc,
             <<t, label, next>> \in {<<"net", "create net", "create nmea">>,
                                     <<"nmea", "create nmea", "create port">>,
                                     <<"port", "create port", "join net">>}
      PROVE  IInv'
  <2>1. main = label /\ main' = next /\ Goto(t, IF t = "nmea" THEN "open" ELSE "test")
    BY <1>5 DEF Create
  <2>2. /\ pc' \in [Threads -> Labels]
        /\ pc'[t] = (IF t = "nmea" THEN "open" ELSE "test")
        /\ \A u \in Threads \ {t} : pc'[u] = pc[u]
    BY <1>1, <2>1, GotoType DEF Labels
  <2>3. pc[t] = "off" \/ t # "port"
    BY <1>1, <1>5, <2>1 DEF PortJoined, Early
  <2>4. CASE t = "port"
    <3>1. pc["port"] = "off" /\ pc'["port"] = "test" /\ pc'["net"] = pc["net"]
          /\ main' = "join net" /\ \A u \in Threads \ {"port"} : pc'[u] = pc[u]
      BY <1>5, <2>1, <2>2, <2>3, <2>4 DEF Threads
    <3>2. cs # Free => pc'[cs] \in Exchanges \cup {"dead"}
      BY <1>1, <3>1 DEF TypeOK, Exchanges
    <3>3. TypeOK'
      BY <1>1, <1>2, <1>3, <2>2, <3>2 DEF TypeOK, Rest, port, Labels
    <3> QED
      BY <1>1, <1>2, <3>1, <3>3 DEF IInv, LastCommand, PortStopped, PortJoined, Early, Rest
  <2>5. CASE t = "net"
    <3>1. pc'["net"] = "test" /\ pc'["port"] = pc["port"] /\ main' = "create nmea"
          /\ \A u \in Threads \ {"net"} : pc'[u] = pc[u]
      BY <1>5, <2>1, <2>2, <2>5 DEF Threads
    <3>2. pc["net"] = "off"
      BY <1>1, <1>5, <2>1, <2>5 DEF PortJoined, Early
    <3>3. cs # Free => pc'[cs] \in Exchanges \cup {"dead"}
      BY <1>1, <3>1, <3>2 DEF TypeOK, Exchanges
    <3>4. TypeOK'
      BY <1>1, <1>2, <1>3, <2>2, <3>3 DEF TypeOK, Rest, port, Labels
    <3>5. main = "create net"
      BY <1>5, <2>1, <2>5
    <3>6. pc["port"] = "off" /\ pc["nmea"] = "off" /\ pc'["nmea"] = pc["nmea"]
      BY <1>1, <3>1, <3>5 DEF PortJoined, Early, Threads
    <3>7. LastCommand'
      BY <1>1, <1>2, <3>1 DEF LastCommand, Rest
    <3>8. PortStopped' /\ PortJoined'
      BY <3>1, <3>6 DEF PortStopped, PortJoined, Early
    <3> QED
      BY <3>4, <3>7, <3>8 DEF IInv
  <2>6. CASE t = "nmea"
    <3>1. pc'["net"] = pc["net"] /\ pc'["port"] = pc["port"] /\ main' = "create port"
          /\ \A u \in Threads \ {"nmea"} : pc'[u] = pc[u]
      BY <1>5, <2>1, <2>2, <2>6 DEF Threads
    <3>2. pc["nmea"] = "off"
      BY <1>1, <1>5, <2>1, <2>6 DEF PortJoined, Early
    <3>3. cs # Free => pc'[cs] \in Exchanges \cup {"dead"}
      BY <1>1, <3>1, <3>2 DEF TypeOK, Exchanges
    <3>4. TypeOK'
      BY <1>1, <1>2, <1>3, <2>2, <3>3 DEF TypeOK, Rest, port, Labels
    <3> QED
      BY <1>1, <1>2, <1>5, <2>1, <2>6, <3>1, <3>4
         DEF IInv, LastCommand, PortStopped, PortJoined, Early, Rest
  <2> QED
    BY <2>4, <2>5, <2>6 DEF Threads
<1> QED
  BY <1>4, <1>5 DEF Main, OpenLog, OpenPort, Prepare, OpenNet, Create, Join, ClosePort, Exit, Threads

LEMMA HandlerInv ==
  ASSUME IInv, SigInt \/ Handler
  PROVE  IInv'
<1>1. TypeOK /\ LastCommand /\ PortStopped /\ PortJoined
  BY DEF IInv
<1>2. UNCHANGED <<pc, cs, cmd, port, told, extra>>
  BY DEF SigInt, Handler, Flag, Shutdown, Close, CancelCall, socket
<1>3. /\ ending => ending'
      /\ hit \subseteq hit'
      /\ main' = main \/ main' = "crashed"
  BY DEF SigInt, Handler, Flag, Shutdown, Close, CancelCall
<1>4. TypeOK'
  <2>1. CASE SigInt
    <3>1. signals' \in 0 .. MaxSignals
      <4>1. signals \in 0 .. MaxSignals
        BY <1>1 DEF TypeOK
      <4>2. signals < MaxSignals /\ signals' = signals + 1
        BY <2>1 DEF SigInt
      <4> QED
        BY <4>1, <4>2, SignalAssumption
    <3>2. handler' = "flag" /\ UNCHANGED <<main, ending, socket, hit>>
      BY <2>1 DEF SigInt
    <3>3. ending' \in BOOLEAN /\ shut' \in BOOLEAN
      BY <1>1, <3>2 DEF TypeOK, socket
    <3>4. /\ handler' \in {"idle", "flag", "shutdown", "close", "cancel"}
          /\ sock' \in {"none", "open", "closed"} /\ hit' \subseteq Threads /\ main' = main
      BY <1>1, <3>2 DEF TypeOK, socket
    <3> QED
      BY <1>1, <1>2, <3>1, <3>3, <3>4 DEF TypeOK, port
  <2>2. CASE Handler
    <3>1. UNCHANGED signals
      BY <2>2 DEF Handler, Flag, Shutdown, Close, CancelCall
    <3>2. ending' \in BOOLEAN
      BY <1>1, <2>2 DEF Handler, Flag, Shutdown, Close, CancelCall, TypeOK
    <3>3. shut' \in BOOLEAN
      BY <1>1, <2>2 DEF Handler, Flag, Shutdown, Close, CancelCall, TypeOK, socket
    <3>4. sock' \in {"none", "open", "closed"}
      BY <1>1, <2>2 DEF Handler, Flag, Shutdown, Close, CancelCall, TypeOK, socket
    <3>5. /\ handler' \in {"idle", "flag", "shutdown", "close", "cancel"}
          /\ hit' \subseteq Threads
      BY <1>1, <2>2 DEF Handler, Flag, Shutdown, Close, CancelCall, TypeOK
    <3> QED
      BY <1>1, <1>2, <1>3, <3>1, <3>2, <3>3, <3>4, <3>5 DEF TypeOK, port
  <2> QED
    BY <2>1, <2>2
<1>5. LastCommand' /\ PortStopped' /\ PortJoined'
  BY <1>1, <1>2, <1>3 DEF LastCommand, PortStopped, PortJoined, Early
<1> QED
  BY <1>4, <1>5 DEF IInv

-----------------------------------------------------------------------------
(* The threads.                                                            *)

(* What a step of a thread must leave in order for the types.              *)
LEMMA ThreadType ==
  ASSUME TypeOK, UNCHANGED <<main, handler, ending, signals, socket, hit>>,
         pc' \in [Threads -> Labels], cs' \in Threads \cup {Free},
         cs' # Free => pc'[cs'] \in Exchanges \cup {"dead"},
         cmd' \in Commands \cup {"junk"}, told' \in {"start", "stop"}, extra' \in Nat,
         fresh' \in BOOLEAN, check' \in BOOLEAN, enabled' \in BOOLEAN
  PROVE  TypeOK'
<1>1. ending' \in BOOLEAN /\ shut' \in BOOLEAN
  BY DEF TypeOK, socket
<1>2. /\ sock' \in {"none", "open", "closed"} /\ hit' \subseteq Threads
      /\ main' = main /\ handler' = handler /\ signals' = signals
  BY DEF TypeOK, socket
<1> QED
  BY <1>1, <1>2 DEF TypeOK, Labels

LEMMA PortInv ==
  ASSUME IInv, Port
  PROVE  IInv'
<1>1. TypeOK /\ LastCommand /\ PortStopped /\ PortJoined
  BY DEF IInv
<1>2. UNCHANGED Others
  BY DEF Port, PortTest, TimeSync, StatusGet, StartDevice, Packet, Record, NoPacket, StopDevice
<1>3. \E label \in {"stop", "sync", "data", "status", "start", "record", "test", "dead"} :
        Goto("port", label)
  BY DEF Port, PortTest, TimeSync, StatusGet, StartDevice, Packet, Record, NoPacket,
         StopDevice, ToData
<1>4. /\ pc' \in [Threads -> Labels] /\ pc'["net"] = pc["net"]
      /\ \A u \in Threads \ {"port"} : pc'[u] = pc[u]
  BY <1>1, <1>3, GotoType DEF Threads, Labels, Exchanges
<1>5. /\ fresh' \in BOOLEAN /\ check' \in BOOLEAN /\ enabled' \in BOOLEAN
  <2>1. fresh \in BOOLEAN /\ check \in BOOLEAN /\ enabled \in BOOLEAN
    BY <1>1 DEF TypeOK
  <2> QED
    BY <2>1, Zenon DEF Port, PortTest, TimeSync, StatusGet, StartDevice, Packet, Record,
       NoPacket, StopDevice, ToData, port
<1>6. /\ cs' = Free \/ (cs' = cs /\ pc["port"] \in {"test", "record"})
      /\ told' = told \/ told' \in {"start", "stop"}
  BY DEF Port, PortTest, TimeSync, StatusGet, StartDevice, Packet, Record, NoPacket,
         StopDevice, Leave
<1>7. TypeOK'
  <2>1. cs' \in Threads \cup {Free} /\ told' \in {"start", "stop"}
    BY <1>1, <1>6 DEF TypeOK
  <2>2. cs' # Free => cs' \in Threads \ {"port"} /\ cs' = cs
    BY <1>1, <1>6 DEF TypeOK, Exchanges
  <2>3. cs' # Free => pc'[cs'] \in Exchanges \cup {"dead"}
    BY <1>1, <1>4, <2>2 DEF TypeOK
  <2>4. /\ UNCHANGED <<main, handler, ending, signals, socket, hit>>
        /\ cmd' \in Commands \cup {"junk"} /\ extra' \in Nat
    BY <1>1, <1>2 DEF TypeOK, Others
  <2> QED
    BY <1>1, <1>4, <1>5, <2>1, <2>3, <2>4, ThreadType
<1>8. LastCommand'
  BY <1>1, <1>2, <1>4 DEF LastCommand, Others
<1>9. pc["port"] \notin {"off", "dead"}
  BY DEF Port, PortTest, TimeSync, StatusGet, StartDevice, Packet, Record, NoPacket,
         StopDevice, Leave
<1>10. /\ pc'["port"] = "stop" => ending
       /\ pc'["port"] = "dead" => told' = "stop" /\ ending
  <2>1. CASE PortTest
    <3>1. pc'["port"] = "stop" \/ pc'["port"] = "sync" \/ pc'["port"] = "data"
      BY <1>1, <2>1 DEF PortTest, TypeOK, Goto, ToData, Threads
    <3>2. pc'["port"] = "stop" => ending
      BY <1>1, <2>1 DEF PortTest, TypeOK, Goto, ToData, Threads
    <3> QED
      BY <3>1, <3>2
  <2>2. CASE StopDevice
    <3>1. pc'["port"] = "dead" /\ told' = "stop" /\ pc["port"] = "stop"
      BY <1>1, <2>2 DEF StopDevice, TypeOK, Goto, Leave, Threads
    <3> QED
      BY <1>1, <3>1 DEF PortStopped
  <2>3. CASE TimeSync \/ StatusGet \/ StartDevice \/ Packet \/ Record \/ NoPacket
    <3>1. pc'["port"] \notin {"stop", "dead"}
      BY <1>1, <2>3 DEF TimeSync, StatusGet, StartDevice, Packet, Record, NoPacket,
         ToData, Goto, TypeOK, Threads
    <3> QED
      BY <3>1
  <2> QED
    BY <2>1, <2>2, <2>3 DEF Port
<1>11. PortStopped'
  BY <1>1, <1>2, <1>4, <1>10 DEF PortStopped, Others
<1>12. PortJoined'
  <2>1. main' = main
    BY <1>2 DEF Others
  <2>2. pc'["nmea"] = pc["nmea"]
    BY <1>4 DEF Threads
  <2> QED
    BY <1>1, <1>4, <1>9, <2>1, <2>2 DEF PortJoined, Early
<1> QED
  BY <1>7, <1>8, <1>11, <1>12 DEF IInv

LEMMA NetInv ==
  ASSUME IInv, Datagram \/ Net
  PROVE  IInv'
<1>1. TypeOK /\ LastCommand /\ PortStopped /\ PortJoined
  BY DEF IInv
<1>2. UNCHANGED Outside
  BY DEF Datagram, Net, NetTest, Call, Woken, Run, Command
<1>3. \E label \in {"dead", "call", "blocked", "run", "test", "other", "start", "stop"} :
        Goto("net", label)
  <2>1. CASE Run
    BY <1>1, <2>1 DEF Run, TypeOK, Commands
  <2>2. CASE Datagram \/ NetTest \/ Call \/ Woken \/ Command
    BY <2>2 DEF Datagram, NetTest, Call, Woken, Command
  <2> QED
    BY <2>1, <2>2 DEF Net
<1>4. /\ pc' \in [Threads -> Labels] /\ pc'["port"] = pc["port"] /\ pc'["nmea"] = pc["nmea"]
      /\ \A u \in Threads \ {"net"} : pc'[u] = pc[u]
  BY <1>1, <1>3, GotoType DEF Threads, Labels, Exchanges
<1>5. /\ cs' = Free \/ (cs' = cs /\ pc["net"] \in {"test", "call", "blocked", "run"})
      /\ told' \in {"start", "stop"} /\ cmd' \in Commands \cup {"junk"} /\ extra' \in Nat
  <2>1. cs' = Free \/ (cs' = cs /\ pc["net"] \in {"test", "call", "blocked", "run"})
    BY DEF Datagram, Net, NetTest, Call, Woken, Run, Command, Leave
  <2>2. told' \in {"start", "stop"}
    <3>1. told \in {"start", "stop"}
      BY <1>1 DEF TypeOK
    <3> QED
      BY <3>1 DEF Datagram, Net, NetTest, Call, Woken, Run, Command, Leave
  <2>3. cmd' \in Commands \cup {"junk"}
    <3>1. cmd \in Commands \cup {"junk"}
      BY <1>1 DEF TypeOK
    <3> QED
      BY <3>1 DEF Datagram, Net, NetTest, Call, Woken, Run, Command
  <2>4. extra' \in Nat
    <3>1. extra \in Nat
      BY <1>1 DEF TypeOK
    <3>2. extra' = extra \/ extra' = extra + 1
      BY DEF Datagram, Net, NetTest, Call, Woken, Run, Command
    <3> QED
      BY <3>1, <3>2
  <2> QED
    BY <2>1, <2>2, <2>3, <2>4
<1>6. TypeOK'
  <2>1. cs' \in Threads \cup {Free}
    BY <1>1, <1>5 DEF TypeOK
  <2>2. cs' # Free => cs' \in Threads \ {"net"} /\ cs' = cs
    BY <1>1, <1>5 DEF TypeOK, Exchanges
  <2>3. cs' # Free => pc'[cs'] \in Exchanges \cup {"dead"}
    BY <1>1, <1>4, <2>2 DEF TypeOK
  <2>4. /\ UNCHANGED <<main, handler, ending, signals, socket, hit>>
        /\ fresh' \in BOOLEAN /\ check' \in BOOLEAN /\ enabled' \in BOOLEAN
    BY <1>1, <1>2 DEF TypeOK, Outside, port
  <2> QED
    BY <1>1, <1>4, <1>5, <2>1, <2>3, <2>4, ThreadType
<1>7. pc["net"] \notin {"off", "dead"}
  BY DEF Datagram, Net, NetTest, Call, Woken, Run, Command, Leave
<1>8. LastCommand'
  <2>1. CASE Run
    <3>1. extra = 0 /\ pc'["net"] \notin {"call", "blocked", "run"}
      BY <1>1, <2>1 DEF Run, LastCommand, TypeOK, Goto, Threads, Commands
    <3>2. extra' = (IF ending THEN 1 ELSE 0) /\ ending' = ending
      BY <1>2, <2>1, <3>1 DEF Run, Outside
    <3> QED
      BY <3>1, <3>2 DEF LastCommand
  <2>2. CASE NetTest
    <3>1. extra' = extra /\ ending' = ending /\ (ending => pc'["net"] = "dead")
      BY <1>1, <1>2, <2>2 DEF NetTest, Outside, Goto, TypeOK, Threads
    <3> QED
      BY <1>1, <3>1 DEF LastCommand
  <2>3. CASE Command
    <3>1. extra' = extra /\ ending' = ending /\ pc'["net"] = "test"
      BY <1>1, <1>2, <2>3 DEF Command, Outside, Goto, TypeOK, Threads
    <3> QED
      BY <1>1, <3>1 DEF LastCommand
  <2>4. CASE Datagram \/ Call \/ Woken
    <3>1. extra' = extra /\ extra # 1
      BY <1>1, <2>4 DEF Datagram, Call, Woken, LastCommand
    <3> QED
      BY <1>1, <3>1 DEF LastCommand
  <2> QED
    BY <2>1, <2>2, <2>3, <2>4 DEF Net
<1>9. PortStopped'
  <2> DEFINE over == pc["port"] = "dead" /\ "port" \notin hit
  <2>1. /\ pc'["port"] = "stop" => ending'
        /\ ending' = ending /\ hit' = hit /\ pc'["port"] = pc["port"]
    BY <1>1, <1>2, <1>4 DEF PortStopped, Outside
  <2>2. over => ending
    BY <1>1 DEF PortStopped
  <2>3. CASE Run
    <3>1. /\ pc'["net"] = "start" => cmd \in {"start", "junk"}
          /\ cmd' = cmd /\ told' = told /\ pc["net"] = "run"
      BY <1>1, <2>3 DEF Run, Goto, TypeOK, Threads, Commands
    <3> QED
      BY <1>1, <2>1, <2>2, <3>1 DEF PortStopped
  <2>4. CASE NetTest
    <3>1. /\ pc'["net"] = "dead" \/ (~ ending /\ pc'["net"] = "call")
          /\ cmd' = cmd /\ told' = told
      BY <1>1, <2>4 DEF NetTest, Goto, TypeOK, Threads
    <3> QED
      BY <1>1, <2>1, <2>2, <3>1 DEF PortStopped
  <2>5. CASE Command
    <3>1. /\ pc'["net"] = "test" /\ cmd' = cmd
          /\ \/ told' = told /\ pc["net"] = "other"
             \/ told' = "start" /\ pc["net"] = "start"
             \/ told' = "stop" /\ pc["net"] = "stop"
      BY <1>1, <2>5 DEF Command, Leave, Goto, TypeOK, Threads
    <3> QED
      BY <1>1, <2>1, <2>2, <3>1 DEF PortStopped
  <2>6. CASE Datagram \/ Call \/ Woken
    <3>1. /\ pc'["net"] \in {"run", "blocked", "dead"} /\ told' = told
          /\ pc["net"] \in {"blocked", "call"}
      BY <1>1, <2>6 DEF Datagram, Call, Woken, Goto, TypeOK, Threads
    <3> QED
      BY <1>1, <2>1, <2>2, <3>1 DEF PortStopped
  <2> QED
    BY <2>3, <2>4, <2>5, <2>6 DEF Net
<1>10. PortJoined'
  <2>1. main' = main
    BY <1>2 DEF Outside
  <2> QED
    BY <1>1, <1>4, <1>7, <2>1 DEF PortJoined, Early
<1> QED
  BY <1>6, <1>8, <1>9, <1>10 DEF IInv

LEMMA NmeaInv ==
  ASSUME IInv, Nmea
  PROVE  IInv'
<1>1. TypeOK /\ LastCommand /\ PortStopped /\ PortJoined
  BY DEF IInv
<1>2. UNCHANGED <<Others, check, enabled, cs, told>>
  BY DEF Nmea
<1>3. \/ UNCHANGED pc
      \/ pc["nmea"] = "open" /\ \E label \in {"wait", "dead"} : Goto("nmea", label)
      \/ pc["nmea"] = "wait" /\ Goto("nmea", "dead")
  BY DEF Nmea
<1>4. /\ pc' \in [Threads -> Labels] /\ pc'["net"] = pc["net"] /\ pc'["port"] = pc["port"]
      /\ \A u \in Threads \ {"nmea"} : pc'[u] = pc[u]
  <2>1. CASE UNCHANGED pc
    BY <1>1, <2>1 DEF TypeOK, Labels
  <2>2. CASE \E label \in {"wait", "dead"} : Goto("nmea", label)
    BY <1>1, <2>2, GotoType DEF Threads, Labels
  <2> QED
    BY <1>3, <2>1, <2>2
<1>5. pc["nmea"] \in {"open", "wait"}
  BY DEF Nmea
<1>6. TypeOK'
  <2>1. fresh' \in BOOLEAN
    <3>1. fresh \in BOOLEAN
      BY <1>1 DEF TypeOK
    <3> QED
      BY <3>1, Zenon DEF Nmea
  <2>2. cs' = cs /\ cs \in Threads \cup {Free} /\ cs # "nmea"
    BY <1>1, <1>2, <1>5 DEF TypeOK, Exchanges, Free
  <2>3. cs' # Free => pc'[cs'] \in Exchanges \cup {"dead"}
    BY <1>1, <1>4, <2>2 DEF TypeOK
  <2>4. /\ check' \in BOOLEAN /\ enabled' \in BOOLEAN
        /\ told' \in {"start", "stop"} /\ cmd' \in Commands \cup {"junk"} /\ extra' \in Nat
    BY <1>1, <1>2 DEF TypeOK, Others
  <2>5. UNCHANGED <<main, handler, ending, signals, socket, hit>>
    BY <1>2 DEF Others
  <2> QED
    BY <1>1, <1>4, <2>1, <2>2, <2>3, <2>4, <2>5, ThreadType
<1>7. main' = main /\ ending' = ending /\ extra' = extra /\ hit' = hit /\ cmd' = cmd
      /\ told' = told
  BY <1>2 DEF Others
<1>8. LastCommand' /\ PortStopped' /\ PortJoined'
  BY <1>1, <1>4, <1>5, <1>7 DEF LastCommand, PortStopped, PortJoined, Early
<1> QED
  BY <1>6, <1>8 DEF IInv

LEMMA EnterInv ==
  ASSUME IInv, NEW t \in Threads, Enter(t)
  PROVE  IInv'
<1>1. TypeOK /\ LastCommand /\ PortStopped /\ PortJoined
  BY DEF IInv
<1>2. /\ UNCHANGED <<main, handler, pc, ending, signals, socket, cmd, port, hit, told, extra>>
      /\ cs' = t /\ pc[t] \in Exchanges
  BY DEF Enter
<1>3. TypeOK'
  <2>1. /\ pc' \in [Threads -> Labels] /\ cmd' \in Commands \cup {"junk"}
        /\ told' \in {"start", "stop"} /\ extra' \in Nat
    BY <1>1, <1>2 DEF TypeOK, Labels
  <2>2. fresh' \in BOOLEAN /\ check' \in BOOLEAN /\ enabled' \in BOOLEAN
    BY <1>1, <1>2 DEF TypeOK, port
  <2>3. UNCHANGED <<main, handler, ending, signals, socket, hit>>
    BY <1>2
  <2> QED
    BY <1>1, <1>2, <2>1, <2>2, <2>3, ThreadType
<1>4. LastCommand' /\ PortStopped' /\ PortJoined'
  BY <1>1, <1>2 DEF LastCommand, PortStopped, PortJoined, Early
<1> QED
  BY <1>3, <1>4 DEF IInv

LEMMA CancelledInv ==
  ASSUME IInv, NEW t \in Threads, Cancelled(t)
  PROVE  IInv'
<1>1. TypeOK /\ LastCommand /\ PortStopped /\ PortJoined
  BY DEF IInv
<1>2. /\ UNCHANGED <<main, handler, cs, ending, signals, socket, cmd, port, hit, told, extra>>
      /\ t \in hit /\ Goto(t, "dead")
  BY DEF Cancelled
<1>3. /\ pc' \in [Threads -> Labels] /\ pc'[t] = "dead"
      /\ \A u \in Threads \ {t} : pc'[u] = pc[u]
  BY <1>1, <1>2, GotoType DEF Labels
<1>4. TypeOK'
  <2>1. cs' # Free => pc'[cs'] \in Exchanges \cup {"dead"}
    BY <1>1, <1>2, <1>3 DEF TypeOK
  <2>2. /\ cs' \in Threads \cup {Free} /\ cmd' \in Commands \cup {"junk"}
        /\ told' \in {"start", "stop"} /\ extra' \in Nat
    BY <1>1, <1>2 DEF TypeOK
  <2>3. fresh' \in BOOLEAN /\ check' \in BOOLEAN /\ enabled' \in BOOLEAN
    BY <1>1, <1>2 DEF TypeOK, port
  <2>4. UNCHANGED <<main, handler, ending, signals, socket, hit>>
    BY <1>2
  <2> QED
    BY <1>1, <1>3, <2>1, <2>2, <2>3, <2>4, ThreadType
<1>5. \A u \in Threads : pc'[u] = pc[u] \/ pc'[u] = "dead"
  BY <1>3
<1>6. pc'["net"] = pc["net"] \/ pc'["net"] = "dead"
  BY <1>5 DEF Threads
<1>7. LastCommand'
  BY <1>1, <1>2, <1>6 DEF LastCommand
<1>8. PortStopped'
  <2>1. pc'["port"] = pc["port"] \/ (pc'["port"] = "dead" /\ "port" \in hit)
    BY <1>2, <1>3 DEF Threads
  <2> QED
    BY <1>1, <1>2, <1>6, <2>1 DEF PortStopped
<1>9. pc[t] # "off"
  BY <1>1 DEF Cancelled, TypeOK, Exchanges, Free
<1>10. PortJoined'
  BY <1>1, <1>2, <1>3, <1>9 DEF PortJoined, Early, Threads
<1> QED
  BY <1>4, <1>7, <1>8, <1>10 DEF IInv

-----------------------------------------------------------------------------
LEMMA NextInv ==
  ASSUME IInv, [Next]_vars
  PROVE  IInv'
<1>1. CASE Main
  BY <1>1, MainInv
<1>2. CASE SigInt \/ Handler
  BY <1>2, HandlerInv
<1>3. ASSUME NEW t \in Threads, Enter(t) \/ Cancelled(t) PROVE IInv'
  BY <1>3, EnterInv, CancelledInv
<1>4. CASE Port
  BY <1>4, PortInv
<1>5. CASE Datagram \/ Net
  BY <1>5, NetInv
<1>6. CASE Nmea
  BY <1>6, NmeaInv
<1>7. CASE UNCHANGED vars
  <2>1. TypeOK /\ LastCommand /\ PortStopped /\ PortJoined
    BY DEF IInv
  <2>2. UNCHANGED <<main, handler, pc, cs, ending, signals, socket, cmd, port, hit, told, extra>>
    BY <1>7 DEF vars
  <2>3. TypeOK'
    <3>1. fresh' \in BOOLEAN /\ check' \in BOOLEAN /\ enabled' \in BOOLEAN
      BY <2>1, <2>2 DEF TypeOK, port
    <3>2. /\ pc' \in [Threads -> Labels] /\ cs' \in Threads \cup {Free}
          /\ cs' # Free => pc'[cs'] \in Exchanges \cup {"dead"}
          /\ cmd' \in Commands \cup {"junk"} /\ told' \in {"start", "stop"} /\ extra' \in Nat
      BY <2>1, <2>2 DEF TypeOK, Labels
    <3> QED
      BY <2>1, <2>2, <3>1, <3>2, ThreadType
  <2>4. LastCommand' /\ PortStopped' /\ PortJoined'
    BY <2>1, <2>2 DEF LastCommand, PortStopped, PortJoined, Early
  <2> QED
    BY <2>3, <2>4 DEF IInv
<1> QED
  BY <1>1, <1>2, <1>3, <1>4, <1>5, <1>6, <1>7 DEF Next

(* The invariant holds in every state of every run.                        *)
THEOREM Invariance == Spec => []IInv
<1>1. Init => IInv
  BY InitInv
<1>2. IInv /\ [Next]_vars => IInv'
  BY NextInv
<1> QED
  BY <1>1, <1>2, PTL DEF Spec

(* For every number of SIGINTs, the mutex of proto.c is with a thread in    *)
(* an exchange or with one cancelled in it.                                *)
THEOREM TypeCorrect == Spec => []TypeOK
<1>1. IInv => TypeOK
  BY DEF IInv
<1> QED
  BY <1>1, Invariance, PTL

(* However often SIGINT comes, and whatever its handler cancels, recvfrom  *)
(* on the socket it shut down has the network thread execute at most one   *)
(* command (mythreads.c, the two tests of b_end_threads).                  *)
THEOREM AtMostOnce == Spec => []OnceMore
<1>1. IInv => OnceMore
  BY DEF IInv, LastCommand, OnceMore
<1> QED
  BY <1>1, Invariance, PTL

(* However often SIGINT comes, the process does not end in order with the  *)
(* device started, unless its client's last command started it.            *)
THEOREM StoppedInOrder == Spec => []StoppedAtEnd
<1>1. IInv => StoppedAtEnd
  BY DEF IInv, PortStopped, PortJoined, StoppedAtEnd
<1> QED
  BY <1>1, Invariance, PTL

(* However often SIGINT comes and whatever it cancels: once all threads     *)
(* were created, data_port_close comes when all have ended (sender.c,      *)
(* mythreads.c: run_all_threads).                                          *)
THEOREM ClosedInQuiet == Spec => []QuietAtClose
<1>1. IInv => QuietAtClose
  BY DEF IInv, PortJoined, QuietAtClose, Threads
<1> QED
  BY <1>1, Invariance, PTL
=============================================================================
