----------------------------- MODULE Lifecycle ------------------------------
(***************************************************************************)
(* The life of the process: main opens the log and the port, creates the   *)
(* network, the NMEA and the port thread, joins them in that order and     *)
(* closes the port and the log (sender.c, run_all_threads); SIGINT runs    *)
(* halt_all_threads in main; the three loops end, or not.                  *)
(*                                                                         *)
(* What the threads do is reduced to where they wait: for the mutex cs of  *)
(* the serial line, for a datagram, for each other's end.  A thread whose  *)
(* label is a command waits for cs, or is in its exchange if cs names it.  *)
(***************************************************************************)
EXTENDS Integers

CONSTANTS
  Outcomes,   \* what pthread_cancel may do to an id nobody set (start.c:26)
  MaxSignals  \* bound: SIGINTs

Threads == {"net", "nmea", "port"}

ASSUME OutcomeAssumption == Outcomes \subseteq Threads \cup {"none", "crash"}
ASSUME SignalAssumption == MaxSignals \in Nat

VARIABLES
  main,     \* what main does next
  handler,  \* where sig_handler is, which runs in main
  pc,       \* what each thread does next
  cs,       \* the mutex: the thread in an exchange, or Free
  ending,   \* b_end_threads
  signals,  \* SIGINTs so far
  sock,     \* the socket: "none", "open" or "closed"
  shut,     \* it was shut down for reading
  cmd,      \* the command in rd_buf
  fresh,    \* rtc_data.time differs from the port thread's t1
  check,    \* the port thread has started the device once
  enabled,  \* the port thread's cancel state
  hit,      \* the threads that were cancelled
  told,     \* history: what the device was last told, to start or to stop
  extra     \* history: commands of the network thread since SIGINT

socket == <<sock, shut>>
port   == <<fresh, check, enabled>>
vars == <<main, handler, pc, cs, ending, signals, socket, cmd, port, hit, told, extra>>

Free      == "free"
Commands  == {"local", "other", "start", "stop"}
Exchanges == {"sync", "status", "data", "start", "stop", "other"}

Alive == main \notin {"exited", "crashed"}

Goto(t, label) == pc' = [pc EXCEPT ![t] = label]

Init ==
  /\ main = "log" /\ handler = "idle" /\ signals = 0 /\ ending = FALSE
  /\ pc = [t \in Threads |-> "off"] /\ cs = Free
  /\ sock = "none" /\ shut = FALSE /\ cmd = "junk"
  /\ fresh \in BOOLEAN /\ check = FALSE /\ enabled = TRUE
  /\ hit = {} /\ told = "stop" /\ extra = 0

-----------------------------------------------------------------------------
(* main                                                                    *)

Rest == <<handler, cs, ending, signals, cmd, port, hit, told, extra>>

(* If the log or the port cannot be opened (or, of the port, set up, or    *)
(* its mutex created), the program is over.                                *)
OpenLog ==
  /\ main = "log" /\ main' \in {"port", "exited"}
  /\ UNCHANGED <<pc, socket, Rest>>

OpenPort ==
  /\ main = "port" /\ main' \in {"status", "exited"}
  /\ UNCHANGED <<pc, socket, Rest>>

(* Its own StatusGet and cb_init: either may fail.                         *)
Prepare ==
  /\ main \in {"status", "ring"}
  /\ main' \in {IF main = "status" THEN "ring" ELSE "socket", "close"}
  /\ UNCHANGED <<pc, socket, Rest>>

OpenNet ==
  /\ main = "socket"
  /\ \/ main' = "create net" /\ sock' = "open" /\ shut' = FALSE
     \/ main' = "close" /\ UNCHANGED socket
  /\ UNCHANGED <<pc, Rest>>

(* A thread that cannot be created: those before it are not joined.        *)
Create(t, label, next) ==
  /\ main = label
  /\ \/ main' = next /\ Goto(t, IF t = "nmea" THEN "open" ELSE "test")
     \/ main' = "close" /\ UNCHANGED pc
  /\ UNCHANGED <<socket, Rest>>

(* Bug: the port thread is not waited for.                                 *)
BugJoin(t, label, next) ==
  /\ main = label /\ (pc[t] = "dead" \/ t = "port") /\ main' = next
  /\ UNCHANGED <<pc, socket, Rest>>

Join(t, label, next) ==
  /\ main = label /\ pc[t] = "dead" /\ main' = next
  /\ UNCHANGED <<pc, socket, Rest>>

(* data_port_close: the line is closed and cs destroyed.                    *)
ClosePort ==
  /\ main = "close" /\ main' = "close log"
  /\ UNCHANGED <<pc, socket, Rest>>

Exit ==
  /\ main = "close log" /\ main' = "exited"
  /\ UNCHANGED <<pc, socket, Rest>>

Main ==
  /\ Alive /\ handler = "idle"
  /\ \/ OpenLog \/ OpenPort \/ Prepare \/ OpenNet \/ ClosePort \/ Exit
     \/ Create("net", "create net", "create nmea")
     \/ Create("nmea", "create nmea", "create port")
     \/ Create("port", "create port", "join net")
     \/ Join("net", "join net", "join nmea")
     \/ Join("nmea", "join nmea", "join port")
     \/ Join("port", "join port", "close")

-----------------------------------------------------------------------------
(* sig_handler and halt_all_threads, in main, where SIGINT is blocked       *)
(* meanwhile; one that another thread would then take is left out.         *)

SigInt ==
  /\ Alive /\ handler = "idle" /\ signals < MaxSignals
  /\ handler' = "flag" /\ signals' = signals + 1
  /\ UNCHANGED <<main, pc, cs, ending, socket, cmd, port, hit, told, extra>>

Flag ==
  /\ handler = "flag" /\ handler' = "shutdown"
  /\ ending' = TRUE
  /\ UNCHANGED <<main, pc, cs, signals, socket, cmd, port, hit, told, extra>>

(* Bug: the socket is closed without a shutdown.                           *)
BugShutdown ==
  /\ handler = "shutdown" /\ handler' = "close"
  /\ UNCHANGED <<main, pc, cs, ending, signals, socket, cmd, port, hit, told, extra>>

Shutdown ==
  /\ handler = "shutdown" /\ handler' = "close"
  /\ shut' = (shut \/ sock = "open")
  /\ UNCHANGED <<main, pc, cs, ending, signals, sock, cmd, port, hit, told, extra>>

Close ==
  /\ handler = "close" /\ handler' = "cancel"
  /\ sock' = IF sock = "open" THEN "closed" ELSE sock
  /\ UNCHANGED <<main, pc, cs, ending, signals, shut, cmd, port, hit, told, extra>>

(* pthread_cancel of a variable that get_read_port_thread_id did not set:  *)
(* no such thread, a fault, or one of the threads there are.               *)
CancelCall ==
  /\ handler = "cancel" /\ handler' = "idle"
  /\ \/ "none" \in Outcomes /\ UNCHANGED <<main, hit>>
     \/ "crash" \in Outcomes /\ main' = "crashed" /\ UNCHANGED hit
     \/ \E t \in Threads \cap Outcomes :
          pc[t] # "off" /\ hit' = hit \cup {t} /\ UNCHANGED main
  /\ UNCHANGED <<pc, cs, ending, signals, socket, cmd, port, told, extra>>

Handler == Alive /\ (Flag \/ Shutdown \/ Close \/ CancelCall)

(* Where a cancelled thread may end: the mutex stays with it.              *)
Cancelled(t) ==
  /\ Alive /\ t \in hit
  /\ \/ t = "port" /\ enabled /\ (cs = t \/ pc[t] \in {"test", "record"})
     \/ t = "net" /\ (cs = t \/ pc[t] \in {"call", "blocked", "run"})
     \/ t = "nmea" /\ pc[t] \in {"open", "wait"}
  /\ Goto(t, "dead")
  /\ UNCHANGED <<main, handler, cs, ending, signals, socket, cmd, port, hit, told, extra>>

-----------------------------------------------------------------------------
(* The mutex.                                                              *)

Enter(t) ==
  /\ Alive /\ pc[t] \in Exchanges /\ cs = Free
  /\ cs' = t
  /\ UNCHANGED <<main, handler, pc, ending, signals, socket, cmd, port, hit, told, extra>>

(* Bug: the mutex is not given back.                                       *)
BugLeave(t, c) ==
  /\ cs = t /\ pc[t] = c /\ UNCHANGED cs
  /\ told' = IF c \in {"start", "stop"} THEN c ELSE told

(* The end of an exchange: what the device was told.                       *)
Leave(t, c) ==
  /\ cs = t /\ pc[t] = c /\ cs' = Free
  /\ told' = IF c \in {"start", "stop"} THEN c ELSE told

-----------------------------------------------------------------------------
(* The port thread.                                                        *)

Others == <<main, handler, ending, signals, socket, cmd, hit, extra>>

(* To DataGet, with cancellation disabled.                                 *)
ToData == Goto("port", "data") /\ enabled' = FALSE

PortTest ==
  /\ pc["port"] = "test"
  /\ \/ ending /\ Goto("port", "stop") /\ UNCHANGED port
     \/ ~ ending /\ fresh /\ Goto("port", "sync") /\ fresh' = FALSE /\ UNCHANGED <<check, enabled>>
     \/ ~ ending /\ ~ fresh /\ ToData /\ UNCHANGED <<fresh, check>>
  /\ UNCHANGED <<Others, cs, told>>

TimeSync ==
  /\ Leave("port", "sync")
  /\ Goto("port", "status") /\ enabled' = FALSE
  /\ UNCHANGED <<Others, fresh, check>>

(* The first status that says the device is set up leads to start_all_dev, *)
(* which may be refused before the exchange, with cancellation enabled.    *)
StatusGet ==
  /\ Leave("port", "status")
  /\ \/ ToData /\ UNCHANGED check
     \/ ~ check /\ check' = TRUE /\ ToData
     \/ ~ check /\ check' = TRUE /\ Goto("port", "start") /\ enabled' = TRUE
  /\ UNCHANGED <<Others, fresh>>

StartDevice ==
  /\ Leave("port", "start") /\ ToData
  /\ UNCHANGED <<Others, fresh, check>>

(* A packet for the buffers and the ring; without buffers it ends the      *)
(* inner loop, too (NoPacket).                                             *)
Packet ==
  /\ Leave("port", "data")
  /\ Goto("port", "record") /\ enabled' = TRUE
  /\ UNCHANGED <<Others, fresh, check>>

Record ==
  /\ pc["port"] = "record" /\ ToData
  /\ UNCHANGED <<Others, fresh, check, cs, told>>

(* Bug: the inner loop goes on.                                            *)
BugNoPacket ==
  /\ Leave("port", "data")
  /\ UNCHANGED <<Others, port, pc>>

NoPacket ==
  /\ Leave("port", "data")
  /\ Goto("port", "test") /\ enabled' = TRUE
  /\ UNCHANGED <<Others, fresh, check>>

StopDevice ==
  /\ Leave("port", "stop") /\ Goto("port", "dead")
  /\ UNCHANGED <<Others, port>>

Port ==
  /\ Alive
  /\ \/ PortTest \/ TimeSync \/ StatusGet \/ StartDevice
     \/ Packet \/ Record \/ NoPacket \/ StopDevice

-----------------------------------------------------------------------------
(* The network thread.                                                     *)

Outside == <<main, handler, ending, signals, socket, port, hit>>

(* Bug: the loop does not end.                                             *)
BugNetTest ==
  /\ pc["net"] = "test"
  /\ Goto("net", "call")
  /\ UNCHANGED <<Outside, cs, cmd, told, extra>>

NetTest ==
  /\ pc["net"] = "test"
  /\ Goto("net", IF ending THEN "dead" ELSE "call")
  /\ UNCHANGED <<Outside, cs, cmd, told, extra>>

(* recvfrom of a closed descriptor fails and ends the loop.                *)
Call ==
  /\ pc["net"] = "call"
  /\ Goto("net", IF sock = "closed" THEN "dead" ELSE "blocked")
  /\ UNCHANGED <<Outside, cs, cmd, told, extra>>

(* A datagram; one that is empty leaves rd_buf as it was.                  *)
Datagram ==
  /\ Alive /\ pc["net"] = "blocked"
  /\ cmd' \in Commands \cup {cmd} /\ Goto("net", "run")
  /\ UNCHANGED <<Outside, cs, told, extra>>

(* The shutdown makes recvfrom return 0, which is not an error.            *)
Woken ==
  /\ pc["net"] = "blocked" /\ shut
  /\ Goto("net", "run")
  /\ UNCHANGED <<Outside, cs, cmd, told, extra>>

(* The command in rd_buf, new or not; any, before the first datagram.      *)
(* "local" needs no exchange; nor does a start that is refused.            *)
Run ==
  /\ pc["net"] = "run"
  /\ \E c \in IF cmd = "junk" THEN Commands ELSE {cmd} :
       \E next \in IF c = "local" THEN {"test"} ELSE IF c = "start" THEN {"test", c} ELSE {c} :
         Goto("net", next)
  /\ extra' = IF ending THEN extra + 1 ELSE extra
  /\ UNCHANGED <<Outside, cs, cmd, told>>

Command ==
  /\ \E c \in {"other", "start", "stop"} : Leave("net", c)
  /\ Goto("net", "test")
  /\ UNCHANGED <<Outside, cmd, extra>>

Net == Alive /\ (NetTest \/ Call \/ Woken \/ Run \/ Command)

-----------------------------------------------------------------------------
(* The NMEA thread.                                                        *)

Nmea ==
  /\ Alive
  /\ \/ pc["nmea"] = "open" /\ UNCHANGED fresh
        /\ \E next \in {"wait", "dead"} : Goto("nmea", next)
     \/ pc["nmea"] = "wait" /\ ending /\ Goto("nmea", "dead") /\ UNCHANGED fresh
     \/ pc["nmea"] = "wait" /\ ~ ending /\ fresh' \in {fresh, TRUE} /\ UNCHANGED pc
  /\ UNCHANGED <<Others, check, enabled, cs, told>>

Next ==
  \/ Main \/ SigInt \/ Handler
  \/ \E t \in Threads : Enter(t) \/ Cancelled(t)
  \/ Port \/ Datagram \/ Net \/ Nmea

(* Threads are scheduled.  The port thread gets the mutex again and again, *)
(* since the network thread gives it back before it waits for a datagram;  *)
(* and now and then there is no packet: the line is faster than the ADC.   *)
Fairness ==
  /\ WF_vars(Main) /\ WF_vars(Handler)
  /\ WF_vars(Port) /\ SF_vars(Enter("port")) /\ SF_vars(Alive /\ NoPacket)
  /\ WF_vars(Net) /\ WF_vars(Enter("net"))
  /\ WF_vars(Nmea)

Spec == Init /\ [][Next]_vars /\ Fairness

-----------------------------------------------------------------------------
(* Type correctness; the mutex is with a thread in an exchange, or with    *)
(* one that was cancelled in it (proto.c, between Enter- and Leave-).      *)
TypeOK ==
  /\ main \in {"log", "port", "status", "ring", "socket", "create net", "create nmea",
               "create port", "join net", "join nmea", "join port", "close", "close log",
               "exited", "crashed"}
  /\ handler \in {"idle", "flag", "shutdown", "close", "cancel"}
  /\ pc \in [Threads -> Exchanges \cup {"off", "test", "record", "call", "blocked",
                                         "run", "open", "wait", "dead"}]
  /\ cs \in Threads \cup {Free}
  /\ cs # Free => pc[cs] \in Exchanges \cup {"dead"}
  /\ ending \in BOOLEAN /\ signals \in 0 .. MaxSignals
  /\ sock \in {"none", "open", "closed"} /\ shut \in BOOLEAN
  /\ cmd \in Commands \cup {"junk"}
  /\ fresh \in BOOLEAN /\ check \in BOOLEAN /\ enabled \in BOOLEAN
  /\ hit \subseteq Threads /\ told \in {"start", "stop"} /\ extra \in Nat

(* The shutdown of the socket makes the network thread execute the last    *)
(* command again, or one nobody sent; but that happens once.               *)
OnceMore == extra <= 1

(* When the process ends in order, the device was told to stop after the   *)
(* last packet was taken, and can have been told to start again only if    *)
(* that is the command in the network thread's buffer.                     *)
StoppedAtEnd ==
  main = "exited" /\ pc["port"] # "off" /\ "port" \notin hit =>
    told = "stop" \/ cmd \in {"start", "junk"}

(* The line is closed and its mutex destroyed under nobody's hands, unless *)
(* the threads were never all created: then those there are still run      *)
(* (mythreads.c:411-423), and only then.                                   *)
QuietAtClose ==
  main \in {"close log", "exited"} /\ pc["port"] # "off" => \A t \in Threads : pc[t] = "dead"

(* The mutex of a cancelled thread.                                        *)
Abandoned == cs # Free /\ pc[cs] = "dead"

(* SIGINT ends the process, whatever the threads are doing and whatever    *)
(* was cancelled, unless a cancelled thread took the mutex with it.        *)
Ends == ending ~> ~ Alive \/ Abandoned

(* As long as the program is not told to end, TimeSync has its exchange    *)
(* sooner or later after a new time came, however busy packets and client  *)
(* keep the line.  Whether the device hears it is SerialPort's matter.     *)
KeepsTime ==
  fresh /\ pc["port"] # "off" ~> (cs = "port" /\ pc["port"] = "sync") \/ ending
=============================================================================
