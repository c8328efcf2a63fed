------------------------------ MODULE Exchange -------------------------------
(***************************************************************************)
(* What an exchange with the recorder promises the thread that asks for    *)
(* it, without line, bytes and lengths: one at a time; the recorder        *)
(* carries the command out once, or not at all; and the thread is not told *)
(* of a success without one, unless an earlier exchange has cost the       *)
(* answers their trust.                                                    *)
(***************************************************************************)
CONSTANTS
  Commands,  \* what a thread may ask for
  NoCommand

VARIABLES
  phase,    \* the exchange: "free", "waiting", "ok" or "failed"
  command,  \* its command
  carried,  \* the recorder carried the last command out
  dev,      \* is the device measuring
  trusted   \* no answer was left behind by an exchange yet

vars == <<phase, command, carried, dev, trusted>>

After(c, d) == CASE c = "start" -> "running" [] c = "stop" -> "stopped" [] OTHER -> d

Init ==
  /\ phase = "free" /\ command = NoCommand /\ carried = FALSE
  /\ dev \in {"stopped", "running"} /\ trusted = TRUE

Ask ==
  /\ phase = "free" /\ phase' = "waiting"
  /\ command' \in Commands /\ carried' \in BOOLEAN
  /\ dev' = IF carried' THEN After(command', dev) ELSE dev
  /\ UNCHANGED trusted

Succeed ==
  /\ phase = "waiting" /\ phase' = "ok"
  /\ carried \/ ~ trusted
  /\ trusted' \in {trusted, FALSE}
  /\ UNCHANGED <<command, carried, dev>>

Fail ==
  /\ phase = "waiting" /\ phase' = "failed"
  /\ trusted' \in {trusted, FALSE}
  /\ UNCHANGED <<command, carried, dev>>

Return ==
  /\ phase \in {"ok", "failed"} /\ phase' = "free"
  /\ command' = NoCommand
  /\ UNCHANGED <<carried, dev, trusted>>

Next == Ask \/ Succeed \/ Fail \/ Return

Spec == Init /\ [][Next]_vars
=============================================================================
