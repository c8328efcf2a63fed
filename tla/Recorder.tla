------------------------------ MODULE Recorder ------------------------------
(***************************************************************************)
(* Recording to disk: the port thread fills one of two minute buffers, the *)
(* SIGUSR1 handler writes the other to the data file, and the network      *)
(* thread starts and stops the device meanwhile (mythreads.c:81-342 and    *)
(* the data file of log.c).  The two threads share everything here and     *)
(* lock nothing; a step is one access to what they share, unless a comment *)
(* says why more can be taken together.                                    *)
(*                                                                         *)
(* raise(SIGUSR1) runs the handler in the port thread.  An exchange on the *)
(* serial line holds the mutex of proto.c, hence one step.                 *)
(***************************************************************************)
EXTENDS Integers, Sequences, FiniteSets

CONSTANTS
  Rates,           \* packets per minute, freq * 60 / NUM_ADS1282_PACK, of the
                   \* frequencies StartDevice accepts
  Refused,         \* those of others a client may ask for: 0 for a frequency of
                   \* 0 or 1, negative for one that does not fit an int
  MinutesPerFile,  \* 240
  AutoStart,       \* the device is set up: the port thread starts it
  Commands,        \* what the network client sends: "start", "stop"
  Faults,          \* what may fail: "lost" (a command), "ack" (its answer),
                   \* "stale" (an earlier answer is read for it: SerialPort),
                   \* "dir" (mkdir), "alloc" (calloc), "open" (the data file),
                   \* "write" (to it: nothing or a part is written)
  MaxPack,         \* bound: packets recorded
  MaxCommands      \* bound: commands of the client

ASSUME RatesAssumption ==
  Rates \subseteq Nat \ {0} /\ Rates # {} /\ Refused \subseteq Int
ASSUME MinutesAssumption == MinutesPerFile \in Nat \ {0}
ASSUME BoundsAssumption == MaxPack \in Nat /\ MaxCommands \in Nat
ASSUME SwitchAssumption ==
  AutoStart \in BOOLEAN /\ Commands \subseteq {"start", "stop"}

VARIABLES
  pc,        \* where each thread is
  rate,      \* START_ADC_STRUCT of the start each thread carries out
  local,     \* the port thread's and its handler's variables
  dc,        \* data_count_struct
  ping, pong, heap,     \* the minute buffers and what calloc has handed out
  adc_fd, open, files,  \* the data file, the open ones, all there are
  dirOk,     \* dir_name is a directory that exists
  dev,       \* is the device sending packets
  sigusr1,   \* disposition of SIGUSR1
  check,     \* the port thread has started the device once
  alive,     \* the process runs
  undef,     \* history: a buffer was accessed out of bounds or after free
  lastPack,  \* history: packets the port thread took in
  lostFile,  \* history: a data file could not be opened
  damaged,   \* history: the data files a write to which failed
  commands   \* history: commands executed

counters == <<dc>>
buffers  == <<ping, pong, heap>>
file     == <<adc_fd, open, files>>
device   == <<dev, sigusr1>>
process  == <<alive, undef>>
hist     == <<lastPack, lostFile, damaged, commands>>
vars == <<pc, rate, local, dc, buffers, file, dirOk, device, check, process, hist>>

Threads == {"port", "net"}
Pong == 0              \* PONG_FLAG
Ping == 1              \* PING_FLAG
Null == 0
NoFile == -1
Blank == 0             \* a packet as calloc left it
Junk == -1             \* a packet read from where there is none
Header == -2           \* a minute header in a data file
Part == -3             \* what a short write left of a header or a packet

Init ==
  /\ pc = [t \in Threads |-> IF t = "port" THEN "outer" ELSE "idle"]
  /\ rate = [t \in Threads |-> 0]
  /\ local = [flag |-> Pong, ptr |-> Null, count |-> 0, i |-> 0, pack |-> Blank]
  /\ dc = [sig_num_count |-> 0, num_pack |-> 0, pack_in_min |-> 0, flag |-> Pong]
  /\ ping = Null /\ pong = Null /\ heap = << >>
  /\ adc_fd = NoFile /\ open = {} /\ files = << >>
  /\ dirOk = FALSE
  /\ dev \in {"stopped", "running"} /\ sigusr1 = "default"
  /\ check = FALSE
  /\ alive = TRUE /\ undef = FALSE
  /\ lastPack = 0 /\ lostFile = FALSE /\ damaged = {} /\ commands = 0

At(t, l) == alive /\ pc[t] = l
Goto(t, l) == pc' = [pc EXCEPT ![t] = l]
Return(t) == Goto(t, IF t = "port" THEN "get" ELSE "idle")

-----------------------------------------------------------------------------
(* prepare_start_dev, called by either thread.                             *)

StartWith(t, r) ==
  /\ rate' = [rate EXCEPT ![t] = r]
  /\ Goto(t, "dir")
  /\ UNCHANGED <<local, dc, buffers, file, dirOk, device, process,
                 lastPack, lostFile, damaged>>

(* The client's START, with a frequency of its choice: nobody looks at it  *)
(* before StartDevice does.                                                *)
NetStart ==
  /\ At("net", "idle") /\ "start" \in Commands
  /\ commands < MaxCommands /\ commands' = commands + 1
  /\ \E r \in Rates \cup Refused : StartWith("net", r)
  /\ UNCHANGED check

(* start_all_dev, at the first status that says the device is set up.      *)
PortStart ==
  /\ At("port", "outer") /\ AutoStart /\ ~ check
  /\ check' = TRUE
  /\ \E r \in Rates : StartWith("port", r)
  /\ UNCHANGED commands

CallStart(t) == (t = "net" /\ NetStart) \/ (t = "port" /\ PortStart)

(* log_create_work_dir names the directory before it tries to create it.   *)
WorkDir(t) ==
  /\ At(t, "dir")
  /\ \/ dirOk' = TRUE /\ Goto(t, "params")
     \/ "dir" \in Faults /\ dirOk' = FALSE /\ Return(t)
  /\ UNCHANGED <<rate, local, dc, buffers, file, device, check, process, hist>>

(* The counters of the minute are changed before the mempool is checked.   *)
Params(t) ==
  /\ At(t, "params")
  /\ dc' = [dc EXCEPT !.num_pack = 0, !.pack_in_min = rate[t]]
  /\ Goto(t, "mempool")
  /\ UNCHANGED <<rate, local, buffers, file, dirOk, device, check, process, hist>>

(* Bug: the buffers of a recording under way are not noticed.              *)
BugMempool(t) ==
  /\ At(t, "mempool")
  /\ Goto(t, "alloc")
  /\ UNCHANGED <<rate, local, dc, buffers, file, dirOk, device, check, process, hist>>

Mempool(t) ==
  /\ At(t, "mempool")
  /\ IF ping # Null \/ pong # Null THEN Return(t) ELSE Goto(t, "alloc")
  /\ UNCHANGED <<rate, local, dc, buffers, file, dirOk, device, check, process, hist>>

(* Two callocs, one step: nobody uses one buffer without the other.  Of 0  *)
(* packets calloc makes an empty block; a negative number is more than it  *)
(* has.                                                                    *)
Alloc(t) ==
  /\ At(t, "alloc")
  /\ LET block == [live |-> TRUE,
                   data |-> [k \in 1 .. dc.pack_in_min |-> Blank]]
         n == Len(heap)
     IN \/ /\ dc.pack_in_min >= 0
           /\ heap' = heap \o <<block, block>>
           /\ ping' = n + 1 /\ pong' = n + 2
           /\ Goto(t, "close")
        \/ /\ "alloc" \in Faults /\ dc.pack_in_min >= 0
           /\ heap' = Append(heap, block)
           /\ \/ ping' = n + 1 /\ pong' = Null
              \/ ping' = Null /\ pong' = n + 1
           /\ Return(t)
        \/ /\ "alloc" \in Faults \/ dc.pack_in_min < 0
           /\ ping' = Null /\ pong' = Null /\ UNCHANGED heap
           /\ Return(t)
  /\ UNCHANGED <<rate, local, dc, file, dirOk, device, check, process, hist>>

(* close(adc_fd) succeeds once for each file.  Reading adc_fd and closing  *)
(* it is one step: a close the other thread slips in between makes it fail *)
(* as one before both does.                                                *)
TryClose(closed, not) ==
  IF adc_fd \in open
    THEN open' = open \ {adc_fd} /\ closed
    ELSE UNCHANGED open /\ not

(* log_close_data_file                                                     *)
Close(t) ==
  /\ At(t, "close")
  /\ TryClose(Goto(t, "reset"), Goto(t, "device"))
  /\ UNCHANGED <<rate, local, dc, buffers, adc_fd, files, dirOk, device, check, process, hist>>

Reset(t) ==
  /\ At(t, "reset")
  /\ adc_fd' = NoFile
  /\ Goto(t, "device")
  /\ UNCHANGED <<rate, local, dc, buffers, open, files, dirOk, device, check, process, hist>>

(* log_create_adc_header and StartDevice: a frequency other than five is   *)
(* refused only here.  Whether the device got the command, and whether its *)
(* answer arrived, are two questions.                                      *)
StartDevice(t) ==
  /\ At(t, "device")
  /\ \/ rate[t] \in Refused /\ UNCHANGED dev /\ Return(t)
     \/ /\ rate[t] \in Rates
        /\ \/ dev' = "running" /\ Goto(t, "signal")
           \/ "ack" \in Faults /\ dev' = "running" /\ Return(t)
           \/ "lost" \in Faults /\ UNCHANGED dev /\ Return(t)
           \/ "stale" \in Faults /\ UNCHANGED dev /\ Goto(t, "signal")
  /\ UNCHANGED <<rate, local, dc, buffers, file, dirOk, sigusr1, check, process, hist>>

Signal(t) ==
  /\ At(t, "signal")
  /\ sigusr1' = "handler"
  /\ Goto(t, "zero")
  /\ UNCHANGED <<rate, local, dc, buffers, file, dirOk, dev, check, process, hist>>

Zero(t) ==
  /\ At(t, "zero")
  /\ dc' = [dc EXCEPT !.sig_num_count = 0]
  /\ Return(t)
  /\ UNCHANGED <<rate, local, buffers, file, dirOk, device, check, process, hist>>

PrepareStart(t) ==
  \/ CallStart(t) \/ WorkDir(t) \/ Params(t) \/ Mempool(t) \/ Alloc(t)
  \/ Close(t) \/ Reset(t) \/ StartDevice(t) \/ Signal(t) \/ Zero(t)

-----------------------------------------------------------------------------
(* prepare_stop_dev, called by the network thread.                         *)

(* StopDevice: unless the device answers, nothing else is done.            *)
CallStop ==
  /\ At("net", "idle") /\ "stop" \in Commands
  /\ commands < MaxCommands /\ commands' = commands + 1
  /\ \/ dev' = "stopped" /\ Goto("net", "stop close")
     \/ "ack" \in Faults /\ dev' = "stopped" /\ UNCHANGED pc
     \/ "lost" \in Faults /\ UNCHANGED <<dev, pc>>
     \/ "stale" \in Faults /\ UNCHANGED dev /\ Goto("net", "stop close")
  /\ UNCHANGED <<rate, local, dc, buffers, file, dirOk, sigusr1, check, process,
                 lastPack, lostFile, damaged>>

StopClose ==
  /\ At("net", "stop close")
  /\ TryClose(Goto("net", "stop reset"), Goto("net", "free"))
  /\ UNCHANGED <<rate, local, dc, buffers, adc_fd, files, dirOk, device, check, process, hist>>

StopReset ==
  /\ At("net", "stop reset")
  /\ adc_fd' = NoFile
  /\ Goto("net", "free")
  /\ UNCHANGED <<rate, local, dc, buffers, open, files, dirOk, device, check, process, hist>>

(* Both buffers in one step: between a check and the next, the port thread *)
(* uses only one of them.                                                  *)
Free ==
  /\ At("net", "free")
  /\ heap' = [b \in 1 .. Len(heap) |->
                IF b \in {ping, pong} THEN [heap[b] EXCEPT !.live = FALSE]
                                      ELSE heap[b]]
  /\ ping' = Null /\ pong' = Null
  /\ Goto("net", "memset")
  /\ UNCHANGED <<rate, local, dc, file, dirOk, device, check, process, hist>>

Memset ==
  /\ At("net", "memset")
  /\ dc' = [sig_num_count |-> 0, num_pack |-> 0, pack_in_min |-> 0, flag |-> Pong]
  /\ Goto("net", "ignore")
  /\ UNCHANGED <<rate, local, buffers, file, dirOk, device, check, process, hist>>

Ignore ==
  /\ At("net", "ignore")
  /\ sigusr1' = "ignore"
  /\ Goto("net", "idle")
  /\ UNCHANGED <<rate, local, dc, buffers, file, dirOk, dev, check, process, hist>>

PrepareStop ==
  CallStop \/ StopClose \/ StopReset \/ Free \/ Memset \/ Ignore

-----------------------------------------------------------------------------
(* The port thread.                                                        *)

(* Round the outer loop, with nothing to start.                            *)
Poll ==
  /\ At("port", "outer")
  /\ Goto("port", "get")
  /\ UNCHANGED <<rate, local, dc, buffers, file, dirOk, device, check, process, hist>>

(* DataGet: no packet, or no valid one, ends the inner loop.               *)
Get ==
  /\ At("port", "get")
  /\ \/ /\ dev = "running" \/ "stale" \in Faults
        /\ lastPack < MaxPack /\ Goto("port", "check")
     \/ Goto("port", "outer")
  /\ UNCHANGED <<rate, local, dc, buffers, file, dirOk, device, check, process, hist>>

(* Bug: only one of the two buffers is looked at.                          *)
BugCheckBuffers ==
  /\ At("port", "check")
  /\ IF ping # Null
       THEN lastPack' = lastPack + 1 /\ Goto("port", "flag")
       ELSE UNCHANGED lastPack /\ Goto("port", "outer")
  /\ UNCHANGED <<rate, local, dc, buffers, file, dirOk, device, check, process,
                 lostFile, damaged, commands>>

(* Both pointers in one step: they are set and reset in the order they are *)
(* read.                                                                   *)
CheckBuffers ==
  /\ At("port", "check")
  /\ IF ping # Null /\ pong # Null
       THEN lastPack' = lastPack + 1 /\ Goto("port", "flag")
       ELSE UNCHANGED lastPack /\ Goto("port", "outer")
  /\ UNCHANGED <<rate, local, dc, buffers, file, dirOk, device, check, process,
                 lostFile, damaged, commands>>

LoadFlag ==
  /\ At("port", "flag")
  /\ local' = [local EXCEPT !.flag = dc.flag]
  /\ Goto("port", "select")
  /\ UNCHANGED <<rate, dc, buffers, file, dirOk, device, check, process, hist>>

(* Bug: the buffer the handler is to write is filled.                      *)
BugSelect ==
  /\ At("port", "select")
  /\ local' = [local EXCEPT !.ptr = IF local.flag = Pong THEN ping ELSE pong]
  /\ Goto("port", "store")
  /\ UNCHANGED <<rate, dc, buffers, file, dirOk, device, check, process, hist>>

(* The flag says which buffer is being filled.                             *)
Select ==
  /\ At("port", "select")
  /\ local' = [local EXCEPT !.ptr = IF local.flag = Pong THEN pong ELSE ping]
  /\ Goto("port", "store")
  /\ UNCHANGED <<rate, dc, buffers, file, dirOk, device, check, process, hist>>

(* Is there a k-th packet (from 0) at the pointer the thread holds?        *)
Mapped(k) ==
  /\ local.ptr # Null
  /\ heap[local.ptr].live
  /\ k < Len(heap[local.ptr].data)

(* An access where there is none: NULL kills the process, freed or foreign *)
(* memory may.                                                             *)
Stray ==
  /\ undef' = TRUE
  /\ alive' \in IF local.ptr = Null THEN {FALSE} ELSE BOOLEAN

(* memcpy into ping or pong                                                *)
Store ==
  /\ At("port", "store")
  /\ IF Mapped(dc.sig_num_count)
       THEN /\ heap' = [heap EXCEPT ![local.ptr].data[dc.sig_num_count + 1] = lastPack]
            /\ UNCHANGED process
       ELSE Stray /\ UNCHANGED heap
  /\ Goto("port", "load")
  /\ UNCHANGED <<rate, local, dc, ping, pong, file, dirOk, device, check, hist>>

(* sig_num_count++                                                         *)
LoadCount ==
  /\ At("port", "load")
  /\ local' = [local EXCEPT !.count = dc.sig_num_count]
  /\ Goto("port", "inc")
  /\ UNCHANGED <<rate, dc, buffers, file, dirOk, device, check, process, hist>>

StoreCount ==
  /\ At("port", "inc")
  /\ dc' = [dc EXCEPT !.sig_num_count = local.count + 1]
  /\ Goto("port", "minute")
  /\ UNCHANGED <<rate, local, buffers, file, dirOk, device, check, process, hist>>

(* Bug: the flag is counted up instead of inverted.                        *)
BugMinute ==
  /\ At("port", "minute")
  /\ IF dc.sig_num_count >= dc.pack_in_min
       THEN dc' = [dc EXCEPT !.flag = dc.flag + 1] /\ Goto("port", "raise")
       ELSE UNCHANGED dc /\ Goto("port", "get")
  /\ UNCHANGED <<rate, local, buffers, file, dirOk, device, check, process, hist>>

(* A whole minute: change buffers.  cb_write, which follows in any case,   *)
(* is RingThreads.tla's.  Test and change are one step: loads that meet a  *)
(* store of the other thread half way decide as they would before it or    *)
(* after it.                                                               *)
Minute ==
  /\ At("port", "minute")
  /\ IF dc.sig_num_count >= dc.pack_in_min
       THEN dc' = [dc EXCEPT !.flag = 1 - dc.flag] /\ Goto("port", "raise")
       ELSE UNCHANGED dc /\ Goto("port", "get")
  /\ UNCHANGED <<rate, local, buffers, file, dirOk, device, check, process, hist>>

(* raise(SIGUSR1): by default the signal ends the process.                 *)
Raise ==
  /\ At("port", "raise")
  /\ alive' = (sigusr1 # "default")
  /\ Goto("port", IF sigusr1 = "handler" THEN "handler" ELSE "clear")
  /\ UNCHANGED <<rate, local, dc, buffers, file, dirOk, device, check, undef, hist>>

ClearCount ==
  /\ At("port", "clear")
  /\ dc' = [dc EXCEPT !.sig_num_count = 0]
  /\ Goto("port", "get")
  /\ UNCHANGED <<rate, local, buffers, file, dirOk, device, check, process, hist>>

Receive ==
  \/ Poll \/ Get \/ CheckBuffers \/ LoadFlag \/ Select \/ Store
  \/ LoadCount \/ StoreCount \/ Minute \/ Raise \/ ClearCount

-----------------------------------------------------------------------------
(* sig_write_data_handler                                                  *)

HandlerFlag ==
  /\ At("port", "handler")
  /\ local' = [local EXCEPT !.flag = dc.flag]
  /\ Goto("port", "begin")
  /\ UNCHANGED <<rate, dc, buffers, file, dirOk, device, check, process, hist>>

(* Bug: the handler takes the buffer that is about to be filled.           *)
BugBegin ==
  /\ At("port", "begin")
  /\ local' = [local EXCEPT !.ptr = IF local.flag = Ping THEN ping ELSE pong,
                            !.i = 0]
  /\ Goto("port", "read")
  /\ UNCHANGED <<rate, dc, buffers, file, dirOk, device, check, process, hist>>

(* "If ping is being written, take pong."                                  *)
Begin ==
  /\ At("port", "begin")
  /\ local' = [local EXCEPT !.ptr = IF local.flag = Ping THEN pong ELSE ping,
                            !.i = 0]
  /\ Goto("port", "read")
  /\ UNCHANGED <<rate, dc, buffers, file, dirOk, device, check, process, hist>>

(* The loop reads pack_in_min every time.                                  *)
Read ==
  /\ At("port", "read") /\ local.i < dc.pack_in_min
  /\ IF Mapped(local.i)
       THEN /\ local' = [local EXCEPT !.pack = heap[local.ptr].data[local.i + 1]]
            /\ UNCHANGED process
       ELSE local' = [local EXCEPT !.pack = Junk] /\ Stray
  /\ Goto("port", IF local.i = 0 THEN "rotate" ELSE "write")
  /\ UNCHANGED <<rate, dc, buffers, file, dirOk, device, check, hist>>

(* Bug: the old file is left open.                                         *)
BugRotate ==
  /\ At("port", "rotate")
  /\ Goto("port", IF dc.num_pack % MinutesPerFile # 0 THEN "header" ELSE "open")
  /\ UNCHANGED <<rate, local, dc, buffers, file, dirOk, device, check, process, hist>>

(* Bug: a file is closed a minute late.                                    *)
BugPeriod ==
  /\ At("port", "rotate")
  /\ IF dc.num_pack % (MinutesPerFile + 1) # 0
       THEN UNCHANGED open /\ Goto("port", "header")
       ELSE IF adc_fd = NoFile
              THEN UNCHANGED open /\ Goto("port", "open")
              ELSE TryClose(Goto("port", "open"), Goto("port", "header"))
  /\ UNCHANGED <<rate, local, dc, buffers, adc_fd, files, dirOk, device, check, process, hist>>

(* Every MinutesPerFile minutes a new file; if the old one cannot be       *)
(* closed, none.                                                           *)
Rotate ==
  /\ At("port", "rotate")
  /\ IF dc.num_pack % MinutesPerFile # 0
       THEN UNCHANGED open /\ Goto("port", "header")
       ELSE IF adc_fd = NoFile
              THEN UNCHANGED open /\ Goto("port", "open")
              ELSE TryClose(Goto("port", "open"), Goto("port", "header"))
  /\ UNCHANGED <<rate, local, dc, buffers, adc_fd, files, dirOk, device, check, process, hist>>

(* open() in the directory dir_name names.                                 *)
Open ==
  /\ At("port", "open")
  /\ \/ /\ dirOk
        /\ files' = Append(files, << >>)
        /\ adc_fd' = Len(files) + 1
        /\ open' = open \cup {Len(files) + 1}
        /\ UNCHANGED lostFile
     \/ /\ ~ dirOk \/ "open" \in Faults
        /\ adc_fd' = NoFile /\ lostFile' = TRUE
        /\ UNCHANGED <<open, files>>
  /\ Goto("port", "header")
  /\ UNCHANGED <<rate, local, dc, buffers, dirOk, device, check, process,
                 lastPack, damaged, commands>>

(* write(adc_fd, ...): nothing happens unless adc_fd is open, and on a     *)
(* full or failing disk nothing or only a part.  The handler looks at none *)
(* of the results.                                                         *)
WriteFile(x) ==
  IF adc_fd \in open
    THEN \/ /\ files' = [files EXCEPT ![adc_fd] = Append(@, x)]
            /\ UNCHANGED damaged
         \/ /\ "write" \in Faults
            /\ damaged' = damaged \cup {adc_fd}
            /\ \/ UNCHANGED files
               \/ files' = [files EXCEPT ![adc_fd] = Append(@, Part)]
    ELSE UNCHANGED <<files, damaged>>

(* Bug: the header is left out at the start of the recording.              *)
BugWriteHeader ==
  /\ At("port", "header")
  /\ IF dc.num_pack = 0 THEN UNCHANGED <<files, damaged>> ELSE WriteFile(Header)
  /\ Goto("port", "write")
  /\ UNCHANGED <<rate, local, dc, buffers, adc_fd, open, dirOk, device, check, process,
                 lastPack, lostFile, commands>>

WriteHeader ==
  /\ At("port", "header")
  /\ WriteFile(Header)
  /\ Goto("port", "write")
  /\ UNCHANGED <<rate, local, dc, buffers, adc_fd, open, dirOk, device, check, process,
                 lastPack, lostFile, commands>>

WriteData ==
  /\ At("port", "write")
  /\ WriteFile(local.pack)
  /\ local' = [local EXCEPT !.i = @ + 1]
  /\ Goto("port", "read")
  /\ UNCHANGED <<rate, dc, buffers, adc_fd, open, dirOk, device, check, process,
                 lastPack, lostFile, commands>>

(* num_pack++ after the loop                                               *)
LoadMinutes ==
  /\ At("port", "read") /\ local.i >= dc.pack_in_min
  /\ local' = [local EXCEPT !.count = dc.num_pack]
  /\ Goto("port", "minutes")
  /\ UNCHANGED <<rate, dc, buffers, file, dirOk, device, check, process, hist>>

(* Bug: the minutes are not counted.                                       *)
BugStoreMinutes ==
  /\ At("port", "minutes")
  /\ Goto("port", "restore")
  /\ UNCHANGED <<rate, local, dc, buffers, file, dirOk, device, check, process, hist>>

StoreMinutes ==
  /\ At("port", "minutes")
  /\ dc' = [dc EXCEPT !.num_pack = local.count + 1]
  /\ Goto("port", "restore")
  /\ UNCHANGED <<rate, local, buffers, file, dirOk, device, check, process, hist>>

(* "Restore ourselves": whatever SIGUSR1 was set to meanwhile.             *)
Restore ==
  /\ At("port", "restore")
  /\ sigusr1' = "handler"
  /\ Goto("port", "clear")
  /\ UNCHANGED <<rate, local, dc, buffers, file, dirOk, dev, check, process, hist>>

Handler ==
  \/ HandlerFlag \/ Begin \/ Read \/ Rotate \/ Open \/ WriteHeader \/ WriteData
  \/ LoadMinutes \/ StoreMinutes \/ Restore

Next == (\E t \in Threads : PrepareStart(t)) \/ PrepareStop \/ Receive \/ Handler

Spec == Init /\ [][Next]_vars

(* Refused of the run: no packet a minute, and a frequency beyond an int.  *)
NoneOrNegative == {0, -1}

(* Bound of the run: a long recording is looked at without the client, and *)
(* with it shorter ones: of three commands, or one if the port thread      *)
(* starts the device too.  Behind a write that failed a file is filled and *)
(* the next begun.                                                         *)
Bounded ==
  /\ \/ commands = 0
     \/ lastPack <= 3 /\ \A t \in Threads : rate[t] <= 2
  /\ check => commands <= 1
  /\ damaged # {} => commands + (IF check THEN 1 ELSE 0) <= 1 /\ lastPack <= 4

-----------------------------------------------------------------------------

Labels == {"outer", "idle", "dir", "params", "mempool", "alloc", "close", "reset",
           "device", "signal", "zero",
           "stop close", "stop reset", "free", "memset", "ignore",
           "get", "check", "flag", "select", "store", "load", "inc", "minute",
           "raise", "clear",
           "handler", "begin", "read", "rotate", "open", "header", "write",
           "minutes", "restore"}

Counters == [sig_num_count : Nat, num_pack : Nat, pack_in_min : Int,
             flag : {Pong, Ping}]
Packets  == 1 .. MaxPack
Contents == {Blank, Junk} \cup Packets
Entries  == Contents \cup {Header, Part}

(* Type correctness.                                                       *)
TypeOK ==
  /\ pc \in [Threads -> Labels]
  /\ rate \in [Threads -> Rates \cup Refused \cup {0}]
  /\ local \in [flag : {Pong, Ping}, ptr : 0 .. Len(heap), count : Nat, i : Nat,
                pack : Contents]
  /\ dc \in Counters
  /\ heap \in Seq([live : BOOLEAN, data : Seq(Contents)])
  /\ ping \in 0 .. Len(heap) /\ pong \in 0 .. Len(heap)
  /\ files \in Seq(Seq(Entries))
  /\ adc_fd \in {NoFile} \cup 1 .. Len(files)
  /\ open \subseteq 1 .. Len(files)
  /\ dev \in {"stopped", "running"}
  /\ sigusr1 \in {"default", "handler", "ignore"}
  /\ dirOk \in BOOLEAN /\ check \in BOOLEAN /\ alive \in BOOLEAN /\ undef \in BOOLEAN
  /\ lastPack \in 0 .. MaxPack /\ lostFile \in BOOLEAN
  /\ damaged \subseteq 1 .. Len(files)
  /\ commands \in 0 .. MaxCommands

(* A data file of m minutes of n packets each, behind the first packets.    *)
FileOf(first, m, n) ==
  [p \in 1 .. m * (n + 1) |->
     LET k == (p - 1) \div (n + 1)
         j == (p - 1) % (n + 1)
     IN  IF j = 0 THEN Header ELSE first + k * n + j]

(* Once recording is under way and nobody but the port thread started it:  *)
(* whenever the thread is back for the next packet, every complete minute  *)
(* is in the files, MinutesPerFile of them in each but the last, each      *)
(* behind its header, in order, with nothing missing, repeated or left     *)
(* from an earlier minute, unless a data file could not be opened.  A file *)
(* a write failed in is begun and ended with the same minutes, and takes   *)
(* nothing from the files before and after it.                             *)
MinutesRecorded ==
  At("port", "get") /\ commands = 0 /\ ~ lostFile /\ dc.pack_in_min # 0 =>
    LET n == dc.pack_in_min
        m == lastPack \div n
        before(f) == (f - 1) * MinutesPerFile
        last == Len(files)
    IN  /\ before(last) < m /\ m <= before(last + 1)
        /\ \A f \in (1 .. last) \ damaged :
             files[f] = FileOf(before(f) * n,
                               IF f < last THEN MinutesPerFile ELSE m - before(f), n)

(* A minute in a file: its header and its packets, numbered one by one.    *)
IsMinute(f, k, n) ==
  /\ f[k] = Header
  /\ \A j \in 1 .. n : f[k + j] = f[k + 1] + j - 1

(* Whatever files could not be opened, and whatever writes failed in other *)
(* files: a file holds whole minutes, each with its header, and            *)
(* MinutesPerFile of them unless it is the one being written.              *)
FileLayout ==
  At("port", "get") /\ commands = 0 =>
    \A f \in (1 .. Len(files)) \ damaged :
      LET n == dc.pack_in_min
          m == Len(files[f]) \div (n + 1)
      IN  /\ Len(files[f]) = m * (n + 1)
          /\ m \in 1 .. MinutesPerFile
          /\ f \notin open => m = MinutesPerFile
          /\ \A k \in 0 .. m - 1 : IsMinute(files[f], k * (n + 1) + 1, n)

(* However starts and stops interleave with the handler: the only data     *)
(* file that is open is the one adc_fd names, so no descriptor is lost.    *)
NoStrayFile == open \subseteq {adc_fd}

(* However starts and stops interleave with the handler: every data file   *)
(* begins with a minute header, unless a write to that file failed.        *)
HeaderFirst ==
  \A f \in (1 .. Len(files)) \ damaged :
    files[f] # << >> => files[f][1] = Header

(* While only one of the two threads starts and stops, every buffer calloc *)
(* handed out and nobody freed is ping or pong: nothing leaks, also when   *)
(* one of the two callocs fails and later starts find what it left.        *)
NoLeak ==
  ~ check \/ commands = 0 =>
    \A b \in 1 .. Len(heap) : heap[b].live => b \in {ping, pong}

(* How often a thread was asked to start or to stop.                       *)
Calls == commands + (IF check THEN 1 ELSE 0)

(* A start, be it refused, and a stop set num_pack to 0, also between the  *)
(* handler's look at it and its num_pack++ (mythreads.c:338): the file     *)
(* then goes on beyond MinutesPerFile.  However often and whenever that    *)
(* happens, each start or stop prolongs a file by less than another file.  *)
Headers(f) == {k \in 1 .. Len(files[f]) : files[f][k] = Header}

FileBounded ==
  \A f \in 1 .. Len(files) :
    Cardinality(Headers(f)) <= 1 + Calls * (MinutesPerFile - 1)

(* One start at most, and none for less than a packet a minute: calloc     *)
(* then hands out empty blocks, and the port thread writes behind them     *)
(* (StoresInside).                                                         *)
NoneEmpty == \A b \in 1 .. Len(heap) : Len(heap[b].data) > 0
OneStart == Calls <= 1 /\ NoneEmpty

(* What makes the process touch a packet outside the buffers is a second   *)
(* start or a stop, or a frequency of 0 or 1: any other start by itself is *)
(* safe, whatever fails in it, also when StartDevice refuses its frequency *)
(* behind the callocs, and however it interleaves with packets that        *)
(* already arrive.                                                         *)
OneStartIsSafe == OneStart => ~ undef

(* A start of either thread clears sig_num_count when packets may already  *)
(* arrive (mythreads.c:131).  That may drop packets, as a write that fails *)
(* does, but as long as it is the only one, what is recorded are packets   *)
(* that came, each once, in the order they came.                           *)
Recorded(f) == {k \in 1 .. Len(files[f]) : files[f][k] \notin {Header, Part}}

OneStartKeepsOrder ==
  OneStart =>
    \A f, g \in 1 .. Len(files) : \A k \in Recorded(f), l \in Recorded(g) :
      /\ files[f][k] \in Packets
      /\ f < g \/ (f = g /\ k < l) => files[f][k] < files[g][l]

(* "create the signal that will say the data are ready" (mythreads.c:130): *)
(* when the port thread raises SIGUSR1, the handler is there to write the  *)
(* minute.                                                                 *)
RaiseHandled == At("port", "raise") => sigusr1 = "handler"

(* "Write into ping or pong" (mythreads.c:240): the packet goes into a     *)
(* buffer that is there.                                                   *)
StoresIntoBuffer == At("port", "store") => local.ptr # Null /\ heap[local.ptr].live

(* "Compute the size of the buffer for one minute" (mythreads.c:116),      *)
(* "write into ping or pong" (mythreads.c:240): a packet goes inside the   *)
(* buffer its minute is collected in.  It does not behind a START at 0 or  *)
(* 1, nor, with Refused empty, behind one at a higher frequency than that  *)
(* of the recording under way: both are refused after line 103.            *)
StoresInside ==
  At("port", "store") /\ local.ptr # Null =>
    dc.sig_num_count < Len(heap[local.ptr].data)
=============================================================================
