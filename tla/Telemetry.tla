----------------------------- MODULE Telemetry -----------------------------
(***************************************************************************)
(* Time and status: the NMEA thread G writes gpsd's reports into rtc_data, *)
(* the port thread P takes each new time to the device, asks for its       *)
(* status, puts the drift into the header of the data files and starts a   *)
(* device that is set up, and the network thread N hands the status to the *)
(* client and makes a header for a START (nmea.c:67-137,                   *)
(* mythreads.c:187-221, :485-489, log.c:241-345).  Nothing is locked: a    *)
(* step is one access to rtc_data, status or adc_hdr.                      *)
(*                                                                         *)
(* What StatusGet makes of an answer damaged on the line is computed from  *)
(* its bytes (Frames).                                                     *)
(***************************************************************************)
EXTENDS Frames, FiniteSets

CONSTANTS
  LongFlips,   \* bound: bits changed in a whole status
  ShortFlips,  \* bound: bits changed in a short one
  MaxReports,  \* bound: reports of gpsd
  MaxStatus,   \* bound: statuses stored
  MaxRequests  \* bound: commands of the client

ASSUME BoundsAssumption ==
  /\ LongFlips \in Nat /\ ShortFlips \in Nat
  /\ MaxReports \in Nat /\ MaxStatus \in Nat /\ MaxRequests \in Nat

VARIABLES
  pc,        \* where each thread is
  rtc_data,  \* nmea.c: what gpsd last reported
  gps,       \* G: the report it writes, numbered
  rtc, t1,   \* P: its copy of rtc_data, and the time it noticed last
  left,      \* what a thread's memcpy has not copied yet
  str,       \* P: the answer StatusGet has checked
  status,    \* which answer each part of status is of
  adc_hdr,   \* which answer each half of the header's drift is of
  reg,       \* the drift a thread has loaded from status
  check,     \* P has started the device
  wr_buf,    \* N: which answer each part of its answer is of
  set,       \* the device is set up
  got,       \* history: the answers that passed for a status
  sent,      \* history: the time TimeSync took to the device last
  whole,     \* history: the last report completely in rtc_data
  floor,     \* history: that report, when P's copy began
  requests,  \* history: commands of the client
  mixed      \* history: which copies another thread's writes met

port == <<rtc, t1, str, check>>
nmea == <<rtc_data, gps, whole>>
vars == <<pc, nmea, port, left, status, adc_hdr, reg, wr_buf, set, got, sent, floor, requests, mixed>>

Threads == {"port", "net", "nmea"}
Fields == {"time", "lat", "lon", "check"}
Parts  == {"head", "drift"}       \* of a status: st_main, and drift

DriftSteps == {"drift_lo", "set lo", "drift_hi", "set hi"}

At(t, l) == pc[t] = l
Goto(t, l) == pc' = [pc EXCEPT ![t] = l]

(* A report as the fields of rtc_data; without a fix there is no position. *)
AsRtc(r) == [time |-> r.time, lat |-> IF r.fix THEN r.n ELSE 0,
             lon |-> IF r.fix THEN r.n ELSE 0, check |-> r.fix]

NoReport == [n |-> 0, time |-> 0, fix |-> FALSE]

-----------------------------------------------------------------------------
(* The answers to StatusGet.                                               *)

STATUS_DEV_SET == 8

(* The status of the device, in full or, when it has an error, short.      *)
Report == [s \in BOOLEAN |->
  add_crc16(<<(StatusSize - 4) % 256, (StatusSize - 4) \div 256,
              IF s THEN STATUS_DEV_SET ELSE 0>>
            \o [k \in 1 .. StatusSize - 5 |-> 1])]
ShortReport == [s \in BOOLEAN |-> add_crc16(<<1, 0, IF s THEN STATUS_DEV_SET ELSE 0>>)]

FlipBit(mes, p) ==
  [mes EXCEPT ![(p + 7) \div 8] = Xor(@, 2^((p - 1) % 8))]

(* Messages of len bytes with one bit changed.                             *)
FlipOne(messages, len) == {FlipBit(m, p) : m \in messages, p \in 1 .. 8 * len}

(* A message with up to n bits changed.                                    *)
Flips(mes, n) ==
  LET f[k \in 0 .. n] ==
        IF k = 0 THEN {mes} ELSE f[k - 1] \cup FlipOne(f[k - 1], Len(mes))
  IN  f[n]

(* A message behind n bytes that do not belong to it, as far as it is read.*)
Behind(mes, n, junk) == SubSeq([k \in 1 .. n |-> junk] \o mes, 1, Len(mes))

(* What StatusGet may read, and how it came about.                         *)
Line(s) ==
  {[read |-> Report[s], how |-> "whole"], [read |-> ShortReport[s], how |-> "short"]}
  \cup {[read |-> m, how |-> "flips"] :
          m \in Flips(Report[s], LongFlips) \cup Flips(ShortReport[s], ShortFlips)}
  \cup {[read |-> SubSeq(Report[s], 1, k), how |-> "cut"] : k \in 0 .. StatusSize - 1}
  \cup {[read |-> Behind(Report[s], n, j), how |-> "shift"] : n \in 1 .. 9, j \in {0, 255}}

(* What it makes of that: whether it is taken, whether as what was sent,   *)
(* by the patch or by its CRC, and whether the device then counts as set   *)
(* up.                                                                     *)
Outcome(s, a) ==
  LET r == read_any_data(a.read, StatusSize)
      zeros == [k \in 1 .. StatusSize - ShortSize |-> 0]
  IN  [ok |-> r.ok, how |-> a.how,
       right |-> r.buf \in {Report[s], ShortReport[s] \o zeros},
       patched |-> Len(a.read) = StatusSize /\ LengthAt(a.read, 0) # StatusSize,
       set |-> Bit(r.buf[3], 3) = 1]

Outcomes == [s \in BOOLEAN |-> {Outcome(s, a) : a \in Line(s)}]

(* Those it takes for a status.                                            *)
Accepted(s) == {[set |-> a.set, patched |-> a.patched] : a \in {o \in Outcomes[s] : o.ok}}

-----------------------------------------------------------------------------
Init ==
  /\ pc = [t \in Threads |-> IF t = "port" THEN "copy" ELSE "idle"]
  /\ rtc_data = AsRtc(NoReport) /\ gps = NoReport /\ whole = NoReport
  /\ rtc = AsRtc(NoReport) /\ t1 \in {-1, 0}    \* nobody sets it
  /\ left = [t \in Threads |-> IF t = "port" THEN Fields ELSE {}]
  /\ str = 0 /\ got = << >>
  /\ status = [p \in Parts |-> 0] /\ wr_buf = status
  /\ adc_hdr = [lo |-> 0, hi |-> 0] /\ reg = [t \in Threads |-> 0]
  /\ check = FALSE /\ set \in BOOLEAN
  /\ sent = -1
  /\ floor = NoReport /\ requests = 0
  /\ mixed = [rtc |-> FALSE, status |-> FALSE, drift |-> FALSE]

(* Somebody sets up the device.                                            *)
SetUp ==
  /\ ~ set /\ set' = TRUE
  /\ UNCHANGED <<pc, nmea, port, left, status, adc_hdr, reg, wr_buf, got, sent, floor, requests, mixed>>

-----------------------------------------------------------------------------
(* The NMEA thread.                                                        *)

(* gps_read brings a report: another in the same second, or a later one.   *)
(* A gps_read that fails changes nothing here.                             *)
GpsRead ==
  /\ At("nmea", "idle") /\ gps.n < MaxReports
  /\ \E later \in {0, 1}, fix \in BOOLEAN :
       gps' = [n |-> gps.n + 1, time |-> gps.time + later, fix |-> fix]
  /\ Goto("nmea", "time")
  /\ UNCHANGED <<rtc_data, whole, port, left, status, adc_hdr, reg, wr_buf, set, got, sent, floor, requests, mixed>>

NextField == [time |-> "lat", lat |-> "lon", lon |-> "check", check |-> "idle"]

(* Has P begun to copy rtc_data, and not ended?                            *)
Copying == At("port", "copy") /\ left["port"] # Fields

(* Bug: without a fix, only the flag is changed.                           *)
BugWriteField ==
  \E f \in Fields :
    /\ At("nmea", f) /\ Goto("nmea", NextField[f])
    /\ rtc_data' = IF f \in {"lat", "lon"} /\ ~ gps.fix THEN rtc_data
                   ELSE [rtc_data EXCEPT ![f] = AsRtc(gps)[f]]
    /\ whole' = IF f = "check" THEN gps ELSE whole
    /\ mixed' = [mixed EXCEPT !.rtc = @ \/ Copying]
    /\ UNCHANGED <<gps, port, left, status, adc_hdr, reg, wr_buf, set, got, sent, floor, requests>>

(* The fields of rtc_data, one by one.                                     *)
WriteField ==
  \E f \in Fields :
    /\ At("nmea", f) /\ Goto("nmea", NextField[f])
    /\ rtc_data' = [rtc_data EXCEPT ![f] = AsRtc(gps)[f]]
    /\ whole' = IF f = "check" THEN gps ELSE whole
    /\ mixed' = [mixed EXCEPT !.rtc = @ \/ Copying]
    /\ UNCHANGED <<gps, port, left, status, adc_hdr, reg, wr_buf, set, got, sent, floor, requests>>

Nmea == GpsRead \/ WriteField

-----------------------------------------------------------------------------
(* The port thread.                                                        *)

(* Bug: the size of a pointer is copied.                                   *)
BugGetParam ==
  /\ At("port", "copy") /\ left["port"] # {}
  /\ \E f \in left["port"] :
       /\ rtc' = IF f \in {"time", "lat"} THEN [rtc EXCEPT ![f] = rtc_data[f]] ELSE rtc
       /\ left' = [left EXCEPT !["port"] = @ \ {f}]
       /\ IF left'["port"] = {} THEN Goto("port", "test") ELSE UNCHANGED pc
  /\ IF Copying
       THEN UNCHANGED <<floor, mixed>>
       ELSE floor' = whole /\ mixed' = [mixed EXCEPT !.rtc = ~ At("nmea", "idle")]
  /\ UNCHANGED <<nmea, t1, str, status, adc_hdr, reg, check, wr_buf, set, got, sent, requests>>

(* nmea_get_param: memcpy takes the fields in whatever order.              *)
GetParam ==
  /\ At("port", "copy") /\ left["port"] # {}
  /\ \E f \in left["port"] :
       /\ rtc' = [rtc EXCEPT ![f] = rtc_data[f]]
       /\ left' = [left EXCEPT !["port"] = @ \ {f}]
       /\ IF left'["port"] = {} THEN Goto("port", "test") ELSE UNCHANGED pc
  /\ IF Copying
       THEN UNCHANGED <<floor, mixed>>
       ELSE floor' = whole /\ mixed' = [mixed EXCEPT !.rtc = ~ At("nmea", "idle")]
  /\ UNCHANGED <<nmea, t1, str, status, adc_hdr, reg, check, wr_buf, set, got, sent, requests>>

(* Bug: the time is not remembered.                                        *)
BugSync ==
  /\ At("port", "test")
  /\ IF rtc.time # t1 THEN sent' = rtc.time /\ Goto("port", "status")
                      ELSE UNCHANGED sent /\ Goto("port", "data")
  /\ UNCHANGED <<nmea, port, left, status, adc_hdr, reg, wr_buf, set, got, floor, requests, mixed>>

(* A new time: TimeSync, whose outcome nobody looks at.                    *)
Sync ==
  /\ At("port", "test")
  /\ IF rtc.time # t1
       THEN sent' = rtc.time /\ t1' = rtc.time /\ Goto("port", "status")
       ELSE UNCHANGED <<sent, t1>> /\ Goto("port", "data")
  /\ UNCHANGED <<nmea, rtc, str, check, left, status, adc_hdr, reg, wr_buf, set, got, floor, requests, mixed>>

(* Bug: P does not look at what StatusGet returns.                         *)
BugStatusGet ==
  /\ At("port", "status")
  /\ \/ /\ Len(got) < MaxStatus
        /\ \E a \in Accepted(set) : got' = Append(got, a)
     \/ UNCHANGED got
  /\ str' = Len(got) + 1
  /\ Goto("port", "store") /\ left' = [left EXCEPT !["port"] = Parts]
  /\ UNCHANGED <<nmea, rtc, t1, check, status, adc_hdr, reg, wr_buf, set, sent, floor, requests, mixed>>

(* StatusGet: the answer is checked in a buffer of its own.                *)
StatusGet ==
  /\ At("port", "status")
  /\ \/ /\ Len(got) < MaxStatus
        /\ \E a \in Accepted(set) : got' = Append(got, a)
        /\ str' = Len(got) + 1
        /\ Goto("port", "store") /\ left' = [left EXCEPT !["port"] = Parts]
     \/ Goto("port", "data") /\ UNCHANGED <<got, str, left>>
  /\ UNCHANGED <<nmea, rtc, t1, check, status, adc_hdr, reg, wr_buf, set, sent, floor, requests, mixed>>

(* memcpy(st, str, ...), met by whatever N does with status.               *)
StoreStatus ==
  /\ At("port", "store")
  /\ \E p \in left["port"] :
       /\ status' = [status EXCEPT ![p] = str]
       /\ left' = [left EXCEPT !["port"] = @ \ {p}]
       /\ mixed' = [mixed EXCEPT !.status = @ \/ At("net", "copy"),
                                 !.drift = IF p = "drift" THEN pc["net"] \in DriftSteps ELSE @]
  /\ IF left'["port"] = {} THEN Goto("port", "drift_lo") ELSE UNCHANGED pc
  /\ UNCHANGED <<nmea, port, adc_hdr, reg, wr_buf, set, got, sent, floor, requests>>

(* Bug: any status starts the device.                                      *)
BugDecide ==
  /\ At("port", "decide")
  /\ IF ~ check
       THEN check' = TRUE /\ \E l \in {"drift_lo", "data"} : Goto("port", l)
       ELSE UNCHANGED check /\ Goto("port", "data")
  /\ UNCHANGED <<nmea, rtc, t1, str, left, status, adc_hdr, reg, wr_buf, set, got, sent, floor, requests, mixed>>

(* "Set up - we start!", once; the start makes the header again, if it     *)
(* gets that far.                                                          *)
Decide ==
  /\ At("port", "decide")
  /\ IF ~ check /\ got[status["head"]].set
       THEN check' = TRUE /\ \E l \in {"drift_lo", "data"} : Goto("port", l)
       ELSE UNCHANGED check /\ Goto("port", "data")
  /\ UNCHANGED <<nmea, rtc, t1, str, left, status, adc_hdr, reg, wr_buf, set, got, sent, floor, requests, mixed>>

(* The inner loop, and round again.                                        *)
Data ==
  /\ At("port", "data")
  /\ Goto("port", "copy") /\ left' = [left EXCEPT !["port"] = Fields]
  /\ UNCHANGED <<nmea, port, status, adc_hdr, reg, wr_buf, set, got, sent, floor, requests, mixed>>

-----------------------------------------------------------------------------
(* log_change_adc_header in P, log_create_adc_header in N (for a START     *)
(* that gets that far) and in P: the drift goes into the header by halves. *)

LoadDrift(t) ==
  /\ pc[t] \in {"drift_lo", "drift_hi"}
  /\ reg' = [reg EXCEPT ![t] = status["drift"]]
  /\ Goto(t, IF pc[t] = "drift_lo" THEN "set lo" ELSE "set hi")
  /\ UNCHANGED <<nmea, port, left, status, adc_hdr, wr_buf, set, got, sent, floor, requests, mixed>>

(* Bug: of the drift only the low half is changed.                         *)
BugSetDrift(t) ==
  /\ pc[t] \in {"set lo", "set hi"}
  /\ IF pc[t] = "set lo"
       THEN adc_hdr' = [adc_hdr EXCEPT !.lo = reg[t]] /\ Goto(t, "drift_hi")
       ELSE UNCHANGED adc_hdr /\ Goto(t, IF t = "port" THEN "decide" ELSE "idle")
  /\ UNCHANGED <<nmea, port, left, status, reg, wr_buf, set, got, sent, floor, requests, mixed>>

SetDrift(t) ==
  /\ pc[t] \in {"set lo", "set hi"}
  /\ IF pc[t] = "set lo"
       THEN adc_hdr' = [adc_hdr EXCEPT !.lo = reg[t]] /\ Goto(t, "drift_hi")
       ELSE /\ adc_hdr' = [adc_hdr EXCEPT !.hi = reg[t]]
            /\ Goto(t, IF t = "port" THEN "decide" ELSE "idle")
  /\ UNCHANGED <<nmea, port, left, status, reg, wr_buf, set, got, sent, floor, requests, mixed>>

Port ==
  \/ GetParam \/ Sync \/ StatusGet \/ StoreStatus \/ Decide \/ Data
  \/ LoadDrift("port") \/ SetDrift("port")

-----------------------------------------------------------------------------
(* The network thread.                                                     *)

(* A START, as far as it concerns the header.                              *)
Start ==
  /\ At("net", "idle") /\ requests < MaxRequests /\ requests' = requests + 1
  /\ Goto("net", "drift_lo")
  /\ UNCHANGED <<nmea, port, left, status, adc_hdr, reg, wr_buf, set, got, sent, floor, mixed>>

(* The client asks for the status; other answers begin with it too.        *)
Request ==
  /\ At("net", "idle") /\ requests < MaxRequests /\ requests' = requests + 1
  /\ Goto("net", "copy")
  /\ left' = [left EXCEPT !["net"] = Parts]
  /\ mixed' = [mixed EXCEPT !.status = At("port", "store")]
  /\ UNCHANGED <<nmea, port, status, adc_hdr, reg, wr_buf, set, got, sent, floor>>

(* Bug: the drift is left out.                                             *)
BugCopyStatus ==
  /\ At("net", "copy")
  /\ \E p \in left["net"] :
       /\ wr_buf' = [wr_buf EXCEPT !["head"] = status["head"]]
       /\ left' = [left EXCEPT !["net"] = @ \ {p}]
  /\ IF left'["net"] = {} THEN Goto("net", "answer") ELSE UNCHANGED pc
  /\ UNCHANGED <<nmea, port, status, adc_hdr, reg, set, got, sent, floor, requests, mixed>>

(* memcpy(wr_buf, &status, ...)                                            *)
CopyStatus ==
  /\ At("net", "copy")
  /\ \E p \in left["net"] :
       /\ wr_buf' = [wr_buf EXCEPT ![p] = status[p]]
       /\ left' = [left EXCEPT !["net"] = @ \ {p}]
  /\ IF left'["net"] = {} THEN Goto("net", "answer") ELSE UNCHANGED pc
  /\ UNCHANGED <<nmea, port, status, adc_hdr, reg, set, got, sent, floor, requests, mixed>>

SendTo ==
  /\ At("net", "answer")
  /\ Goto("net", "idle")
  /\ UNCHANGED <<nmea, port, left, status, adc_hdr, reg, wr_buf, set, got, sent, floor, requests, mixed>>

Net == Start \/ Request \/ CopyStatus \/ SendTo \/ LoadDrift("net") \/ SetDrift("net")

Next == SetUp \/ Nmea \/ Port \/ Net

Spec == Init /\ [][Next]_vars

(* Bound of the run: many reports, or a status and a client; the ones meet *)
(* P in rtc_data, the others in status and adc_hdr.                        *)
Bounded == (gps.n <= 1 /\ ~ mixed.rtc) \/ (requests = 0 /\ got = << >>)

-----------------------------------------------------------------------------

Answers == 0 .. Len(got)
Rtc == [time : Nat, lat : Nat, lon : Nat, check : BOOLEAN]
Reports == [n : 0 .. MaxReports, time : Nat, fix : BOOLEAN]

(* Type correctness.                                                       *)
TypeOK ==
  /\ pc \in [Threads -> {"idle", "copy", "test", "status", "store", "decide", "data",
                         "drift_lo", "set lo", "drift_hi", "set hi", "answer"} \cup Fields]
  /\ rtc_data \in Rtc /\ rtc \in Rtc
  /\ gps \in Reports /\ whole \in Reports /\ floor \in Reports
  /\ t1 \in Int /\ sent \in Int /\ str \in Answers
  /\ left \in [Threads -> SUBSET (Fields \cup Parts)]
  /\ status \in [Parts -> Answers] /\ wr_buf \in [Parts -> Answers]
  /\ adc_hdr \in [lo : Answers, hi : Answers] /\ reg \in [Threads -> Answers]
  /\ got \in Seq([set : BOOLEAN, patched : BOOLEAN]) /\ Len(got) <= MaxStatus
  /\ check \in BOOLEAN /\ set \in BOOLEAN
  /\ requests \in 0 .. MaxRequests
  /\ mixed \in [rtc : BOOLEAN, status : BOOLEAN, drift : BOOLEAN]

(* However G's writes meet P's copy, and whatever t1 was at first: TimeSync *)
(* takes no second to the device twice, and none after a later one.        *)
TimesInOrder ==
  [][pc["port"] = "test" /\ pc'["port"] = "status" => rtc.time > sent]_vars

(* What goes to the device is one report, unless G wrote while P copied.   *)
OneReport == At("port", "test") /\ ~ mixed.rtc => rtc = AsRtc(floor)

(* Even if it did: neither the time nor a position is older than the last  *)
(* report that was complete when the copy began, be that one without a fix.*)
NoOldReport ==
  At("port", "test") =>
    /\ rtc.time >= floor.time
    /\ rtc.lat # 0 => rtc.lat >= floor.n
    /\ rtc.lon # 0 => rtc.lon >= floor.n

(* The table-driven CRC is the remainder by the polynomial of its comment  *)
(* (utils.c:54, Poly), for every entry of the table and for the statuses   *)
(* StatusGet may read with a bit changed: begun with 0 and the highest bit *)
(* first, as the code does it and its comment does not (CheckValue).       *)
CrcRight ==
  \A m \in {<<b, 0, 0>> : b \in Byte} \cup Flips(Report[TRUE], 1) : Crc(m) = Remainder(m)
CrcIsRemainder == At("port", "status") => CrcRight

(* "Detects single, double, triple errors" (utils.c:59): whatever happens  *)
(* on the line, what StatusGet takes is what the device sent, or came by   *)
(* the patch.                                                              *)
DamageDetected ==
  At("port", "status") =>
    \A a \in Outcomes[set] :
      /\ a.ok => a.right \/ a.patched
      /\ a.how \in {"whole", "short"} => a.ok /\ a.right

(* The patch finds a status behind up to nine bytes that are not of it:    *)
(* what is read of the device is then right.                               *)
ShiftRepaired ==
  At("port", "status") => \A a \in Outcomes[set] : a.how = "shift" => a.ok /\ a.set = set

(* A device that is not set up is not started by itself, whatever damage   *)
(* its statuses took, unless the patch let one pass.                       *)
StartJustified == check => set \/ \E i \in 1 .. Len(got) : got[i].patched

(* The client gets one status, not parts of two, unless P stores another   *)
(* while it is copied.                                                     *)
ServedWhole ==
  At("net", "answer") /\ ~ mixed.status => wr_buf["head"] = wr_buf["drift"]

(* When a minute may be written, its header holds the drift of the last    *)
(* status, in both halves, unless N was making a header as it was stored.  *)
DriftOfLastStatus ==
  At("port", "data") /\ ~ mixed.drift =>
    adc_hdr.lo = status["drift"] /\ adc_hdr.hi = status["drift"]

(* "Init: 0xFFFF, Revert: true, Check: 0x4B37 ("123456789")"               *)
(* (utils.c:55-58): what add_crc16 puts behind those nine characters.      *)
CheckValue ==
  At("port", "status") => Crc([k \in 1 .. 9 |-> 48 + k] \o <<0, 0>>) = \h4B37
=============================================================================
