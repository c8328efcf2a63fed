-------------------------- MODULE Telemetry_proofs --------------------------
(***************************************************************************)
(* Proofs about Telemetry, for statuses of any length, any damage on the   *)
(* line and any number of reports, statuses and requests.                  *)
(***************************************************************************)
EXTENDS Telemetry, Frames_proofs, SequenceTheorems, TLAPS

Labels == {"idle", "copy", "test", "status", "store", "decide", "data", "answer"}
          \cup DriftSteps \cup Fields

(* Times only grow, from gpsd's report to what the device was told.        *)
TimesGrow ==
  /\ sent <= rtc.time /\ rtc.time <= rtc_data.time /\ rtc_data.time <= gps.time
  /\ sent \in {-1, t1}

(* Nothing in r is older than the report.                                  *)
NotOlder(r, report) ==
  /\ r.time >= report.time
  /\ r.lat # 0 => r.lat >= report.n
  /\ r.lon # 0 => r.lon >= report.n

(* How far G has come with the report it writes.                           *)
Written ==
  /\ whole.n <= gps.n /\ whole.time <= gps.time
  /\ pc["nmea"] \in {"lat", "lon", "check"} => rtc_data.time = gps.time
  /\ pc["nmea"] \in {"lon", "check"} => rtc_data.lat = AsRtc(gps).lat
  /\ pc["nmea"] = "check" => rtc_data.lon = AsRtc(gps).lon
  /\ pc["nmea"] \in {"idle", "time"} => rtc_data = AsRtc(whole)
  /\ NotOlder(rtc_data, whole)

(* What P has copied when the fields todo are left, at each place in its   *)
(* memcpy.                                                                 *)
SoFar(todo) ==
  /\ "time" \notin todo => rtc.time >= floor.time
  /\ "lat" \notin todo => (rtc.lat # 0 => rtc.lat >= floor.n)
  /\ "lon" \notin todo => (rtc.lon # 0 => rtc.lon >= floor.n)
  /\ ~ mixed.rtc => \A f \in Fields \ todo : rtc[f] = AsRtc(floor)[f]

Copied ==
  /\ floor.n <= whole.n /\ floor.time <= whole.time
  /\ Copying => SoFar(left["port"]) /\ (~ mixed.rtc => rtc_data = AsRtc(floor))
  /\ pc["port"] = "test" => SoFar({})

(* status is of one answer except while P stores another, and what N has   *)
(* copied of it is that one.                                               *)
OneStatus ==
  /\ IF pc["port"] = "store"
       THEN \A p \in Parts \ left["port"] : status[p] = str
       ELSE status["head"] = status["drift"]
  /\ pc["net"] = "copy" /\ ~ mixed.status =>
       /\ status["head"] = status["drift"]
       /\ \A p \in Parts \ left["net"] : wr_buf[p] = status[p]
  /\ pc["net"] = "answer" /\ ~ mixed.status => wr_buf["head"] = wr_buf["drift"]

(* What is loaded of the drift, and stored, is that of status, unless N    *)
(* was between a load and a store as status was overwritten.               *)
OneDrift ==
  (pc["port"] = "store" => "drift" \notin left["port"]) /\ ~ mixed.drift =>
    /\ \A t \in {"net", "port"} : pc[t] \in {"set lo", "set hi"} => reg[t] = status["drift"]
    /\ pc["port"] \notin {"store", "drift_lo", "set lo"} => adc_hdr.lo = status["drift"]
    /\ pc["port"] \notin {"store", "drift_lo", "set lo", "drift_hi", "set hi"} =>
         adc_hdr.hi = status["drift"]

(* The statuses P took are those of a device set up, or came by the patch; *)
(* and it decides on one of them.                                          *)
Taken ==
  /\ \A i \in 1 .. Len(got) : got[i].set /\ ~ got[i].patched => set
  /\ pc["port"] = "store" => str \in 1 .. Len(got)
  /\ pc["port"] = "store" /\ "head" \notin left["port"] => status["head"] = str
  /\ pc["port"] \in {"drift_lo", "set lo", "drift_hi", "set hi", "decide"} =>
       status["head"] \in 1 .. Len(got)
  /\ check => set \/ \E i \in 1 .. Len(got) : got[i].patched

(* P and G are where their labels say.                                     *)
Places ==
  /\ pc["port"] \in {"copy", "test", "status", "store", "decide", "data"} \cup DriftSteps
  /\ pc["nmea"] \in {"idle"} \cup Fields
  /\ pc["port"] = "copy" => left["port"] \subseteq Fields /\ left["port"] # {}

-----------------------------------------------------------------------------
(* Type correctness.                                                       *)

LEMMA InitType == Init => TypeOK
<1> SUFFICES ASSUME Init PROVE TypeOK
  OBVIOUS
<1>1. NoReport \in Reports /\ AsRtc(NoReport) \in Rtc
  BY BoundsAssumption DEF NoReport, Reports, AsRtc, Rtc
<1>2. Len(got) = 0 /\ got \in Seq([set : BOOLEAN, patched : BOOLEAN]) /\ 0 \in Answers
  BY DEF Init, Answers
<1>3. /\ pc \in [Threads -> {"idle", "copy", "test", "status", "store", "decide", "data",
                            "drift_lo", "set lo", "drift_hi", "set hi", "answer"} \cup Fields]
      /\ left \in [Threads -> SUBSET (Fields \cup Parts)]
      /\ requests \in 0 .. MaxRequests
  BY BoundsAssumption DEF Init
<1>4. /\ status \in [Parts -> Answers] /\ wr_buf \in [Parts -> Answers]
      /\ adc_hdr \in [lo : Answers, hi : Answers] /\ reg \in [Threads -> Answers]
      /\ str \in Answers
  BY <1>2 DEF Init
<1>5. t1 \in Int /\ sent \in Int
  BY DEF Init
<1>8. check \in BOOLEAN /\ set \in BOOLEAN
  BY DEF Init
<1>9. mixed \in [rtc : BOOLEAN, status : BOOLEAN, drift : BOOLEAN]
  BY DEF Init
<1>6. /\ rtc_data \in Rtc /\ rtc \in Rtc
      /\ gps \in Reports /\ whole \in Reports /\ floor \in Reports
  BY <1>1 DEF Init
<1>7. Len(got) <= MaxStatus
  BY <1>2, BoundsAssumption
<1> QED
  BY <1>2, <1>3, <1>4, <1>5, <1>6, <1>7, <1>8, <1>9 DEF TypeOK

(* What a step of a thread makes of the labels.                            *)
LEMMA GotoType ==
  ASSUME TypeOK, NEW t \in Threads, NEW l \in Labels, Goto(t, l)
  PROVE  /\ pc' \in [Threads -> Labels]
         /\ pc'[t] = l /\ \A u \in Threads \ {t} : pc'[u] = pc[u]
  BY DEF TypeOK, Goto, Labels, DriftSteps

LEMMA AcceptedType ==
  \A s \in BOOLEAN : Accepted(s) \subseteq [set : BOOLEAN, patched : BOOLEAN]
<1> TAKE s \in BOOLEAN
<1>1. ASSUME NEW a \in Outcomes[s]
      PROVE  a.set \in BOOLEAN /\ a.patched \in BOOLEAN
  <2>1. PICK line \in Line(s) : a = Outcome(s, line)
    BY <1>1, Zenon DEF Outcomes
  <2> DEFINE r == read_any_data(line.read, StatusSize)
  <2>2. /\ a.set = (Bit(r.buf[3], 3) = 1)
        /\ a.patched = (Len(line.read) = StatusSize /\ LengthAt(line.read, 0) # StatusSize)
    BY <2>1, Zenon DEF Outcome
  <2> QED
    BY <2>2, Zenon
<1> QED
  BY <1>1 DEF Accepted

(* mixed is a record of booleans.                                          *)
Mixed == [rtc : BOOLEAN, status : BOOLEAN, drift : BOOLEAN]

LEMMA MixedType ==
  ASSUME NEW m \in Mixed, NEW a \in BOOLEAN, NEW b \in BOOLEAN
  PROVE  /\ [m EXCEPT !.rtc = a] \in Mixed /\ [m EXCEPT !.status = a] \in Mixed
         /\ [m EXCEPT !.status = a, !.drift = b] \in Mixed
         /\ m.rtc \in BOOLEAN /\ m.status \in BOOLEAN /\ m.drift \in BOOLEAN
  BY DEF Mixed

LEMMA AsRtcType == \A r \in Reports : AsRtc(r) \in Rtc
  BY BoundsAssumption DEF Reports, AsRtc, Rtc

LEMMA NextType == TypeOK /\ [Next]_vars => TypeOK'
<1> SUFFICES ASSUME TypeOK, [Next]_vars PROVE TypeOK'
  OBVIOUS
<1>1. CASE SetUp
  BY <1>1 DEF SetUp, TypeOK, nmea, port, Answers
<1>2. CASE GpsRead
  <2>1. PICK later \in {0, 1}, fix \in BOOLEAN :
          gps' = [n |-> gps.n + 1, time |-> gps.time + later, fix |-> fix]
    BY <1>2 DEF GpsRead
  <2>2. gps \in Reports /\ gps.n < MaxReports
    BY <1>2 DEF GpsRead, TypeOK
  <2>3. gps' \in Reports
    BY <2>1, <2>2, BoundsAssumption DEF Reports
  <2> QED
    <3>1. pc' \in [Threads -> Labels]
      BY <1>2, GotoType DEF GpsRead, Threads, Labels, Fields
    <3>2. UNCHANGED <<rtc_data, whole, port, left, status, adc_hdr, reg, wr_buf, set, got, sent, floor,
                      requests, mixed>>
      BY <1>2 DEF GpsRead
    <3> QED
      BY <2>3, <3>1, <3>2 DEF TypeOK, port, Answers, Labels, DriftSteps
<1>3. CASE WriteField
  <2>1. PICK f \in Fields :
          /\ At("nmea", f) /\ Goto("nmea", NextField[f])
          /\ rtc_data' = [rtc_data EXCEPT ![f] = AsRtc(gps)[f]]
          /\ whole' = (IF f = "check" THEN gps ELSE whole)
    BY <1>3 DEF WriteField
  <2>2. AsRtc(gps) \in Rtc
    BY AsRtcType DEF TypeOK
  <2>3. rtc_data' \in Rtc
    BY <2>1, <2>2 DEF TypeOK, Rtc, Fields
  <2>4. NextField[f] \in Labels
    BY DEF NextField, Fields, Labels
  <2>5. pc' \in [Threads -> Labels]
    BY <2>1, <2>4, GotoType DEF Threads
  <2>6. whole' \in Reports
    BY <2>1 DEF TypeOK
  <2>7. mixed' = [mixed EXCEPT !.rtc = mixed.rtc \/ Copying]
    BY <1>3 DEF WriteField
  <2>8. mixed' \in [rtc : BOOLEAN, status : BOOLEAN, drift : BOOLEAN]
    BY <2>7, Zenon DEF TypeOK
  <2> QED
    BY <1>3, <2>3, <2>5, <2>6, <2>8 DEF WriteField, TypeOK, port, Answers, Labels, DriftSteps
<1>4. CASE GetParam
  <2>1. PICK f \in left["port"] :
          /\ rtc' = [rtc EXCEPT ![f] = rtc_data[f]]
          /\ left' = [left EXCEPT !["port"] = @ \ {f}]
          /\ IF left'["port"] = {} THEN Goto("port", "test") ELSE UNCHANGED pc
    BY <1>4 DEF GetParam
  <2>2. rtc' \in Rtc
    BY <2>1 DEF TypeOK, Rtc
  <2>3. left' \in [Threads -> SUBSET (Fields \cup Parts)]
    BY <2>1 DEF TypeOK
  <2>4. pc' \in [Threads -> Labels]
    BY <2>1, GotoType DEF Threads, TypeOK, Labels, DriftSteps
  <2>5. floor' \in Reports
    BY <1>4 DEF GetParam, TypeOK
  <2>6. \/ mixed' = mixed
        \/ mixed' = [mixed EXCEPT !.rtc = ~ At("nmea", "idle")]
    BY <1>4 DEF GetParam
  <2>7. mixed' \in [rtc : BOOLEAN, status : BOOLEAN, drift : BOOLEAN]
    BY <2>6 DEF TypeOK
  <2> QED
    BY <1>4, <2>2, <2>3, <2>4, <2>5, <2>7
    DEF GetParam, TypeOK, nmea, Answers, Labels, DriftSteps
<1>5. CASE Sync
  <2>1. rtc.time \in Int
    <3>1. rtc \in Rtc
      BY DEF TypeOK
    <3> QED
      BY <3>1 DEF Rtc
  <2> QED
    BY <1>5, <2>1 DEF Sync, TypeOK, nmea, Answers, Goto
<1>6. CASE StatusGet
  <2>1. CASE /\ Len(got) < MaxStatus
             /\ \E a \in Accepted(set) : got' = Append(got, a)
             /\ str' = Len(got) + 1
             /\ Goto("port", "store") /\ left' = [left EXCEPT !["port"] = Parts]
    <3> DEFINE Took == [set : BOOLEAN, patched : BOOLEAN]
    <3>1. PICK a \in Accepted(set) : got' = Append(got, a)
      BY <2>1
    <3>2. a \in Took /\ got \in Seq(Took)
      BY <3>1, AcceptedType DEF TypeOK
    <3> HIDE DEF Took
    <3>3. got' \in Seq(Took) /\ Len(got') = Len(got) + 1 /\ Len(got) \in Nat
      BY <3>1, <3>2
    <3>4. str' \in Answers' /\ Answers \subseteq Answers' /\ Len(got') <= MaxStatus
      BY <2>1, <3>3, BoundsAssumption DEF Answers
    <3>5. /\ status \in [Parts -> Answers'] /\ wr_buf \in [Parts -> Answers']
          /\ adc_hdr \in [lo : Answers', hi : Answers'] /\ reg \in [Threads -> Answers']
      <4> DEFINE A == Answers'
      <4>1. Answers \subseteq A
        BY <3>4
      <4> HIDE DEF A
      <4>2. /\ status \in [Parts -> A] /\ wr_buf \in [Parts -> A]
            /\ adc_hdr \in [lo : A, hi : A] /\ reg \in [Threads -> A]
        BY <4>1 DEF TypeOK
      <4> QED
        BY <4>2 DEF A
    <3>6. pc' \in [Threads -> Labels]
      BY <2>1, GotoType DEF Threads, Labels
    <3>7. left' \in [Threads -> SUBSET (Fields \cup Parts)]
      BY <2>1 DEF TypeOK
    <3>8. UNCHANGED <<nmea, rtc, t1, check, status, adc_hdr, reg, wr_buf, set, sent, floor, requests, mixed>>
      BY <1>6 DEF StatusGet
    <3> QED
      BY <3>3, <3>4, <3>5, <3>6, <3>7, <3>8 DEF TypeOK, nmea, Took, Labels, DriftSteps
  <2>2. CASE Goto("port", "data") /\ UNCHANGED <<got, str, left>>
    BY <1>6, <2>2 DEF StatusGet, TypeOK, nmea, Answers, Goto
  <2> QED
    BY <1>6, <2>1, <2>2 DEF StatusGet
<1>7. CASE StoreStatus
  <2>1. PICK p \in left["port"] :
          /\ status' = [status EXCEPT ![p] = str]
          /\ left' = [left EXCEPT !["port"] = @ \ {p}]
          /\ mixed' = [mixed EXCEPT !.status = @ \/ At("net", "copy"),
                       !.drift = IF p = "drift" THEN pc["net"] \in DriftSteps ELSE @]
    BY <1>7 DEF StoreStatus
  <2>2. status' \in [Parts -> Answers]
    BY <2>1 DEF TypeOK
  <2>3. left' \in [Threads -> SUBSET (Fields \cup Parts)]
    BY <2>1 DEF TypeOK
  <2>4. pc' \in [Threads -> Labels]
    <3>1. Goto("port", "drift_lo") \/ UNCHANGED pc
      BY <1>7 DEF StoreStatus
    <3>2. "port" \in Threads /\ "drift_lo" \in Labels
      BY DEF Threads, Labels, DriftSteps
    <3>3. pc \in [Threads -> Labels]
      BY DEF TypeOK, Labels, DriftSteps
    <3> QED
      BY <3>1, <3>2, <3>3, GotoType
  <2>5. mixed' \in [rtc : BOOLEAN, status : BOOLEAN, drift : BOOLEAN]
    <3>1. mixed \in Mixed
      BY Zenon DEF TypeOK, Mixed
    <3> DEFINE a == mixed.status \/ At("net", "copy")
               b == IF p = "drift" THEN pc["net"] \in DriftSteps ELSE mixed.drift
    <3>2. mixed' = [mixed EXCEPT !.status = a, !.drift = b]
      BY <2>1, Zenon
    <3>3. a \in BOOLEAN /\ b \in BOOLEAN
      <4>1. mixed.status \in BOOLEAN /\ mixed.drift \in BOOLEAN
        BY <3>1, MixedType, Zenon
      <4>2. a \in BOOLEAN
        BY <4>1, Zenon DEF At
      <4>3. CASE p = "drift"
        <5>1. b = TRUE \/ b = FALSE
          BY <4>3
        <5> QED
          BY <4>2, <5>1, Zenon
      <4>4. CASE p # "drift"
        BY <4>1, <4>2, <4>4, Zenon
      <4> QED
        BY <4>3, <4>4, Zenon
    <3> HIDE DEF a, b
    <3> QED
      BY <3>1, <3>2, <3>3, MixedType, ZenonT(40) DEF Mixed
  <2> QED
    BY <1>7, <2>2, <2>3, <2>4, <2>5
    DEF StoreStatus, TypeOK, nmea, port, Answers, Labels, DriftSteps
<1>8. CASE Decide
  BY <1>8 DEF Decide, TypeOK, nmea, Answers, Goto
<1>9. CASE Data
  BY <1>9 DEF Data, TypeOK, nmea, port, Answers, Goto
<1>10. ASSUME NEW t \in Threads, LoadDrift(t) PROVE TypeOK'
  BY <1>10 DEF LoadDrift, TypeOK, nmea, port, Answers, Goto, Parts
<1>11. ASSUME NEW t \in Threads, SetDrift(t) PROVE TypeOK'
  BY <1>11 DEF SetDrift, TypeOK, nmea, port, Answers, Goto
<1>12. CASE Start
  <2>1. requests' \in 0 .. MaxRequests
    <3>1. requests \in 0 .. MaxRequests /\ requests < MaxRequests /\ requests' = requests + 1
      BY <1>12 DEF Start, TypeOK
    <3> QED
      BY <3>1, BoundsAssumption
  <2> QED
    BY <1>12, <2>1 DEF Start, TypeOK, nmea, port, Answers, Goto
<1>13. CASE Request
  <2>1. requests' \in 0 .. MaxRequests
    <3>1. requests \in 0 .. MaxRequests /\ requests < MaxRequests /\ requests' = requests + 1
      BY <1>13 DEF Request, TypeOK
    <3> QED
      BY <3>1, BoundsAssumption
  <2>2. mixed' \in [rtc : BOOLEAN, status : BOOLEAN, drift : BOOLEAN]
    <3>1. mixed \in Mixed /\ mixed' = [mixed EXCEPT !.status = At("port", "store")]
      BY <1>13, Zenon DEF Request, TypeOK, Mixed
    <3> QED
      BY <3>1, MixedType, Zenon DEF At, Mixed
  <2> QED
    BY <1>13, <2>1, <2>2 DEF Request, TypeOK, nmea, port, Answers, Goto
<1>14. CASE CopyStatus
  <2>1. PICK p \in left["net"] :
          /\ wr_buf' = [wr_buf EXCEPT ![p] = status[p]]
          /\ left' = [left EXCEPT !["net"] = @ \ {p}]
    BY <1>14 DEF CopyStatus
  <2>2. wr_buf' \in [Parts -> Answers]
    <3>1. p \in Parts => status[p] \in Answers
      BY DEF TypeOK
    <3> QED
      BY <2>1, <3>1 DEF TypeOK
  <2>3. left' \in [Threads -> SUBSET (Fields \cup Parts)]
    BY <2>1 DEF TypeOK
  <2>4. pc' \in [Threads -> Labels]
    <3>1. Goto("net", "answer") \/ UNCHANGED pc
      BY <1>14 DEF CopyStatus
    <3>2. "net" \in Threads /\ "answer" \in Labels
      BY DEF Threads, Labels
    <3>3. pc \in [Threads -> Labels]
      BY DEF TypeOK, Labels, DriftSteps
    <3> QED
      BY <3>1, <3>2, <3>3, GotoType
  <2> QED
    BY <1>14, <2>2, <2>3, <2>4
    DEF CopyStatus, TypeOK, nmea, port, Answers, Labels, DriftSteps
<1>15. CASE SendTo
  BY <1>15 DEF SendTo, TypeOK, nmea, port, Answers, Goto
<1>16. CASE UNCHANGED vars
  BY <1>16 DEF vars, TypeOK, nmea, port, Answers
<1> QED
  BY <1>1, <1>2, <1>3, <1>4, <1>5, <1>6, <1>7, <1>8, <1>9, <1>10, <1>11, <1>12, <1>13, <1>14,
     <1>15, <1>16 DEF Next, Nmea, Port, Net, Threads

(* For every length of a status, every damage and any number of reports,   *)
(* statuses and requests, the variables keep their types.                  *)
THEOREM TypeCorrect == Spec => []TypeOK
  BY InitType, NextType, PTL DEF Spec

-----------------------------------------------------------------------------
(* Times.                                                                  *)

LEMMA TimesGrowInv == TypeOK /\ TimesGrow /\ [Next]_vars => TimesGrow'
<1> SUFFICES ASSUME TypeOK, TimesGrow, [Next]_vars PROVE TimesGrow'
  OBVIOUS
<1>0. /\ sent \in Int /\ t1 \in Int /\ rtc \in Rtc /\ rtc_data \in Rtc /\ gps \in Reports
  BY DEF TypeOK
<1>1. rtc.time \in Nat /\ rtc_data.time \in Nat /\ gps.time \in Nat
  BY <1>0 DEF Rtc, Reports
<1>2. CASE GpsRead
  <2>1. PICK later \in {0, 1}, fix \in BOOLEAN :
          gps' = [n |-> gps.n + 1, time |-> gps.time + later, fix |-> fix]
    BY <1>2 DEF GpsRead
  <2>2. gps'.time >= gps.time
    BY <1>0, <1>1, <2>1
  <2> QED
    BY <1>0, <1>1, <1>2, <2>1, <2>2 DEF GpsRead, TimesGrow, port
<1>3. CASE WriteField
  <2>1. rtc_data'.time \in {rtc_data.time, gps.time}
    BY <1>0, <1>1, <1>3 DEF WriteField, AsRtc, Rtc, Fields
  <2>2. UNCHANGED <<gps, sent, rtc, t1>>
    BY <1>3 DEF WriteField, port
  <2> QED
    BY <1>0, <1>1, <2>1, <2>2 DEF TimesGrow
<1>4. CASE GetParam
  <2>1. rtc'.time \in {rtc.time, rtc_data.time}
    BY <1>0, <1>1, <1>4 DEF GetParam, Rtc
  <2>2. UNCHANGED <<gps, sent, rtc_data, t1>>
    BY <1>4 DEF GetParam, nmea
  <2> QED
    BY <1>0, <1>1, <2>1, <2>2 DEF TimesGrow
<1>5. CASE Sync
  BY <1>0, <1>1, <1>5 DEF Sync, TimesGrow, nmea
<1>6. CASE UNCHANGED <<sent, t1, rtc, rtc_data, gps>>
  BY <1>6 DEF TimesGrow
<1> QED
  BY <1>2, <1>3, <1>4, <1>5, <1>6
  DEF Next, vars, Nmea, Port, Net, SetUp, StatusGet, StoreStatus, Decide, Data, LoadDrift, SetDrift,
      Start, Request, CopyStatus, SendTo, port, nmea

(* Only Sync takes P on to StatusGet.                                      *)
LEMMA OnlySync ==
  ASSUME TypeOK, [Next]_vars, pc["port"] = "test", pc'["port"] = "status"
  PROVE  Sync
  BY DEF TypeOK, Next, vars, Nmea, Port, Net, SetUp, GpsRead, WriteField, GetParam, StatusGet,
         StoreStatus, Decide, Data, LoadDrift, SetDrift, Start, Request, CopyStatus, SendTo, At, Goto,
         Threads

(* However many reports gpsd sends, however nmea.c:97-111 writes them into  *)
(* the copy of get_param_from_gps_to_device, and whatever t1 was at first: *)
(* the test of mythreads.c:196 lets no time through to TimeSync that is    *)
(* not after the one before.                                               *)
THEOREM InOrder == Spec => TimesInOrder
<1>1. Init => TimesGrow
  <2> SUFFICES ASSUME Init PROVE TimesGrow
    OBVIOUS
  <2>1. /\ rtc.time = 0 /\ rtc_data.time = 0 /\ gps.time = 0 /\ sent = -1
    BY DEF Init, AsRtc, NoReport
  <2> QED
    BY <2>1 DEF TimesGrow
<1>2. TypeOK /\ TimesGrow /\ [Next]_vars =>
        [pc["port"] = "test" /\ pc'["port"] = "status" => rtc.time > sent]_vars
  <2> SUFFICES ASSUME TypeOK, TimesGrow, [Next]_vars, pc["port"] = "test", pc'["port"] = "status"
               PROVE  rtc.time > sent
    OBVIOUS
  <2>1. Sync /\ rtc.time # t1
    BY OnlySync DEF Sync, Goto, TypeOK, Threads
  <2>2. rtc.time \in Nat /\ sent \in Int
    BY DEF TypeOK, Rtc
  <2>3. rtc.time >= sent /\ (sent = -1 \/ sent = t1)
    BY <2>2 DEF TimesGrow
  <2> QED
    BY <2>1, <2>2, <2>3
<1> QED
  BY <1>1, <1>2, TypeCorrect, TimesGrowInv, PTL DEF Spec, TimesInOrder

-----------------------------------------------------------------------------
(* Reports.                                                                *)

(* What the steps of a thread leave alone.                                 *)
LEMMA GotoMoves ==
  ASSUME TypeOK, NEW t \in Threads, NEW l, Goto(t, l)
  PROVE  pc'[t] = l /\ \A u \in Threads \ {t} : pc'[u] = pc[u]
<1>1. pc \in [Threads -> Labels]
  BY DEF TypeOK, Labels, DriftSteps
<1> QED
  BY <1>1 DEF Goto

LEMMA PortMoves ==
  ASSUME TypeOK, Port
  PROVE  /\ UNCHANGED <<nmea, wr_buf, set, requests>>
         /\ pc'["nmea"] = pc["nmea"] /\ pc'["net"] = pc["net"]
         /\ left'["net"] = left["net"] /\ reg'["net"] = reg["net"]
<1>1. left \in [Threads -> SUBSET (Fields \cup Parts)] /\ reg \in [Threads -> Answers]
  BY DEF TypeOK
<1>2. UNCHANGED pc \/ \E l : Goto("port", l)
  BY DEF Port, GetParam, Sync, StatusGet, StoreStatus, Decide, Data, LoadDrift, SetDrift
<1>3. pc'["nmea"] = pc["nmea"] /\ pc'["net"] = pc["net"]
  BY <1>2, GotoMoves DEF Threads
<1>4. UNCHANGED <<nmea, wr_buf, set, requests>>
  BY DEF Port, GetParam, Sync, StatusGet, StoreStatus, Decide, Data, LoadDrift, SetDrift
<1>5. left'["net"] = left["net"] /\ reg'["net"] = reg["net"]
  BY <1>1 DEF Port, GetParam, Sync, StatusGet, StoreStatus, Decide, Data, LoadDrift, SetDrift, Threads
<1> QED
  BY <1>3, <1>4, <1>5

LEMMA NetMoves ==
  ASSUME TypeOK, Net
  PROVE  /\ UNCHANGED <<nmea, port, status, set, got, sent, floor>>
         /\ pc'["nmea"] = pc["nmea"] /\ pc'["port"] = pc["port"]
         /\ left'["port"] = left["port"] /\ reg'["port"] = reg["port"]
         /\ mixed'.rtc = mixed.rtc /\ mixed'.drift = mixed.drift
<1>1. /\ left \in [Threads -> SUBSET (Fields \cup Parts)] /\ reg \in [Threads -> Answers]
      /\ mixed \in Mixed
  BY DEF TypeOK, Mixed
<1>2. UNCHANGED pc \/ \E l : Goto("net", l)
  BY DEF Net, Start, Request, CopyStatus, SendTo, LoadDrift, SetDrift
<1>3. pc'["nmea"] = pc["nmea"] /\ pc'["port"] = pc["port"]
  BY <1>2, GotoMoves DEF Threads
<1>4. UNCHANGED <<nmea, port, status, set, got, sent, floor>>
  BY DEF Net, Start, Request, CopyStatus, SendTo, LoadDrift, SetDrift
<1>5. left'["port"] = left["port"] /\ reg'["port"] = reg["port"]
  BY <1>1 DEF Net, Start, Request, CopyStatus, SendTo, LoadDrift, SetDrift, Threads
<1>6. mixed' = mixed \/ mixed' = [mixed EXCEPT !.status = At("port", "store")]
  BY DEF Net, Start, Request, CopyStatus, SendTo, LoadDrift, SetDrift
<1>7. mixed'.rtc = mixed.rtc /\ mixed'.drift = mixed.drift
  BY <1>1, <1>6, Zenon DEF Mixed
<1> QED
  BY <1>3, <1>4, <1>5, <1>7

LEMMA NmeaMoves ==
  ASSUME TypeOK, Nmea
  PROVE  /\ UNCHANGED <<port, left, status, adc_hdr, reg, wr_buf, set, got, sent, floor>>
         /\ pc'["net"] = pc["net"] /\ pc'["port"] = pc["port"]
         /\ mixed'.status = mixed.status /\ mixed'.drift = mixed.drift
<1>1. mixed \in Mixed
  BY DEF TypeOK, Mixed
<1>2. \E l : Goto("nmea", l)
  BY DEF Nmea, GpsRead, WriteField
<1>3. pc'["net"] = pc["net"] /\ pc'["port"] = pc["port"]
  BY <1>2, GotoMoves DEF Threads
<1>4. UNCHANGED <<port, left, status, adc_hdr, reg, wr_buf, set, got, sent, floor>>
  BY DEF Nmea, GpsRead, WriteField
<1>5. mixed' = mixed \/ mixed' = [mixed EXCEPT !.rtc = @ \/ Copying]
  BY DEF Nmea, GpsRead, WriteField
<1>6. mixed'.status = mixed.status /\ mixed'.drift = mixed.drift
  BY <1>1, <1>5, Zenon DEF Mixed
<1> QED
  BY <1>3, <1>4, <1>6

LEMMA PlacesInv == TypeOK /\ Places /\ [Next]_vars => Places'
<1> SUFFICES ASSUME TypeOK, Places, [Next]_vars PROVE Places'
  OBVIOUS
<1>0. pc \in [Threads -> Labels] /\ left \in [Threads -> SUBSET (Fields \cup Parts)]
  BY DEF TypeOK, Labels, DriftSteps
<1>1. CASE GetParam
  <2>1. PICK f \in left["port"] :
          /\ left'["port"] = left["port"] \ {f} /\ pc["port"] = "copy"
          /\ IF left'["port"] = {} THEN Goto("port", "test") ELSE UNCHANGED pc
    BY <1>0, <1>1 DEF GetParam, At, Threads
  <2>2. /\ pc'["port"] = IF left'["port"] = {} THEN "test" ELSE "copy"
        /\ pc'["nmea"] = pc["nmea"]
    BY GotoMoves, <2>1 DEF Threads
  <2> QED
    BY <2>1, <2>2 DEF Places
<1>2. CASE WriteField
  <2>1. PICK f \in Fields : Goto("nmea", NextField[f]) /\ UNCHANGED left
    BY <1>2 DEF WriteField
  <2>2. NextField[f] \in {"idle"} \cup Fields
    BY DEF NextField, Fields
  <2>3. pc'["nmea"] \in {"idle"} \cup Fields /\ pc'["port"] = pc["port"]
    BY GotoMoves, <2>1, <2>2 DEF Threads
  <2> QED
    BY <2>1, <2>3 DEF Places
<1>3. CASE StatusGet
  <2>1. \E l \in {"store", "data"} : Goto("port", l)
    BY <1>3 DEF StatusGet
  <2>2. pc'["port"] \in {"store", "data"} /\ pc'["nmea"] = pc["nmea"]
    BY GotoMoves, <2>1 DEF Threads
  <2> QED
    BY <2>2 DEF Places
<1>4. CASE StoreStatus
  <2>1. pc["port"] = "store" /\ (Goto("port", "drift_lo") \/ UNCHANGED pc)
    BY <1>4 DEF StoreStatus, At
  <2>2. pc'["port"] \in {"store", "drift_lo"} /\ pc'["nmea"] = pc["nmea"]
    BY GotoMoves, <2>1 DEF Threads
  <2> QED
    BY <2>2 DEF Places, DriftSteps
<1>5. CASE Sync \/ Decide
  <2>1. \E l \in {"status", "data", "drift_lo"} : Goto("port", l)
    BY <1>5 DEF Sync, Decide
  <2>2. pc'["port"] \in {"status", "data", "drift_lo"} /\ pc'["nmea"] = pc["nmea"]
    BY GotoMoves, <2>1 DEF Threads
  <2> QED
    BY <2>2 DEF Places, DriftSteps
<1>6. CASE Data
  <2>1. Goto("port", "copy") /\ left'["port"] = Fields
    BY <1>0, <1>6 DEF Data, Threads
  <2>2. pc'["port"] = "copy" /\ pc'["nmea"] = pc["nmea"]
    BY GotoMoves, <2>1 DEF Threads
  <2> QED
    BY <2>1, <2>2 DEF Places, Fields
<1>7. CASE LoadDrift("port") \/ SetDrift("port")
  <2>1. \E l \in DriftSteps \cup {"decide"} : Goto("port", l)
    BY <1>7 DEF LoadDrift, SetDrift, DriftSteps
  <2>2. pc'["port"] \in DriftSteps \cup {"decide"} /\ pc'["nmea"] = pc["nmea"]
    BY GotoMoves, <2>1 DEF Threads
  <2> QED
    BY <2>2 DEF Places, DriftSteps
<1>8. CASE GpsRead
  <2>1. Goto("nmea", "time") /\ UNCHANGED left
    BY <1>8 DEF GpsRead
  <2>2. pc'["nmea"] = "time" /\ pc'["port"] = pc["port"]
    BY GotoMoves, <2>1 DEF Threads
  <2> QED
    BY <2>1, <2>2 DEF Places, Fields
<1>9. CASE Net
  BY <1>9, NetMoves DEF Places
<1>10. CASE SetUp \/ UNCHANGED vars
  BY <1>10 DEF SetUp, vars, Places
<1> QED
  BY <1>1, <1>2, <1>3, <1>4, <1>5, <1>6, <1>7, <1>8, <1>9, <1>10 DEF Next, Nmea, Port

LEMMA WrittenInv == TypeOK /\ Places /\ Written /\ [Next]_vars => Written'
<1> SUFFICES ASSUME TypeOK, Places, Written, [Next]_vars PROVE Written'
  OBVIOUS
<1>1. /\ gps \in Reports /\ whole \in Reports /\ rtc_data \in Rtc
      /\ AsRtc(gps) \in Rtc /\ AsRtc(whole) \in Rtc
  BY AsRtcType DEF TypeOK
<1>2. CASE GpsRead
  <2>1. PICK later \in {0, 1}, fix \in BOOLEAN :
          gps' = [n |-> gps.n + 1, time |-> gps.time + later, fix |-> fix]
    BY <1>2 DEF GpsRead
  <2>2. gps'.n >= gps.n /\ gps'.time >= gps.time
    BY <1>1, <2>1, BoundsAssumption DEF Reports
  <2>3. whole.n <= gps'.n /\ whole.time <= gps'.time
    BY <1>1, <2>1, <2>2, BoundsAssumption DEF Written, Reports
  <2>4. pc["nmea"] = "idle" /\ pc'["nmea"] = "time" /\ UNCHANGED <<rtc_data, whole>>
    BY <1>2 DEF GpsRead, At, Goto, TypeOK, Threads
  <2> QED
    BY <2>3, <2>4 DEF Written, NotOlder
<1>3. CASE WriteField
  <2>1. PICK f \in Fields :
          /\ pc["nmea"] = f /\ pc'["nmea"] = NextField[f]
          /\ rtc_data' = [rtc_data EXCEPT ![f] = AsRtc(gps)[f]]
          /\ whole' = (IF f = "check" THEN gps ELSE whole) /\ gps' = gps
    BY <1>3 DEF WriteField, At, Goto, TypeOK, Threads
  <2>2. CASE f = "check"
    <3>1. pc'["nmea"] = "idle" /\ whole' = gps
      BY <2>1, <2>2 DEF NextField
    <3>2. rtc_data' = AsRtc(gps)
      BY <1>1, <2>1, <2>2 DEF Written, Rtc, AsRtc
    <3>3. gps.n <= gps.n /\ gps.time <= gps.time /\ NotOlder(AsRtc(gps), gps)
      BY <1>1, BoundsAssumption DEF Reports, NotOlder, AsRtc
    <3> QED
      BY <2>1, <3>1, <3>2, <3>3 DEF Written
  <2>3. CASE f \in {"time", "lat", "lon"}
    <3>1. UNCHANGED <<whole, gps>>
      BY <2>1, <2>3
    <3>2. pc["nmea"] = f /\ pc'["nmea"] = (CASE f = "time" -> "lat" [] f = "lat" -> "lon" [] OTHER -> "check")
      BY <2>1, <2>3 DEF NextField
    <3>3. /\ rtc_data'.time = IF f = "time" THEN gps.time ELSE rtc_data.time
          /\ rtc_data'.lat = IF f = "lat" THEN AsRtc(gps).lat ELSE rtc_data.lat
          /\ rtc_data'.lon = IF f = "lon" THEN AsRtc(gps).lon ELSE rtc_data.lon
      BY <1>1, <2>1, <2>3 DEF Rtc, AsRtc
    <3>4. /\ gps.time >= whole.time
          /\ AsRtc(gps).lat # 0 => AsRtc(gps).lat >= whole.n
          /\ AsRtc(gps).lon # 0 => AsRtc(gps).lon >= whole.n
      BY <1>1, BoundsAssumption DEF Written, AsRtc, Reports
    <3>5. NotOlder(rtc_data', whole)
      BY <3>3, <3>4 DEF NotOlder, Written
    <3> QED
      BY <2>3, <3>1, <3>2, <3>3, <3>5 DEF Written, NotOlder
  <2> QED
    BY <2>2, <2>3 DEF Fields
<1>4. CASE pc'["nmea"] = pc["nmea"] /\ UNCHANGED <<gps, whole, rtc_data>>
  BY <1>4 DEF Written, NotOlder
<1>5. CASE Port \/ Net
  BY <1>4, <1>5, PortMoves, NetMoves DEF nmea
<1>6. CASE SetUp \/ UNCHANGED vars
  BY <1>4, <1>6 DEF SetUp, vars, nmea
<1> QED
  BY <1>2, <1>3, <1>5, <1>6 DEF Next, Nmea

LEMMA CopiedInv == TypeOK /\ Places /\ Written /\ Copied /\ [Next]_vars => Copied'
<1> SUFFICES ASSUME TypeOK, Places, Written, Copied, [Next]_vars PROVE Copied'
  OBVIOUS
<1>1. /\ gps \in Reports /\ whole \in Reports /\ floor \in Reports
      /\ rtc_data \in Rtc /\ rtc \in Rtc /\ AsRtc(whole) \in Rtc /\ AsRtc(floor) \in Rtc
      /\ mixed \in Mixed /\ left \in [Threads -> SUBSET (Fields \cup Parts)]
  BY AsRtcType DEF TypeOK, Mixed
<1>2. /\ gps.n \in Int /\ whole.n \in Int /\ floor.n \in Int
      /\ gps.time \in Int /\ whole.time \in Int /\ floor.time \in Int
  BY <1>1, BoundsAssumption DEF Reports
<1>3. CASE WriteField
  <2>1. whole' \in {whole, gps} /\ UNCHANGED <<floor, rtc, left>> /\ pc'["port"] = pc["port"]
    BY <1>3, NmeaMoves DEF WriteField, port, Nmea
  <2>2. floor'.n <= whole'.n /\ floor'.time <= whole'.time
    BY <1>2, <2>1 DEF Copied, Written
  <2>3. mixed'.rtc = (mixed.rtc \/ Copying)
    <3>1. mixed' = [mixed EXCEPT !.rtc = mixed.rtc \/ Copying]
      BY <1>3 DEF WriteField
    <3> QED
      BY <1>1, <3>1, Zenon DEF Mixed
  <2>4. Copying' => SoFar(left["port"])' /\ mixed'.rtc
    BY <2>1, <2>3 DEF Copied, Copying, SoFar, At
  <2>5. pc'["port"] = "test" => SoFar({})'
    BY <2>1, <2>3 DEF Copied, Copying, SoFar, At
  <2> QED
    BY <2>2, <2>4, <2>5 DEF Copied
<1>4. CASE GetParam
  <2>1. PICK f \in left["port"] :
          /\ rtc' = [rtc EXCEPT ![f] = rtc_data[f]]
          /\ left'["port"] = left["port"] \ {f} /\ pc["port"] = "copy"
          /\ IF left'["port"] = {} THEN Goto("port", "test") ELSE UNCHANGED pc
    BY <1>1, <1>4 DEF GetParam, At, Threads
  <2>2. f \in Fields /\ left["port"] \subseteq Fields
    BY <2>1 DEF Places
  <2>3. \A g \in Fields : rtc'[g] = IF g = f THEN rtc_data[g] ELSE rtc[g]
    BY <1>1, <2>1 DEF Rtc, Fields
  <2>4. pc'["port"] = IF left'["port"] = {} THEN "test" ELSE "copy"
    BY <2>1, GotoMoves DEF Threads
  <2>5. UNCHANGED <<rtc_data, whole>>
    BY <1>4 DEF GetParam, nmea
  <2>6. /\ floor'.n <= whole'.n /\ floor'.time <= whole'.time
        /\ SoFar(left["port"])' /\ (~ mixed'.rtc => rtc_data' = AsRtc(floor'))
    <3>1. CASE Copying
      <4>1. UNCHANGED <<floor, mixed>>
        BY <1>4, <3>1 DEF GetParam
      <4>2. SoFar(left["port"]) /\ (~ mixed.rtc => rtc_data = AsRtc(floor))
        BY <3>1 DEF Copied
      <4>3. NotOlder(rtc_data, floor)
        BY <1>1, <1>2 DEF NotOlder, Written, Copied, Rtc
      <4> QED
        BY <2>1, <2>2, <2>3, <2>5, <4>1, <4>2, <4>3 DEF SoFar, NotOlder, Copied, Fields
    <3>2. CASE ~ Copying
      <4>1. floor' = whole /\ mixed' = [mixed EXCEPT !.rtc = ~ At("nmea", "idle")]
        BY <1>4, <3>2 DEF GetParam
      <4>2. mixed'.rtc = (~ At("nmea", "idle"))
        BY <1>1, <4>1, Zenon DEF Mixed
      <4>3. left["port"] = Fields
        BY <2>1, <3>2 DEF Copying, At
      <4>4. left'["port"] = Fields \ {f}
        BY <2>1, <4>3
      <4>5. ~ mixed'.rtc => rtc_data' = AsRtc(floor')
        BY <2>5, <4>1, <4>2 DEF Written, At
      <4>6. floor'.n <= whole'.n /\ floor'.time <= whole'.time
        BY <1>2, <2>5, <4>1
      <4> QED
        BY <2>2, <2>3, <2>5, <4>1, <4>4, <4>5, <4>6 DEF SoFar, NotOlder, Written, Fields
    <3> QED
      BY <3>1, <3>2
  <2> QED
    BY <2>4, <2>6 DEF Copied, SoFar, Copying, At
<1>5. CASE /\ UNCHANGED <<rtc, floor, whole, rtc_data>> /\ mixed'.rtc = mixed.rtc
           /\ pc'["port"] = pc["port"] /\ left'["port"] = left["port"]
  BY <1>5 DEF Copied, SoFar, Copying, At
<1>6. CASE /\ UNCHANGED <<floor, whole>>
           /\ \/ pc'["port"] \notin {"copy", "test"}
              \/ pc'["port"] = "copy" /\ left'["port"] = Fields
  BY <1>6 DEF Copied, SoFar, Copying, At
<1>7. CASE Sync \/ StatusGet \/ StoreStatus \/ Decide \/ LoadDrift("port") \/ SetDrift("port")
  <2>1. \/ \E l \in {"status", "store", "drift_lo", "data", "decide"} \cup DriftSteps : Goto("port", l)
        \/ pc["port"] = "store" /\ UNCHANGED pc
    BY <1>7 DEF Sync, StatusGet, StoreStatus, Decide, LoadDrift, SetDrift, DriftSteps, At
  <2>2. pc'["port"] \notin {"copy", "test"}
    BY <2>1, GotoMoves DEF Threads, DriftSteps
  <2>3. UNCHANGED <<floor, whole>>
    BY <1>7 DEF Sync, StatusGet, StoreStatus, Decide, LoadDrift, SetDrift, nmea
  <2> QED
    BY <2>2, <2>3 DEF Copied, Copying, At
<1>8. CASE Data
  <2>1. pc'["port"] = "copy"
    BY <1>8, GotoMoves DEF Data, Threads
  <2>2. left'["port"] = Fields /\ UNCHANGED <<floor, whole>>
    BY <1>1, <1>8 DEF Data, nmea, Threads
  <2> QED
    BY <1>6, <2>1, <2>2
<1>9. CASE GpsRead
  BY <1>5, <1>9, NmeaMoves DEF GpsRead, port, Nmea
<1>10. CASE Net
  BY <1>5, <1>10, NetMoves DEF nmea, port
<1>11. CASE SetUp \/ UNCHANGED vars
  BY <1>5, <1>11 DEF SetUp, vars, nmea, port
<1> QED
  BY <1>3, <1>4, <1>7, <1>8, <1>9, <1>10, <1>11 DEF Next, Nmea, Port

LEMMA ReportsInit == Init => Places /\ Written /\ Copied
<1> SUFFICES ASSUME Init PROVE Places /\ Written /\ Copied
  OBVIOUS
<1>1. /\ pc["port"] = "copy" /\ pc["nmea"] = "idle" /\ left["port"] = Fields
      /\ floor = NoReport /\ whole = NoReport /\ gps = NoReport /\ rtc_data = AsRtc(NoReport)
  BY DEF Init, Threads
<1>2. AsRtc(NoReport).lat = 0 /\ AsRtc(NoReport).lon = 0 /\ AsRtc(NoReport).time = 0
  BY DEF AsRtc, NoReport
<1>3. NoReport.n = 0 /\ NoReport.time = 0
  BY DEF NoReport
<1>4. Places
  BY <1>1 DEF Places, Fields
<1>5. Written
  BY <1>1, <1>2, <1>3 DEF Written, NotOlder
<1>6. Copied
  BY <1>1, <1>3 DEF Copied, Copying
<1> QED
  BY <1>4, <1>5, <1>6

(* The reports that meet in P's copy.                                      *)
ReportsInv == TypeOK /\ Places /\ Written /\ Copied

LEMMA ReportsCorrect == Spec => []ReportsInv
<1>1. Init => ReportsInv
  BY InitType, ReportsInit DEF ReportsInv
<1>2. ReportsInv /\ [Next]_vars => ReportsInv'
  BY NextType, PlacesInv, WrittenInv, CopiedInv DEF ReportsInv
<1> QED
  BY <1>1, <1>2, PTL DEF Spec

(* However many reports there are and however G's writes meet P's copy:    *)
(* what goes to the device is no older than the last report that was       *)
(* complete when the copy began (nmea.c:97-111, mythreads.c:193).          *)
THEOREM NoneOlder == Spec => []NoOldReport
<1>1. ReportsInv => NoOldReport
  BY DEF ReportsInv, Copied, SoFar, NoOldReport, At
<1> QED
  BY <1>1, ReportsCorrect, PTL

(* A copy no report was written into is of one report, for any number of   *)
(* reports (nmea.c:97-111, mythreads.c:193).                               *)
THEOREM OneAtATime == Spec => []OneReport
<1>1. ReportsInv => OneReport
  <2> SUFFICES ASSUME ReportsInv, pc["port"] = "test", ~ mixed.rtc PROVE rtc = AsRtc(floor)
    BY DEF OneReport, At
  <2>1. rtc \in Rtc /\ AsRtc(floor) \in Rtc
    BY AsRtcType DEF ReportsInv, TypeOK
  <2>2. \A f \in Fields : rtc[f] = AsRtc(floor)[f]
    BY DEF ReportsInv, Copied, SoFar
  <2>3. \A r \in Rtc : r = [time |-> r.time, lat |-> r.lat, lon |-> r.lon, check |-> r.check]
    BY DEF Rtc
  <2> QED
    BY <2>1, <2>2, <2>3 DEF Fields
<1> QED
  BY <1>1, ReportsCorrect, PTL

-----------------------------------------------------------------------------
(* The status.                                                             *)

LEMMA OneStatusInv == TypeOK /\ OneStatus /\ [Next]_vars => OneStatus'
<1> SUFFICES ASSUME TypeOK, OneStatus, [Next]_vars PROVE OneStatus'
  OBVIOUS
<1>1. /\ status \in [Parts -> Answers] /\ wr_buf \in [Parts -> Answers] /\ mixed \in Mixed
      /\ left \in [Threads -> SUBSET (Fields \cup Parts)]
  BY DEF TypeOK, Mixed
<1>2. CASE StoreStatus
  <2>1. PICK p \in left["port"] :
          /\ status' = [status EXCEPT ![p] = str]
          /\ left'["port"] = left["port"] \ {p}
          /\ mixed' = [mixed EXCEPT !.status = mixed.status \/ At("net", "copy"),
                       !.drift = IF p = "drift" THEN pc["net"] \in DriftSteps ELSE mixed.drift]
    BY <1>1, <1>2 DEF StoreStatus, Threads
  <2>2. mixed'.status = (mixed.status \/ At("net", "copy"))
    BY <1>1, <2>1, Zenon DEF Mixed
  <2>3. /\ pc["port"] = "store"
        /\ pc'["port"] = IF left'["port"] = {} THEN "drift_lo" ELSE "store"
    BY <1>2, GotoMoves DEF StoreStatus, At, Threads
  <2>4. /\ pc'["net"] = pc["net"] /\ left'["net"] = left["net"] /\ UNCHANGED <<wr_buf, str>>
    BY <1>2, PortMoves DEF StoreStatus, Port, port
  <2>5. \A q \in Parts \ left'["port"] : status'[q] = str
    BY <1>1, <2>1, <2>3 DEF OneStatus
  <2>6. pc'["port"] # "store" => status'["head"] = status'["drift"]
    BY <2>3, <2>5 DEF Parts
  <2> QED
    BY <2>2, <2>3, <2>4, <2>5, <2>6 DEF OneStatus, At
<1>3. CASE StatusGet
  <2>1. /\ UNCHANGED <<status, mixed, wr_buf>> /\ pc["port"] = "status"
        /\ pc'["net"] = pc["net"] /\ left'["net"] = left["net"]
    BY <1>3, PortMoves DEF StatusGet, Port, At
  <2>2. \/ pc'["port"] = "store" /\ left'["port"] = Parts
        \/ pc'["port"] = "data"
    BY <1>1, <1>3, GotoMoves DEF StatusGet, Threads
  <2> QED
    BY <2>1, <2>2 DEF OneStatus
<1>4. CASE CopyStatus
  <2>1. PICK p \in left["net"] :
          /\ wr_buf' = [wr_buf EXCEPT ![p] = status[p]]
          /\ left'["net"] = left["net"] \ {p} /\ pc["net"] = "copy"
          /\ IF left'["net"] = {} THEN Goto("net", "answer") ELSE UNCHANGED pc
    BY <1>1, <1>4 DEF CopyStatus, Threads, At
  <2>2. pc'["net"] = IF left'["net"] = {} THEN "answer" ELSE "copy"
    BY <2>1, GotoMoves DEF Threads
  <2>3. /\ UNCHANGED <<status, mixed, str>>
        /\ pc'["port"] = pc["port"] /\ left'["port"] = left["port"]
    BY <1>4, NetMoves DEF CopyStatus, Net, port
  <2>4. ~ mixed.status => \A q \in Parts \ left'["net"] : wr_buf'[q] = status[q]
    BY <1>1, <2>1 DEF OneStatus
  <2> QED
    BY <2>1, <2>2, <2>3, <2>4 DEF OneStatus, Parts
<1>5. CASE Request
  <2>1. pc'["net"] = "copy" /\ left'["net"] = Parts
    BY <1>1, <1>5, GotoMoves DEF Request, Threads
  <2>2. /\ UNCHANGED <<status, str, wr_buf>>
        /\ pc'["port"] = pc["port"] /\ left'["port"] = left["port"]
    BY <1>5, NetMoves DEF Request, Net, port
  <2>3. mixed'.status = At("port", "store")
    <3>1. mixed' = [mixed EXCEPT !.status = At("port", "store")]
      BY <1>5 DEF Request
    <3> QED
      BY <1>1, <3>1, Zenon DEF Mixed
  <2> QED
    BY <2>1, <2>2, <2>3 DEF OneStatus, At
<1>6. CASE /\ UNCHANGED <<status, wr_buf, str>> /\ mixed'.status = mixed.status
           /\ \/ pc'["port"] = pc["port"] /\ left'["port"] = left["port"]
              \/ pc["port"] # "store" /\ pc'["port"] # "store"
           /\ \/ pc'["net"] = pc["net"] /\ left'["net"] = left["net"]
              \/ pc'["net"] \notin {"copy", "answer"}
  BY <1>6 DEF OneStatus
<1>7. CASE GetParam
  <2>1. pc["port"] = "copy" /\ (Goto("port", "test") \/ UNCHANGED pc)
    BY <1>7 DEF GetParam, At
  <2>2. pc'["port"] \in {"copy", "test"}
    BY <2>1, GotoMoves DEF Threads
  <2>3. mixed' = mixed \/ mixed' = [mixed EXCEPT !.rtc = ~ At("nmea", "idle")]
    BY <1>7 DEF GetParam
  <2>4. mixed'.status = mixed.status
    BY <1>1, <2>3, Zenon DEF Mixed
  <2>5. UNCHANGED <<status, wr_buf, str>> /\ pc'["net"] = pc["net"] /\ left'["net"] = left["net"]
    BY <1>7, PortMoves DEF GetParam, Port
  <2> QED
    BY <1>6, <2>1, <2>2, <2>4, <2>5
<1>8. CASE Sync \/ Decide \/ Data \/ LoadDrift("port") \/ SetDrift("port")
  <2>1. /\ pc["port"] # "store"
        /\ \E l \in {"status", "data", "copy", "decide"} \cup DriftSteps : Goto("port", l)
    BY <1>8 DEF Sync, Decide, Data, LoadDrift, SetDrift, DriftSteps, At
  <2>2. pc'["port"] # "store"
    BY <2>1, GotoMoves DEF Threads, DriftSteps
  <2>3. UNCHANGED <<status, wr_buf, str, mixed>>
    BY <1>8 DEF Sync, Decide, Data, LoadDrift, SetDrift, port
  <2>4. pc'["net"] = pc["net"] /\ left'["net"] = left["net"]
    BY <1>8, PortMoves DEF Port
  <2> QED
    BY <1>6, <2>1, <2>2, <2>3, <2>4
<1>9. CASE Start \/ SendTo \/ LoadDrift("net") \/ SetDrift("net")
  <2>1. \E l \in {"idle"} \cup DriftSteps : Goto("net", l)
    BY <1>9 DEF Start, SendTo, LoadDrift, SetDrift, DriftSteps
  <2>2. pc'["net"] \notin {"copy", "answer"}
    BY <2>1, GotoMoves DEF Threads, DriftSteps
  <2>3. UNCHANGED <<status, wr_buf, str, mixed>>
    BY <1>9 DEF Start, SendTo, LoadDrift, SetDrift, port
  <2>4. pc'["port"] = pc["port"] /\ left'["port"] = left["port"]
    BY <1>9, NetMoves DEF Net
  <2> QED
    BY <1>6, <2>2, <2>3, <2>4
<1>10. CASE Nmea
  BY <1>6, <1>10, NmeaMoves DEF port
<1>11. CASE SetUp \/ UNCHANGED vars
  BY <1>6, <1>11 DEF SetUp, vars, port
<1> QED
  BY <1>2, <1>3, <1>4, <1>5, <1>7, <1>8, <1>9, <1>10, <1>11 DEF Next, Port, Net

LEMMA OneStatusInit == Init => OneStatus
<1> SUFFICES ASSUME Init PROVE OneStatus
  OBVIOUS
<1>1. /\ pc["port"] = "copy" /\ pc["net"] = "idle" /\ status = [p \in Parts |-> 0]
  BY DEF Init, Threads
<1> QED
  BY <1>1 DEF OneStatus, Parts

LEMMA StatusCorrect == Spec => [](TypeOK /\ OneStatus)
<1>1. Init => TypeOK /\ OneStatus
  BY InitType, OneStatusInit
<1>2. TypeOK /\ OneStatus /\ [Next]_vars => (TypeOK /\ OneStatus)'
  BY NextType, OneStatusInv
<1> QED
  BY <1>1, <1>2, PTL DEF Spec

(* A client is sent parts of two statuses only if the port thread stored   *)
(* one while the network thread copied status (mythreads.c:487), for any   *)
(* number of statuses and requests.                                        *)
THEOREM Served == Spec => []ServedWhole
<1>1. OneStatus => ServedWhole
  BY DEF OneStatus, ServedWhole, At
<1> QED
  BY <1>1, StatusCorrect, PTL

-----------------------------------------------------------------------------
(* The drift.                                                              *)

LEMMA OneDriftInv == TypeOK /\ OneDrift /\ [Next]_vars => OneDrift'
<1> SUFFICES ASSUME TypeOK, OneDrift, [Next]_vars PROVE OneDrift'
  OBVIOUS
<1>1. /\ status \in [Parts -> Answers] /\ mixed \in Mixed /\ reg \in [Threads -> Answers]
      /\ left \in [Threads -> SUBSET (Fields \cup Parts)]
      /\ adc_hdr \in [lo : Answers, hi : Answers]
  BY DEF TypeOK, Mixed
<1>2. CASE StoreStatus
  <2>1. PICK p \in left["port"] :
          /\ status' = [status EXCEPT ![p] = str]
          /\ left'["port"] = left["port"] \ {p}
          /\ mixed' = [mixed EXCEPT !.status = mixed.status \/ At("net", "copy"),
                       !.drift = IF p = "drift" THEN pc["net"] \in DriftSteps ELSE mixed.drift]
    BY <1>1, <1>2 DEF StoreStatus, Threads
  <2>2. mixed'.drift = (IF p = "drift" THEN pc["net"] \in DriftSteps ELSE mixed.drift)
    BY <1>1, <2>1, Zenon DEF Mixed
  <2>3. /\ pc["port"] = "store"
        /\ pc'["port"] = IF left'["port"] = {} THEN "drift_lo" ELSE "store"
    BY <1>2, GotoMoves DEF StoreStatus, At, Threads
  <2>4. /\ pc'["net"] = pc["net"] /\ reg'["net"] = reg["net"] /\ UNCHANGED <<adc_hdr, reg>>
    BY <1>2, PortMoves DEF StoreStatus, Port
  <2>5. CASE p = "drift"
    BY <2>2, <2>3, <2>4, <2>5 DEF OneDrift, DriftSteps
  <2>6. CASE p # "drift"
    <3>1. status'["drift"] = status["drift"] /\ ("drift" \in left'["port"] <=> "drift" \in left["port"])
      BY <1>1, <2>1, <2>6 DEF Parts
    <3> QED
      BY <2>2, <2>3, <2>4, <2>6, <3>1 DEF OneDrift
  <2> QED
    BY <2>5, <2>6
<1>3. CASE StatusGet
  <2>1. /\ UNCHANGED <<status, mixed, adc_hdr, reg>> /\ pc["port"] = "status"
        /\ pc'["net"] = pc["net"]
    BY <1>3, PortMoves DEF StatusGet, Port, At
  <2>2. \/ pc'["port"] = "store" /\ left'["port"] = Parts
        \/ pc'["port"] = "data"
    BY <1>1, <1>3, GotoMoves DEF StatusGet, Threads
  <2> QED
    BY <2>1, <2>2 DEF OneDrift, Parts
<1>4. ASSUME NEW t \in {"port", "net"}, LoadDrift(t)
      PROVE  OneDrift'
  <2>1. /\ reg'[t] = status["drift"] /\ \A u \in Threads \ {t} : reg'[u] = reg[u]
        /\ UNCHANGED <<status, adc_hdr, mixed, left>>
    BY <1>1, <1>4 DEF LoadDrift, Threads
  <2>2. /\ pc[t] \in {"drift_lo", "drift_hi"}
        /\ pc'[t] = IF pc[t] = "drift_lo" THEN "set lo" ELSE "set hi"
        /\ \A u \in Threads \ {t} : pc'[u] = pc[u]
    <3> DEFINE l == IF pc[t] = "drift_lo" THEN "set lo" ELSE "set hi"
    <3>1. Goto(t, l) /\ pc[t] \in {"drift_lo", "drift_hi"} /\ t \in Threads
      BY <1>4 DEF LoadDrift, Threads
    <3>2. pc'[t] = l /\ \A u \in Threads \ {t} : pc'[u] = pc[u]
      BY <3>1, GotoMoves
    <3> QED
      BY <3>1, <3>2
  <2> QED
    BY <2>1, <2>2 DEF OneDrift, Threads
<1>5. ASSUME NEW t \in {"port", "net"}, SetDrift(t)
      PROVE  OneDrift'
  <2>1. UNCHANGED <<status, reg, mixed, left>> /\ pc[t] \in {"set lo", "set hi"}
    BY <1>5 DEF SetDrift
  <2>2. /\ pc'[t] = IF pc[t] = "set lo" THEN "drift_hi" ELSE IF t = "port" THEN "decide" ELSE "idle"
        /\ \A u \in Threads \ {t} : pc'[u] = pc[u]
    <3> DEFINE l == IF pc[t] = "set lo" THEN "drift_hi" ELSE IF t = "port" THEN "decide" ELSE "idle"
    <3>1. Goto(t, l) /\ t \in Threads
      BY <1>5 DEF SetDrift, Threads
    <3>2. pc'[t] = l /\ \A u \in Threads \ {t} : pc'[u] = pc[u]
      BY <3>1, GotoMoves
    <3> QED
      BY <3>2
  <2>3. adc_hdr' = IF pc[t] = "set lo" THEN [adc_hdr EXCEPT !.lo = reg[t]]
                                       ELSE [adc_hdr EXCEPT !.hi = reg[t]]
    BY <1>5, <2>1 DEF SetDrift
  <2>4. /\ adc_hdr'.lo = IF pc[t] = "set lo" THEN reg[t] ELSE adc_hdr.lo
        /\ adc_hdr'.hi = IF pc[t] = "set lo" THEN adc_hdr.hi ELSE reg[t]
    BY <1>1, <2>3
  <2> QED
    BY <2>1, <2>2, <2>4 DEF OneDrift, Threads
<1>6. CASE /\ UNCHANGED <<status, reg, adc_hdr>> /\ mixed'.drift = mixed.drift
           /\ \/ pc'["port"] = pc["port"] /\ left'["port"] = left["port"]
              \/ /\ pc["port"] \in {"copy", "test", "decide", "data"}
                 /\ pc'["port"] \in {"copy", "test", "status", "decide", "data", "drift_lo"}
           /\ pc'["net"] = pc["net"] \/ pc'["net"] \notin {"set lo", "set hi"}
  BY <1>6 DEF OneDrift
<1>7. CASE GetParam
  <2>1. pc["port"] = "copy" /\ (Goto("port", "test") \/ UNCHANGED pc)
    BY <1>7 DEF GetParam, At
  <2>2. pc'["port"] \in {"copy", "test"}
    BY <2>1, GotoMoves DEF Threads
  <2>3. mixed' = mixed \/ mixed' = [mixed EXCEPT !.rtc = ~ At("nmea", "idle")]
    BY <1>7 DEF GetParam
  <2>4. mixed'.drift = mixed.drift
    BY <1>1, <2>3, Zenon DEF Mixed
  <2>5. UNCHANGED <<status, reg, adc_hdr>> /\ pc'["net"] = pc["net"]
    BY <1>7, PortMoves DEF GetParam, Port
  <2> QED
    BY <1>6, <2>1, <2>2, <2>4, <2>5
<1>8. CASE Sync \/ Decide \/ Data
  <2>1. /\ pc["port"] \in {"test", "decide", "data"}
        /\ \E l \in {"status", "data", "copy", "drift_lo"} : Goto("port", l)
    BY <1>8 DEF Sync, Decide, Data, At
  <2>2. pc'["port"] \in {"status", "data", "copy", "drift_lo"}
    BY <2>1, GotoMoves DEF Threads
  <2>3. UNCHANGED <<status, reg, adc_hdr, mixed>>
    BY <1>8 DEF Sync, Decide, Data
  <2>4. pc'["net"] = pc["net"]
    BY <1>8, PortMoves DEF Port
  <2> QED
    BY <1>6, <2>1, <2>2, <2>3, <2>4
<1>9. CASE Start \/ Request \/ CopyStatus \/ SendTo
  <2>1. UNCHANGED pc \/ \E l \in {"drift_lo", "copy", "answer", "idle"} : Goto("net", l)
    BY <1>9 DEF Start, Request, CopyStatus, SendTo
  <2>2. pc'["net"] = pc["net"] \/ pc'["net"] \notin {"set lo", "set hi"}
    BY <2>1, GotoMoves DEF Threads
  <2>3. UNCHANGED <<status, reg, adc_hdr>>
    BY <1>9 DEF Start, Request, CopyStatus, SendTo
  <2>4. pc'["port"] = pc["port"] /\ left'["port"] = left["port"] /\ mixed'.drift = mixed.drift
    BY <1>9, NetMoves DEF Net
  <2> QED
    BY <1>6, <2>2, <2>3, <2>4
<1>10. CASE Nmea
  BY <1>6, <1>10, NmeaMoves
<1>11. CASE SetUp \/ UNCHANGED vars
  BY <1>6, <1>11 DEF SetUp, vars
<1> QED
  BY <1>2, <1>3, <1>4, <1>5, <1>7, <1>8, <1>9, <1>10, <1>11 DEF Next, Port, Net

LEMMA DriftCorrect == Spec => [](TypeOK /\ OneDrift)
<1>1. Init => TypeOK /\ OneDrift
  <2> SUFFICES ASSUME Init PROVE TypeOK /\ OneDrift
    OBVIOUS
  <2>1. /\ pc["port"] = "copy" /\ pc["net"] = "idle" /\ status["drift"] = 0
        /\ adc_hdr.lo = 0 /\ adc_hdr.hi = 0
    BY DEF Init, Threads, Parts
  <2> QED
    BY <2>1, InitType DEF OneDrift
<1>2. TypeOK /\ OneDrift /\ [Next]_vars => (TypeOK /\ OneDrift)'
  BY NextType, OneDriftInv
<1> QED
  BY <1>1, <1>2, PTL DEF Spec

(* When a packet is taken, both halves of the drift in the header of a     *)
(* data file are of the last status (log.c, mythreads.c:302-303), unless a *)
(* client's start was making the header meanwhile; for any number of       *)
(* statuses and requests.                                                  *)
THEOREM LastDrift == Spec => []DriftOfLastStatus
<1>1. OneDrift => DriftOfLastStatus
  BY DEF OneDrift, DriftOfLastStatus, At
<1> QED
  BY <1>1, DriftCorrect, PTL

-----------------------------------------------------------------------------
(* The answers of the device, and what changing a bit of one does.          *)

StMain(s) == IF s THEN STATUS_DEV_SET ELSE 0

LEMMA TwoBytes ==
  ASSUME NEW n, n \in Nat, n < 65536
  PROVE  \E l, h \in Byte : l = n % 256 /\ h = n \div 256 /\ n = 256 * h + l
<1>1. PICK h \in Nat, l \in Nat : h = n \div 256 /\ l = n % 256 /\ n = 256 * h + l /\ l < 256
  BY SMT
<1>2. h < 256
  BY <1>1
<1>3. h \in Byte /\ l \in Byte
  BY <1>1, <1>2 DEF Byte
<1> QED
  BY <1>1, <1>3

(* The length of a status in two bytes.                                     *)
LEMMA StatusLength ==
  /\ StatusSize \in Nat /\ 11 <= StatusSize
  /\ \E l, h \in Byte : /\ l = (StatusSize - 4) % 256 /\ h = (StatusSize - 4) \div 256
                        /\ StatusSize - 4 = 256 * h + l
<1>1. StatusSize \in Nat /\ 11 <= StatusSize /\ StatusSize <= 65535
  BY SizesAssumption
<1>2. StatusSize - 4 \in Nat /\ StatusSize - 4 < 65536
  BY <1>1
<1>3. \E l, h \in Byte : /\ l = (StatusSize - 4) % 256 /\ h = (StatusSize - 4) \div 256
                        /\ StatusSize - 4 = 256 * h + l
  BY <1>2, TwoBytes
<1>4. StatusSize \in Nat /\ 11 <= StatusSize
  BY <1>1
<1> QED
  BY <1>3, <1>4

(* The answers as the device sends them.                                    *)
LEMMA ReportBytes ==
  ASSUME NEW s \in BOOLEAN
  PROVE  /\ Report[s] \in Seq(Byte) /\ Len(Report[s]) = StatusSize /\ Crc(Report[s]) = 0
         /\ Report[s][1] = (StatusSize - 4) % 256 /\ Report[s][2] = (StatusSize - 4) \div 256
         /\ Report[s][3] = StMain(s) /\ Report[s][4] = 1 /\ Report[s][5] = 1
<1>1. PICK n \in Nat : StatusSize = n + 5 /\ 6 <= n
  <2>1. StatusSize \in Nat /\ 11 <= StatusSize
    BY StatusLength
  <2>2. PICK c \in Nat : c = StatusSize /\ 11 <= c
    BY <2>1, Zenon
  <2>3. c - 5 \in Nat /\ c = (c - 5) + 5 /\ 6 <= c - 5
    BY <2>2
  <2> QED
    BY <2>2, <2>3, Zenon
<1>2. PICK l \in Byte, h \in Byte : l = (StatusSize - 4) % 256 /\ h = (StatusSize - 4) \div 256
  BY StatusLength
<1>17. StatusSize - 5 = n
  BY <1>1
<1>3. PICK x : x = <<l, h, StMain(s)>>
  OBVIOUS
<1>4. PICK y : y = [k \in 1 .. n |-> 1]
  OBVIOUS
<1>5. StMain(s) \in Byte /\ 1 \in Byte
  BY DEF Byte, StMain, STATUS_DEV_SET
<1>6. x \in Seq(Byte) /\ Len(x) = 3 /\ x[1] = l /\ x[2] = h /\ x[3] = StMain(s)
  BY <1>3, <1>5
<1>7. /\ y \in Seq(Byte) /\ Len(y) = n /\ y[1] = 1 /\ y[2] = 1
  BY <1>1, <1>4, <1>5
<1>8. PICK z : z = x \o y
  OBVIOUS
<1>9. /\ z \in Seq(Byte) /\ Len(z) = n + 3 /\ z[1] = l /\ z[2] = h /\ z[3] = StMain(s)
      /\ z[4] = 1 /\ z[5] = 1
  <2>1. /\ z \in Seq(Byte) /\ Len(z) = Len(x) + Len(y)
        /\ \A i \in 1 .. Len(x) + Len(y) : z[i] = IF i <= Len(x) THEN x[i] ELSE y[i - Len(x)]
    <3>1. x \in Seq(Byte) /\ y \in Seq(Byte)
      BY <1>6, <1>7
    <3> QED
      BY <1>8, <3>1, ConcatProperties, Zenon
  <2>2. Len(z) = 3 + n /\ \A i \in 1 .. 3 + n : z[i] = IF i <= 3 THEN x[i] ELSE y[i - 3]
    <3>1. Len(x) = 3 /\ Len(y) = n
      BY <1>6, <1>7
    <3> QED
      BY <2>1, <3>1
  <2>3. /\ 1 \in 1 .. 3 + n /\ 2 \in 1 .. 3 + n /\ 3 \in 1 .. 3 + n
        /\ 4 \in 1 .. 3 + n /\ 5 \in 1 .. 3 + n /\ 3 + n = n + 3
    BY <1>1
  <2> QED
    BY <1>6, <1>7, <2>1, <2>2, <2>3
<1>10. Report[s] = add_crc16(z)
  <2>1. Report[s] = add_crc16(<<(StatusSize - 4) % 256, (StatusSize - 4) \div 256, StMain(s)>>
                             \o [k \in 1 .. StatusSize - 5 |-> 1])
    BY Zenon DEF Report, StMain
  <2>2. Report[s] = add_crc16(<<l, h, StMain(s)>> \o [k \in 1 .. n |-> 1])
    BY <1>2, <1>17, <2>1, Zenon
  <2> QED
    BY <1>3, <1>4, <1>8, <2>2, Zenon
<1>11. 1 .. 5 \subseteq 1 .. n + 3
  BY <1>1
<1>12. PICK m : m = add_crc16(z)
  OBVIOUS
<1>13. /\ m \in Seq(Byte) /\ Len(m) = Len(z) + 2 /\ Crc(m) = 0
       /\ \A i \in 1 .. Len(z) : m[i] = z[i]
  BY <1>9, <1>12, CrcAdded
<1>14. /\ 1 \in 1 .. Len(z) /\ 2 \in 1 .. Len(z) /\ 3 \in 1 .. Len(z)
       /\ 4 \in 1 .. Len(z) /\ 5 \in 1 .. Len(z)
  BY <1>9, <1>11
<1>15. m[1] = z[1] /\ m[2] = z[2] /\ m[3] = z[3] /\ m[4] = z[4] /\ m[5] = z[5]
  BY <1>13, <1>14
<1>16. Len(m) = StatusSize
  BY <1>1, <1>9, <1>13
<1> QED
  BY <1>1, <1>2, <1>9, <1>10, <1>12, <1>13, <1>15, <1>16

LEMMA ShortBytes ==
  ASSUME NEW s \in BOOLEAN
  PROVE  /\ ShortReport[s] \in Seq(Byte) /\ Len(ShortReport[s]) = ShortSize
         /\ Crc(ShortReport[s]) = 0 /\ ShortReport[s][3] = StMain(s)
<1>1. PICK x : x = <<1, 0, StMain(s)>>
  OBVIOUS
<1>2. StMain(s) \in Byte /\ 1 \in Byte /\ 0 \in Byte
  BY DEF Byte, StMain, STATUS_DEV_SET
<1>3. x \in Seq(Byte) /\ Len(x) = 3 /\ x[3] = StMain(s)
  BY <1>1, <1>2
<1>4. ShortReport[s] = add_crc16(x)
  BY <1>1, Zenon DEF ShortReport, StMain
<1>5. PICK m : m = add_crc16(x)
  OBVIOUS
<1>6. /\ m \in Seq(Byte) /\ Len(m) = Len(x) + 2 /\ Crc(m) = 0
      /\ \A i \in 1 .. Len(x) : m[i] = x[i]
  BY <1>3, <1>5, CrcAdded
<1>7. Len(m) = 5 /\ m[3] = x[3]
  BY <1>3, <1>6
<1> QED
  BY <1>3, <1>4, <1>5, <1>6, <1>7 DEF ShortSize

(* The bit p of a message is bit Low(p) of byte Place(p), and the power it  *)
(* adds to the CRC.                                                         *)
Place(p) == (p + 7) \div 8
Low(p) == (p - 1) % 8
Degree(mes, p) == 8 * (Len(mes) - Place(p)) + Low(p)

LEMMA PlaceType ==
  ASSUME NEW l \in Nat, NEW p \in 1 .. 8 * l
  PROVE  /\ Place(p) \in 1 .. l /\ Low(p) \in 0 .. 7
         /\ p = 8 * (Place(p) - 1) + Low(p) + 1
  BY SMT DEF Place, Low

LEMMA DegreeType ==
  ASSUME NEW mes \in Seq(Byte), NEW p \in 1 .. 8 * Len(mes)
  PROVE  /\ Degree(mes, p) \in Nat /\ Degree(mes, p) < 8 * Len(mes)
         /\ \A q \in 1 .. 8 * Len(mes) : Degree(mes, q) = Degree(mes, p) => q = p
<1>1. PICK l \in Nat : l = Len(mes)
  OBVIOUS
<1>2. PICK q1 \in 1 .. l, b1 \in 0 .. 7 :
        q1 = Place(p) /\ b1 = Low(p) /\ p = 8 * (q1 - 1) + b1 + 1
  BY <1>1, PlaceType
<1>3. PICK d \in Nat : d = 8 * (l - q1) + b1 /\ d < 8 * l
  <2>1. 8 * (l - q1) + b1 \in Nat /\ 8 * (l - q1) + b1 < 8 * l
    OBVIOUS
  <2> QED
    BY <2>1, Zenon
<1>4. Degree(mes, p) = d
  BY <1>1, <1>2, <1>3, Zenon DEF Degree
<1>5. ASSUME NEW q \in 1 .. 8 * Len(mes), Degree(mes, q) = Degree(mes, p)
      PROVE  q = p
  <2>1. PICK q2 \in 1 .. l, b2 \in 0 .. 7 :
          q2 = Place(q) /\ b2 = Low(q) /\ q = 8 * (q2 - 1) + b2 + 1
    BY <1>1, PlaceType
  <2>2. Degree(mes, q) = 8 * (l - q2) + b2
    BY <1>1, <2>1, Zenon DEF Degree
  <2>3. 8 * (l - q1) + b1 = 8 * (l - q2) + b2
    BY <1>3, <1>4, <1>5, <2>2
  <2>4. q1 = q2 /\ b1 = b2
    BY <2>3
  <2> QED
    BY <1>2, <2>1, <2>4
<1> QED
  BY <1>1, <1>3, <1>4, <1>5

LEMMA FlipBitType ==
  ASSUME NEW mes \in Seq(Byte), NEW p \in 1 .. 8 * Len(mes)
  PROVE  /\ FlipBit(mes, p) = Changed(mes, Place(p), Low(p))
         /\ Place(p) \in 1 .. Len(mes) /\ Low(p) \in 0 .. 7
         /\ FlipBit(mes, p) \in Seq(Byte) /\ Len(FlipBit(mes, p)) = Len(mes)
<1>1. Place(p) \in 1 .. Len(mes) /\ Low(p) \in 0 .. 7
  <2>1. Len(mes) \in Nat
    OBVIOUS
  <2> QED
    BY <2>1, PlaceType
<1>2. Power[Low(p)] = 2^Low(p)
  BY <1>1, PowerBits
<1>3. FlipBit(mes, p) = Changed(mes, Place(p), Low(p))
  BY <1>2, Zenon DEF FlipBit, Changed, Place, Low
<1>4. PICK q \in 1 .. Len(mes), b \in 0 .. 7 : q = Place(p) /\ b = Low(p)
  BY <1>1
<1>5. Changed(mes, q, b) \in Seq(Byte) /\ Len(Changed(mes, q, b)) = Len(mes)
  BY ChangedType
<1> QED
  BY <1>1, <1>3, <1>4, <1>5, Zenon

LEMMA CrcFlipBit ==
  ASSUME NEW mes \in Seq(Byte), 8 * Len(mes) <= Order, NEW p \in 1 .. 8 * Len(mes)
  PROVE  /\ Crc(FlipBit(mes, p)) = Xor(Crc(mes), Power[Degree(mes, p)])
         /\ Degree(mes, p) < Order
<1>1. Degree(mes, p) < Order /\ Degree(mes, p) <= Last
  <2>1. PICK d \in Nat : d = Degree(mes, p) /\ d < 8 * Len(mes)
    BY DegreeType
  <2> QED
    BY <2>1, OrderIs, LastIs
<1>2. PICK q \in 1 .. Len(mes), b \in 0 .. 7 : q = Place(p) /\ b = Low(p)
  BY FlipBitType
<1>3. Degree(mes, p) = 8 * (Len(mes) - q) + b
  BY <1>2, Zenon DEF Degree
<1>4. Crc(Changed(mes, q, b)) = Xor(Crc(mes), Power[Degree(mes, p)])
  BY <1>1, <1>3, CrcChanged
<1>5. FlipBit(mes, p) = Changed(mes, q, b)
  BY <1>2, FlipBitType
<1> QED
  BY <1>1, <1>4, <1>5

(* The same bit, twice.                                                     *)
LEMMA FlipBitBack ==
  ASSUME NEW mes \in Seq(Byte), NEW p \in 1 .. 8 * Len(mes)
  PROVE  FlipBit(FlipBit(mes, p), p) = mes
<1>1. PICK q \in 1 .. Len(mes), b \in 0 .. 7 : q = Place(p) /\ b = Low(p)
  BY FlipBitType
<1>2. PICK new : new = FlipBit(mes, p)
  OBVIOUS
<1>3. new = Changed(mes, q, b) /\ new \in Seq(Byte) /\ Len(new) = Len(mes)
  BY <1>1, <1>2, FlipBitType
<1>4. FlipBit(new, p) = Changed(new, q, b)
  BY <1>1, <1>3, FlipBitType
<1>5. PICK back : back = Changed(new, q, b)
  OBVIOUS
<1>6. /\ new[q] = Xor(mes[q], Power[b])
      /\ \A i \in 1 .. Len(mes) : i # q => new[i] = mes[i]
  BY <1>3, ChangedType
<1>7. /\ back \in Seq(Byte) /\ Len(back) = Len(mes)
      /\ back[q] = Xor(new[q], Power[b])
      /\ \A i \in 1 .. Len(mes) : i # q => back[i] = new[i]
  <2>1. q \in 1 .. Len(new)
    BY <1>3
  <2>2. /\ Changed(new, q, b) \in Seq(Byte) /\ Len(Changed(new, q, b)) = Len(new)
        /\ Changed(new, q, b)[q] = Xor(new[q], Power[b])
        /\ \A i \in 1 .. Len(new) : i # q => Changed(new, q, b)[i] = new[i]
    BY <1>3, <2>1, ChangedType
  <2> QED
    BY <1>3, <1>5, <2>2
<1>8. IsWord(mes[q]) /\ IsWord(Power[b]) /\ IsWord(0)
  <2>1. mes[q] \in Byte
    OBVIOUS
  <2>2. Power[b] \in Byte
    BY PowerBits
  <2>3. 0 \in Byte
    BY DEF Byte
  <2> QED
    BY <2>1, <2>2, <2>3, ByteWord
<1>9. Xor(Xor(mes[q], Power[b]), Power[b]) = Xor(mes[q], Xor(Power[b], Power[b]))
  BY <1>8, XorLawful DEF Lawful
<1>10. back[q] = mes[q]
  BY <1>6, <1>7, <1>8, <1>9, ZeroWord
<1>11. \A i \in 1 .. Len(mes) : back[i] = mes[i]
  BY <1>6, <1>7, <1>10
<1>12. back = mes
  BY <1>7, <1>11
<1> QED
  BY <1>2, <1>4, <1>5, <1>12

-----------------------------------------------------------------------------
(* What the CRC detects.                                                    *)

(* Messages with up to k bits changed, for every k up to n.                 *)
ByFlips(f, mes, n) ==
  f = [k \in 0 .. n |->
         IF k = 0 THEN {mes} ELSE f[k - 1] \cup FlipOne(f[k - 1], Len(mes))]

LEMMA ByFlipsExists ==
  ASSUME NEW mes, NEW n0 \in Nat
  PROVE  \E f : ByFlips(f, mes, n0)
<1> DEFINE P(n) == \E f : ByFlips(f, mes, n)
           S == {n \in Nat : ~ P(n)}
           More(M) == M \cup FlipOne(M, Len(mes))
<1> SUFFICES ASSUME S # {} PROVE FALSE
  OBVIOUS
<1>1. PICK n \in S : \A k \in S : n <= k
  <2> HIDE DEF P
  <2> QED
    BY LeastNat
<1>2. n \in Nat /\ (~ \E f : ByFlips(f, mes, n))
        /\ \A k \in Nat : k < n => \E f : ByFlips(f, mes, k)
  BY <1>1
<1> HIDE DEF S, P, More
<1>3. CASE n = 0
  <2>1. ByFlips([i \in 0 .. 0 |-> {mes}], mes, 0)
    BY DEF ByFlips
  <2> QED
    BY <1>2, <1>3, <2>1
<1>4. CASE n > 0
  <2>1. PICK k \in Nat : n = k + 1
    BY <1>2, <1>4
  <2>2. PICK f : ByFlips(f, mes, k)
    BY <1>2, <2>1
  <2> DEFINE g == [i \in 0 .. n |-> IF i = n THEN More(f[k]) ELSE f[i]]
  <2>6. f = [i \in 0 .. k |-> IF i = 0 THEN {mes} ELSE More(f[i - 1])]
    BY <2>2 DEF ByFlips, More
  <2>3. ASSUME NEW i \in 0 .. n
        PROVE  g[i] = IF i = 0 THEN {mes} ELSE More(g[i - 1])
    <3>1. CASE i = n
      BY <2>1, <3>1
    <3>2. CASE i # n
      <4>1. i \in 0 .. k /\ g[i] = f[i] /\ (i # 0 => i - 1 \in 0 .. n /\ i - 1 # n)
        BY <1>2, <2>1, <3>2
      <4>2. f[i] = IF i = 0 THEN {mes} ELSE More(f[i - 1])
        BY <2>6, <4>1
      <4> QED
        BY <4>1, <4>2
    <3> QED
      BY <3>1, <3>2
  <2>4. g = [i \in 0 .. n |-> g[i]]
    OBVIOUS
  <2> HIDE DEF g
  <2>5. g = [i \in 0 .. n |-> IF i = 0 THEN {mes} ELSE More(g[i - 1])]
    BY <2>3, <2>4
  <2>7. ByFlips(g, mes, n)
    BY <2>5 DEF ByFlips, More
  <2> QED
    BY <1>2, <2>7
<1> QED
  BY <1>2, <1>3, <1>4

LEMMA FlipsDef ==
  ASSUME NEW mes, NEW n \in Nat
  PROVE  \E f : ByFlips(f, mes, n) /\ Flips(mes, n) = f[n]
<1> DEFINE F == CHOOSE f : f = [k \in 0 .. n |->
                  IF k = 0 THEN {mes}
                  ELSE f[k - 1] \cup FlipOne(f[k - 1], Len(mes))]
<1>1. \E f : f = [k \in 0 .. n |->
                  IF k = 0 THEN {mes}
                  ELSE f[k - 1] \cup FlipOne(f[k - 1], Len(mes))]
  BY ByFlipsExists DEF ByFlips
<1>2. F = [k \in 0 .. n |->
                  IF k = 0 THEN {mes}
                  ELSE F[k - 1] \cup FlipOne(F[k - 1], Len(mes))]
  BY <1>1
<1>3. Flips(mes, n) = F[n]
  BY DEF Flips
<1> QED
  BY <1>2, <1>3 DEF ByFlips

LEMMA FlipOneMember ==
  ASSUME NEW M, NEW l, NEW x
  PROVE  x \in FlipOne(M, l) <=> \E m \in M, p \in 1 .. 8 * l : x = FlipBit(m, p)
  BY DEF FlipOne

LEMMA FlipsStep ==
  ASSUME NEW f, NEW mes, NEW n \in Nat, ByFlips(f, mes, n)
  PROVE  /\ f[0] = {mes}
         /\ \A k \in Nat : k < n => f[k + 1] = f[k] \cup FlipOne(f[k], Len(mes))
<1>1. f[0] = {mes}
  BY DEF ByFlips
<1>2. ASSUME NEW k \in Nat, k < n
      PROVE  f[k + 1] = f[k] \cup FlipOne(f[k], Len(mes))
  <2>1. k + 1 \in 0 .. n /\ k + 1 # 0 /\ (k + 1) - 1 = k
    BY <1>2
  <2>2. f = [i \in 0 .. n |-> IF i
          = 0 THEN {mes} ELSE f[i - 1] \cup FlipOne(f[i - 1], Len(mes))]
    BY DEF ByFlips
  <2> QED
    BY <2>1, <2>2
<1> QED
  BY <1>1, <1>2

LEMMA FlipOneUnion ==
  ASSUME NEW M, NEW N, NEW l
  PROVE  FlipOne(M \cup N, l) = FlipOne(M, l) \cup FlipOne(N, l)
<1>1. ASSUME NEW x
      PROVE  x \in FlipOne(M \cup N, l) <=> x \in FlipOne(M, l) \cup FlipOne(N, l)
  BY FlipOneMember
<1> QED
  BY <1>1

Messages(l) == {m \in Seq(Byte) : Len(m) = l}

LEMMA FlippingType ==
  ASSUME NEW mes \in Seq(Byte), NEW M \in SUBSET Messages(Len(mes))
  PROVE  FlipOne(M, Len(mes)) \subseteq Messages(Len(mes))
<1> SUFFICES ASSUME NEW m \in M, NEW p \in 1 .. 8 * Len(mes)
             PROVE  FlipBit(m, p) \in Messages(Len(mes))
  BY FlipOneMember
<1>1. m \in Seq(Byte) /\ Len(m) = Len(mes)
  BY DEF Messages
<1> QED
  BY <1>1, FlipBitType DEF Messages

(* Changed bits make no other than bytes.                                   *)
LEMMA FlipsType ==
  ASSUME NEW mes \in Seq(Byte), NEW n \in Nat
  PROVE  Flips(mes, n) \subseteq Messages(Len(mes))
<1>1. PICK f : ByFlips(f, mes, n) /\ Flips(mes, n) = f[n]
  BY FlipsDef
<1> DEFINE S == {k \in Nat : k <= n /\ ~ f[k] \subseteq Messages(Len(mes))}
<1>2. ASSUME S # {} PROVE FALSE
  <2>1. PICK k \in S : \A i \in S : k <= i
    <3>1. S \subseteq Nat
      OBVIOUS
    <3> HIDE DEF S
    <3> QED
      BY <1>2, <3>1, LeastNat
  <2>2. k \in Nat /\ k <= n /\ ~ f[k] \subseteq Messages(Len(mes))
    BY <2>1
  <2>3. f[0] = {mes} /\ \A i \in Nat : i < n => f[i + 1] = f[i] \cup FlipOne(f[i], Len(mes))
    BY <1>1, FlipsStep
  <2>4. CASE k = 0
    BY <2>2, <2>3, <2>4 DEF Messages
  <2>5. CASE k > 0
    <3>0. k \in Nat /\ k > 0
      BY <2>2, <2>5
    <3>1. PICK i \in Nat : k = i + 1
      <4> HIDE DEF S
      <4> QED
        BY <3>0
    <3>2. i < n /\ i \notin S
      BY <2>1, <2>2, <3>1
    <3>3. f[i] \in SUBSET Messages(Len(mes))
      BY <3>2
    <3>4. f[k] = f[i] \cup FlipOne(f[i], Len(mes))
      BY <2>3, <3>1, <3>2
    <3> QED
      BY <2>2, <3>3, <3>4, FlippingType
  <2> QED
    BY <2>2, <2>4, <2>5
<1> QED
  BY <1>1, <1>2

Once(mes) == FlipOne({mes}, Len(mes))
Twice(mes) == FlipOne(Once(mes), Len(mes))
Thrice(mes) == FlipOne(Twice(mes), Len(mes))

LEMMA FlipsUpToThree ==
  ASSUME NEW mes, NEW n \in Nat, n <= 3
  PROVE  Flips(mes, n) \subseteq {mes} \cup Once(mes) \cup Twice(mes) \cup Thrice(mes)
<1>1. PICK f : ByFlips(f, mes, n) /\ Flips(mes, n) = f[n]
  BY FlipsDef
<1> DEFINE More(M) == M \cup FlipOne(M, Len(mes))
<1>2. f[0] = {mes} /\ \A i \in Nat : i < n => f[i + 1] = More(f[i])
  BY <1>1, FlipsStep
<1> HIDE DEF More
<1>3. /\ 0 < n => f[1] = More(f[0])
      /\ 1 < n => f[2] = More(f[1])
      /\ 2 < n => f[3] = More(f[2])
  <2>1. 0 + 1 = 1 /\ 1 + 1 = 2 /\ 2 + 1 = 3
    OBVIOUS
  <2> QED
    BY <1>2, <2>1
<1>4. More({mes}) = {mes} \cup Once(mes)
  BY DEF More, Once
<1>5. More({mes} \cup Once(mes)) = {mes} \cup Once(mes) \cup Twice(mes)
  <2>1. FlipOne({mes} \cup Once(mes), Len(mes)) = Once(mes) \cup Twice(mes)
    BY FlipOneUnion DEF Once, Twice
  <2> QED
    BY <2>1 DEF More
<1>7. More({mes} \cup Once(mes) \cup Twice(mes))
        = {mes} \cup Once(mes) \cup Twice(mes) \cup Thrice(mes)
  <2>1. FlipOne({mes} \cup Once(mes), Len(mes)) = Once(mes) \cup Twice(mes)
    BY FlipOneUnion DEF Once, Twice
  <2>2. FlipOne(({mes} \cup Once(mes)) \cup Twice(mes), Len(mes))
          = FlipOne({mes} \cup Once(mes), Len(mes)) \cup FlipOne(Twice(mes), Len(mes))
    BY FlipOneUnion
  <2>3. FlipOne(({mes} \cup Once(mes)) \cup Twice(mes), Len(mes))
          = (Once(mes) \cup Twice(mes)) \cup Thrice(mes)
    BY <2>1, <2>2 DEF Thrice
  <2> QED
    BY <2>3 DEF More
<1>6. n \in {0, 1, 2, 3}
  OBVIOUS
<1>8. CASE n = 0
  BY <1>1, <1>2, <1>8
<1>9. CASE n = 1
  BY <1>1, <1>2, <1>3, <1>4, <1>9
<1>10. CASE n = 2
  <2>1. f[2] = More(f[1]) /\ f[1] = More(f[0])
    BY <1>3, <1>10
  <2> QED
    BY <1>1, <1>2, <1>4, <1>5, <1>10, <2>1
<1>11. CASE n = 3
  <2>1. f[3] = More(f[2]) /\ f[2] = More(f[1]) /\ f[1] = More(f[0])
    BY <1>3, <1>11
  <2> QED
    BY <1>1, <1>2, <1>4, <1>5, <1>7, <1>11, <2>1
<1> QED
  BY <1>6, <1>8, <1>9, <1>10, <1>11

LEMMA PowerParity ==
  ASSUME NEW k \in Nat, k < Order
  PROVE  IsWord(Power[k]) /\ Parity(Power[k]) = 1
<1>1. k <= Last
  BY OrderIs, LastIs
<1> QED
  BY <1>1, PowerType DEF PowerFact

LEMMA ParityZero == Parity(0) = 0
<1>1. IsWord(0) /\ Xor(0, 0) = 0
  BY ZeroWord DEF IsWord
<1>2. Parity(Xor(0, 0)) = Differ(Parity(0), Parity(0)) /\ Parity(0) \in {0, 1}
  BY <1>1, XorParity
<1> QED
  BY <1>1, <1>2 DEF Differ

LEMMA XorEqual ==
  ASSUME NEW a, IsWord(a), NEW b, IsWord(b), Xor(a, b) = 0
  PROVE  a = b
<1>1. Xor(Xor(a, b), b) = Xor(a, Xor(b, b)) /\ Xor(b, b) = 0 /\ Xor(a, 0) = a /\ Xor(0, b) = b
  BY XorLawful, ZeroWord DEF Lawful
<1> QED
  BY <1>1

LEMMA PowersDiffer ==
  ASSUME NEW i \in Nat, NEW j \in Nat, i < j, j < Order
  PROVE  Power[i] # Power[j]
<1>1. PICK k \in Nat : j = i + k /\ 0 < k
  <2>1. j - i \in Nat /\ j = i + (j - i) /\ 0 < j - i
    OBVIOUS
  <2> QED
    BY <2>1, Zenon
<1>2. k < Order /\ i + k <= Last
  BY <1>1, OrderIs, LastIs
<1>3. Power[k] # 1
  BY <1>1, <1>2, PowerOrder
<1> QED
  BY <1>1, <1>2, <1>3, PowerBack

(* "Detects single, double, triple errors" (utils.c:59): of a message with  *)
(* the CRC 0 that is not too long, up to three changed bits leave another   *)
(* CRC, unless they have undone each other.                                 *)
THEOREM FlipsDetected ==
  ASSUME NEW mes \in Seq(Byte), 8 * Len(mes) <= Order, Crc(mes) = 0,
         NEW n \in Nat, n <= 3, NEW m \in Flips(mes, n)
  PROVE  m = mes \/ Crc(m) # 0
<1> DEFINE Bits == 1 .. 8 * Len(mes)
           D(p) == Degree(mes, p)
<1>1. ASSUME NEW x, x \in Seq(Byte), Len(x) = Len(mes), NEW p \in Bits
      PROVE  /\ FlipBit(x, p) \in Seq(Byte) /\ Len(FlipBit(x, p)) = Len(mes)
             /\ Crc(FlipBit(x, p)) = Xor(Crc(x), Power[D(p)])
             /\ D(p) \in Nat /\ D(p) < Order
  <2>1. 8 * Len(x) <= Order /\ p \in 1 .. 8 * Len(x) /\ Degree(x, p) = D(p)
    BY <1>1 DEF Degree
  <2>2. FlipBit(x, p) \in Seq(Byte) /\ Len(FlipBit(x, p)) = Len(mes)
    BY <1>1, <2>1, FlipBitType
  <2>3. Crc(FlipBit(x, p)) = Xor(Crc(x), Power[D(p)]) /\ D(p) < Order
    BY <1>1, <2>1, CrcFlipBit
  <2>4. D(p) \in Nat
    BY <1>1, <2>1, DegreeType
  <2> QED
    BY <2>2, <2>3, <2>4
<1>2. ASSUME NEW p \in Bits
      PROVE  Crc(FlipBit(mes, p)) = Power[D(p)]
  <2>1. Crc(FlipBit(mes, p)) = Xor(0, Power[D(p)]) /\ D(p) \in Nat /\ D(p) < Order
    BY <1>1, <1>2
  <2> QED
    BY <2>1, PowerParity, ZeroWord
<1>3. ASSUME NEW p \in Bits
      PROVE  Crc(FlipBit(mes, p)) # 0
  <2>1. D(p) \in Nat /\ D(p) < Order
    BY <1>1, <1>3
  <2> QED
    BY <1>2, <1>3, <2>1, PowerParity, ParityZero
<1> HIDE DEF D
<1>4. ASSUME NEW p \in Bits, NEW q \in Bits
      PROVE  FlipBit(FlipBit(mes, p), q) = mes \/ Crc(FlipBit(FlipBit(mes, p), q)) # 0
  <2>1. CASE p = q
    BY <1>4, <2>1, FlipBitBack
  <2>2. CASE p # q
    <3>1. Crc(FlipBit(FlipBit(mes, p), q)) = Xor(Power[D(p)], Power[D(q)])
      BY <1>1, <1>2, <1>4
    <3>2. D(p) \in Nat /\ D(p) < Order /\ D(q) \in Nat /\ D(q) < Order
      BY <1>1, <1>4
    <3>3. D(p) # D(q)
      BY <1>4, <2>2, DegreeType DEF D
    <3>4. Power[D(p)] # Power[D(q)]
      <4>1. PICK i \in Nat, j \in Nat : i = D(p) /\ j = D(q) /\ i < Order /\ j < Order /\ i # j
        BY <3>2, <3>3
      <4>2. i < j \/ j < i
        BY <4>1
      <4> QED
        BY <4>1, <4>2, PowersDiffer
    <3>5. IsWord(Power[D(p)]) /\ IsWord(Power[D(q)])
      BY <3>2, PowerParity
    <3> QED
      BY <3>1, <3>4, <3>5, XorEqual
  <2> QED
    BY <2>1, <2>2
<1>5. ASSUME NEW p \in Bits, NEW q \in Bits, NEW r \in Bits
      PROVE  Crc(FlipBit(FlipBit(FlipBit(mes, p), q), r)) # 0
  <2>1. Crc(FlipBit(FlipBit(mes, p), q)) = Xor(Power[D(p)], Power[D(q)])
    BY <1>1, <1>2, <1>5
  <2>2. /\ FlipBit(mes, p) \in Seq(Byte) /\ Len(FlipBit(mes, p)) = Len(mes)
        /\ FlipBit(FlipBit(mes, p), q) \in Seq(Byte)
        /\ Len(FlipBit(FlipBit(mes, p), q)) = Len(mes)
    BY <1>1, <1>5
  <2>3. Crc(FlipBit(FlipBit(FlipBit(mes, p), q), r))
          = Xor(Xor(Power[D(p)], Power[D(q)]), Power[D(r)])
    BY <1>1, <1>5, <2>1, <2>2
  <2>4. /\ D(p) \in Nat /\ D(p) < Order /\ D(q) \in Nat /\ D(q) < Order
        /\ D(r) \in Nat /\ D(r) < Order
    BY <1>1, <1>5
  <2>5. /\ IsWord(Power[D(p)]) /\ IsWord(Power[D(q)]) /\ IsWord(Power[D(r)])
        /\ Parity(Power[D(p)]) = 1 /\ Parity(Power[D(q)]) = 1 /\ Parity(Power[D(r)]) = 1
    BY <2>4, PowerParity
  <2>6. Parity(Xor(Power[D(p)], Power[D(q)])) = 0 /\ IsWord(Xor(Power[D(p)], Power[D(q)]))
    <3>1. Differ(1, 1) = 0
      BY DEF Differ
    <3> QED
      BY <2>5, <3>1, XorParity, XorType
  <2>7. Parity(Xor(Xor(Power[D(p)], Power[D(q)]), Power[D(r)])) = 1
    <3>1. Differ(0, 1) = 1
      BY DEF Differ
    <3> QED
      BY <2>5, <2>6, <3>1, XorParity
  <2> QED
    BY <2>3, <2>7, ParityZero
<1>6. \/ m = mes
      \/ \E p \in Bits : m = FlipBit(mes, p)
      \/ \E p, q \in Bits : m = FlipBit(FlipBit(mes, p), q)
      \/ \E p, q, r \in Bits : m = FlipBit(FlipBit(FlipBit(mes, p), q), r)
  <2>1. m \in {mes} \cup Once(mes) \cup Twice(mes) \cup Thrice(mes)
    BY FlipsUpToThree
  <2>2. \A x : x \in Once(mes) => \E p \in Bits : x = FlipBit(mes, p)
    BY FlipOneMember DEF Once
  <2>3. \A x : x \in Twice(mes) => \E y \in Once(mes), p \in Bits : x = FlipBit(y, p)
    BY FlipOneMember DEF Twice
  <2>4. \A x : x \in Thrice(mes) => \E y \in Twice(mes), p \in Bits : x = FlipBit(y, p)
    BY FlipOneMember DEF Thrice
  <2> HIDE DEF Bits
  <2>8. ASSUME NEW y \in Twice(mes)
        PROVE  \E p, q \in Bits : y = FlipBit(FlipBit(mes, p), q)
    <3>1. PICK z \in Once(mes), q \in Bits : y = FlipBit(z, q)
      BY <2>3, <2>8
    <3>2. PICK p \in Bits : z = FlipBit(mes, p)
      BY <2>2, <3>1
    <3> QED
      BY <3>1, <3>2
  <2>5. CASE m \in Twice(mes)
    BY <2>5, <2>8
  <2>6. CASE m \in Thrice(mes)
    <3>1. PICK y \in Twice(mes), r \in Bits : m = FlipBit(y, r)
      BY <2>4, <2>6
    <3>2. \E p, q \in Bits : y = FlipBit(FlipBit(mes, p), q)
      BY <2>8, <3>1
    <3> QED
      BY <3>1, <3>2, Zenon
  <2>7. CASE m \in Once(mes)
    BY <2>2, <2>7, Zenon
  <2> QED
    BY <2>1, <2>5, <2>6, <2>7
<1> QED
  BY <1>3, <1>4, <1>5, <1>6

(* "... and all odd errors" (utils.c:60): a changed bit changes the parity  *)
(* of the CRC, so that after an odd number of changes, however many, it is  *)
(* not 0; the length is again that of :59.                                  *)
THEOREM OddDetected ==
  ASSUME NEW mes \in Seq(Byte), 8 * Len(mes) <= Order, Crc(mes) = 0,
         NEW n \in Nat, n % 2 = 1, NEW f, f[0] = mes,
         \A k \in Nat : k < n => \E p \in 1 .. 8 * Len(mes) : f[k + 1] = FlipBit(f[k], p)
  PROVE  Crc(f[n]) # 0
<1> DEFINE Good(k) == /\ f[k] \in Seq(Byte) /\ Len(f[k]) = Len(mes)
                      /\ IsWord(Crc(f[k])) /\ Parity(Crc(f[k])) = k % 2
           S == {k \in Nat : k <= n /\ ~ Good(k)}
<1>1. Good(0)
  BY CrcRemainder, ParityZero
<1>2. ASSUME NEW k \in Nat, k < n, Good(k)
      PROVE  Good(k + 1)
  <2>1. PICK m : m = f[k]
    OBVIOUS
  <2>2. PICK p \in 1 .. 8 * Len(mes) : f[k + 1] = FlipBit(m, p)
    BY <1>2, <2>1
  <2>3. /\ m \in Seq(Byte) /\ 8 * Len(m) <= Order /\ p \in 1 .. 8 * Len(m)
        /\ IsWord(Crc(m)) /\ Parity(Crc(m)) = k % 2
    BY <1>2, <2>1
  <2>4. FlipBit(m, p) \in Seq(Byte) /\ Len(FlipBit(m, p)) = Len(mes)
    BY <1>2, <2>1, <2>3, FlipBitType
  <2>5. PICK w : w = Power[Degree(m, p)]
    OBVIOUS
  <2>6. IsWord(w) /\ Parity(w) = 1
    <3>1. Degree(m, p) \in Nat
      BY <2>3, DegreeType
    <3>2. Degree(m, p) < Order
      BY <2>3, CrcFlipBit
    <3> QED
      BY <2>5, <3>1, <3>2, PowerParity
  <2>7. Crc(FlipBit(m, p)) = Xor(Crc(m), w)
    BY <2>3, <2>5, CrcFlipBit
  <2>8. IsWord(Crc(FlipBit(m, p)))
    BY <2>4, CrcRemainder
  <2>9. Parity(Xor(Crc(m), w)) = Differ(Parity(Crc(m)), Parity(w))
    BY <2>3, <2>6, XorParity
  <2>10. Differ(k % 2, 1) = (k + 1) % 2
    BY DEF Differ
  <2>11. Parity(Crc(FlipBit(m, p))) = (k + 1) % 2
    BY <2>3, <2>6, <2>7, <2>9, <2>10
  <2> QED
    BY <2>2, <2>4, <2>8, <2>11
<1> HIDE DEF Good
<1>3. ASSUME S # {} PROVE FALSE
  <2>1. PICK k \in S : \A i \in S : k <= i
    <3>1. S \subseteq Nat
      OBVIOUS
    <3> HIDE DEF S
    <3> QED
      BY <1>3, <3>1, LeastNat
  <2>2. k \in Nat /\ k <= n /\ ~ Good(k)
    BY <2>1
  <2>3. PICK i \in Nat : k = i + 1
    <3>1. k # 0
      BY <1>1, <2>2
    <3>2. k - 1 \in Nat /\ k = (k - 1) + 1
      BY <2>2, <3>1
    <3> HIDE DEF S
    <3> QED
      BY <3>2, Zenon
  <2>4. i < n /\ i \notin S
    BY <2>1, <2>2, <2>3
  <2> QED
    BY <1>2, <2>2, <2>3, <2>4
<1>4. Good(n)
  <2>1. n <= n
    OBVIOUS
  <2>2. n \notin S
    BY <1>3, Zenon
  <2> QED
    BY <2>1, <2>2, Zenon
<1>5. Parity(Crc(f[n])) = 1
  BY <1>4 DEF Good
<1> QED
  BY <1>5, ParityZero

-----------------------------------------------------------------------------
(* What read_any_data makes of an answer.                                   *)

(* What read_any_data makes of an answer to StatusGet.                      *)
LEMMA Sizes ==
  /\ StatusSize \in Nat /\ 11 <= StatusSize /\ StatusSize # DataSize /\ ShortSize = 5
  /\ ShortSize \notin {StatusSize, DataSize}
<1>1. /\ StatusSize \in Nat /\ DataSize \in Nat /\ 11 <= StatusSize /\ StatusSize < DataSize
  BY SizesAssumption
<1> QED
  BY <1>1 DEF ShortSize

LEMMA TestPlain ==
  ASSUME NEW mes, NEW size, size \notin {StatusSize, DataSize} \/ LengthAt(mes, 0) = size
  PROVE  test_crc16(mes, size).crc = Crc(SubSeq(mes, 1, size))
          /\ test_crc16(mes, size).mes = mes
<1>1. test_crc16(mes, size) = [crc |-> Crc(SubSeq(mes, 1, size)), mes |-> mes]
  BY Zenon DEF test_crc16
<1> QED
  BY <1>1

(* Where the patch finds the length of a status.                            *)
Found(mes) == {i \in 0 .. 9 : LengthAt(mes, i) = StatusSize}

WithLength(mes) ==
  [mes EXCEPT ![1] = (StatusSize - 4) % 256, ![2] = (StatusSize - 4) \div 256]

LEMMA TestPatched ==
  ASSUME NEW mes, LengthAt(mes, 0) # StatusSize
  PROVE  /\ test_crc16(mes, StatusSize).crc = 0
         /\ \A first \in Found(mes) :
              (\A i \in Found(mes) : first <= i) =>
                test_crc16(mes, StatusSize).mes = WithLength(Moved(mes, StatusSize, first))
<1> DEFINE at == Found(mes)
           first == CHOOSE i \in at : \A j \in at : i <= j
           moved == IF at = {} THEN mes ELSE Moved(mes, StatusSize, first)
<1>1. test_crc16(mes, StatusSize) = [crc |-> 0, mes |-> WithLength(moved)]
  <2>1. /\ ~ (StatusSize \notin {StatusSize, DataSize} \/ LengthAt(mes, 0) = StatusSize)
        /\ ~ (at = {} /\ StatusSize = DataSize)
    BY Sizes
  <2> QED
    BY <2>1, Zenon DEF test_crc16, Found, WithLength
<1>2. ASSUME NEW i \in at, \A j \in at : i <= j
      PROVE  first = i
  <2>1. first \in at /\ \A j \in at : first <= j
    BY <1>2
  <2>2. at \subseteq Int
    BY DEF Found
  <2>3. first <= i /\ i <= first
    BY <1>2, <2>1
  <2> HIDE DEF first
  <2> QED
    BY <2>1, <2>2, <2>3, <1>2
<1> HIDE DEF first
<1>3. ASSUME NEW i \in at, \A j \in at : i <= j
      PROVE  moved = Moved(mes, StatusSize, i)
  BY <1>2, <1>3, Zenon
<1> QED
  BY <1>1, <1>3

LEMMA ReadWhole ==
  ASSUME NEW read \in Seq(Byte), Len(read) = StatusSize, LengthAt(read, 0) = StatusSize
  PROVE  /\ read_any_data(read, StatusSize).ok <=> Crc(read) = 0
         /\ read_any_data(read, StatusSize).buf = read
<1>1. PICK n \in Nat : n = StatusSize /\ 11 <= n /\ n # DataSize
  BY Sizes
<1>2. read \o [k \in 1 .. n - n |-> 0] = read
  <2>1. [k \in 1 .. n - n |-> 0] = << >>
    OBVIOUS
  <2> QED
    BY <2>1
<1>3. SubSeq(read, 1, n) = read
  BY <1>1
<1>4. test_crc16(read, n).crc = Crc(read) /\ test_crc16(read, n).mes = read
  <2>1. LengthAt(read, 0) = n
    BY <1>1
  <2>2. n \notin {StatusSize, DataSize} \/ LengthAt(read, 0) = n
    BY <2>1
  <2>3. test_crc16(read, n).crc = Crc(SubSeq(read, 1, n)) /\ test_crc16(read, n).mes = read
    BY <2>2, TestPlain, Zenon
  <2> QED
    BY <1>3, <2>3
<1>5. ~ (n < n)
  OBVIOUS
<1>6. /\ read_any_data(read, n).ok <=> ~ Refused(read, n, test_crc16(read, n))
      /\ read_any_data(read, n).buf = test_crc16(read, n).mes
  BY <1>1, <1>2, <1>5, Zenon DEF read_any_data
<1> QED
  BY <1>1, <1>4, <1>5, <1>6 DEF Refused

Zeros == [k \in 1 .. StatusSize - ShortSize |-> 0]

LEMMA ReadShort ==
  ASSUME NEW read \in Seq(Byte), Len(read) = ShortSize
  PROVE  /\ read_any_data(read, StatusSize).ok <=> Crc(read) = 0
         /\ read_any_data(read, StatusSize).buf = read \o Zeros
<1>1. PICK n \in Nat : n = StatusSize /\ 11 <= n /\ n # DataSize
  BY Sizes
<1>2. PICK buf : buf = read \o Zeros
  OBVIOUS
<1>3. SubSeq(buf, 1, ShortSize) = read
  <2>1. Zeros \in Seq({0})
    BY <1>1 DEF Zeros, ShortSize
  <2>2. 0 \in Byte
    BY DEF Byte
  <2>3. Zeros \in Seq(Byte)
    BY <2>1, <2>2
  <2> HIDE DEF Zeros
  <2>4. PICK z : z = Zeros
    OBVIOUS
  <2>5. buf = read \o z /\ z \in Seq(Byte) /\ Len(read) = 5
    BY <1>2, <2>3, <2>4 DEF ShortSize
  <2>6. SubSeq(buf, 1, 5) = read
    <3>1. Len(buf) = 5 + Len(z) /\ Len(z) \in Nat /\ buf \in Seq(Byte)
      <4>1. buf \in Seq(Byte) /\ Len(buf) = Len(read) + Len(z)
        BY <2>5, ConcatProperties, Zenon
      <4> QED
        BY <2>5, <4>1
    <3>2. \A i \in 1 .. 5 : buf[i] = read[i]
      <4>1. \A i \in 1 .. Len(read) + Len(z) :
              buf[i] = IF i <= Len(read) THEN read[i] ELSE z[i - Len(read)]
        BY <2>5, ConcatProperties, Zenon
      <4> QED
        BY <2>5, <3>1, <4>1
    <3>3. /\ SubSeq(buf, 1, 5) \in Seq(Byte) /\ Len(SubSeq(buf, 1, 5)) = 5
          /\ \A i \in 1 .. 5 : SubSeq(buf, 1, 5)[i] = buf[i]
      BY <3>1
    <3>4. PICK t : t = SubSeq(buf, 1, 5)
      OBVIOUS
    <3>5. t = read
      <4>1. t \in Seq(Byte) /\ Len(t) = 5 /\ read \in Seq(Byte) /\ Len(read) = 5
        BY <2>5, <3>3, <3>4
      <4>2. \A i \in 1 .. 5 : t[i] = read[i]
        BY <3>2, <3>3, <3>4
      <4> QED
        BY <4>1, <4>2, SeqEqual
    <3> QED
      BY <3>4, <3>5
  <2> QED
    BY <2>6 DEF ShortSize
<1>4. test_crc16(buf, ShortSize).crc = Crc(read) /\ test_crc16(buf, ShortSize).mes = buf
  <2>1. ShortSize \notin {StatusSize, DataSize}
    BY Sizes
  <2>2. ShortSize \notin {StatusSize, DataSize} \/ LengthAt(buf, 0) = ShortSize
    BY <2>1
  <2>3. /\ test_crc16(buf, ShortSize).crc = Crc(SubSeq(buf, 1, ShortSize))
        /\ test_crc16(buf, ShortSize).mes = buf
    BY <2>2, TestPlain, Zenon
  <2> QED
    BY <1>3, <2>3
<1>5. /\ read_any_data(read, n).ok <=> ~ Refused(read, n, test_crc16(buf, ShortSize))
      /\ read_any_data(read, n).buf = test_crc16(buf, ShortSize).mes
  BY <1>1, <1>2, Zenon DEF read_any_data, Zeros
<1> QED
  BY <1>1, <1>2, <1>4, <1>5 DEF Refused

LEMMA ReadCut ==
  ASSUME NEW read, Len(read) < StatusSize, Len(read) # ShortSize
  PROVE  ~ read_any_data(read, StatusSize).ok
<1>1. PICK n \in Nat : n = StatusSize /\ n # DataSize
  BY Sizes
<1>2. \A test : Refused(read, n, test)
  BY <1>1 DEF Refused
<1> QED
  BY <1>1, <1>2, Zenon DEF read_any_data

LEMMA ReadPatched ==
  ASSUME NEW read \in Seq(Byte), Len(read) = StatusSize, LengthAt(read, 0) # StatusSize
  PROVE  /\ read_any_data(read, StatusSize).ok
         /\ read_any_data(read, StatusSize).buf = test_crc16(read, StatusSize).mes
<1>1. PICK n \in Nat : n = StatusSize /\ 11 <= n /\ n # DataSize
  BY Sizes
<1>2. read \o [k \in 1 .. n - n |-> 0] = read
  <2>1. [k \in 1 .. n - n |-> 0] = << >>
    OBVIOUS
  <2> QED
    BY <2>1
<1>3. test_crc16(read, n).crc = 0
  BY <1>1, TestPatched
<1>5. ~ (n < n)
  OBVIOUS
<1>6. /\ read_any_data(read, n).ok <=> ~ Refused(read, n, test_crc16(read, n))
      /\ read_any_data(read, n).buf = test_crc16(read, n).mes
  BY <1>1, <1>2, <1>5, Zenon DEF read_any_data
<1> QED
  BY <1>1, <1>3, <1>5, <1>6 DEF Refused

LEMMA PushesInjective ==
  ASSUME NEW r, IsWord(r), NEW s, IsWord(s), NEW b \in Byte, Pushes(r, b) = Pushes(s, b)
  PROVE  r = s
<1> DEFINE B(i) == Bit(b, i)
<1>1. ASSUME NEW x, IsWord(x), NEW y, IsWord(y), NEW i \in 0 .. 7
      PROVE  /\ IsWord(Push(x, B(i))) /\ IsWord(Push(y, B(i)))
             /\ Push(x, B(i)) = Push(y, B(i)) => x = y
  <2>1. B(i) \in {0, 1}
    BY <1>1, ByteBits
  <2> HIDE DEF B
  <2> QED
    BY <1>1, <2>1, PushType, PushInjective
<1>2. /\ Pushes(r, b) = Push(Push(Push(Push(Push(Push(Push(Push(r, B(7)), B(6)), B(5)), B(4)),
                                            B(3)), B(2)), B(1)), B(0))
      /\ Pushes(s, b) = Push(Push(Push(Push(Push(Push(Push(Push(s, B(7)), B(6)), B(5)), B(4)),
                                            B(3)), B(2)), B(1)), B(0))
  BY DEF Pushes
<1> HIDE DEF B
<1>3. PICK r1, s1 : r1 = Push(r, B(7)) /\ s1 = Push(s, B(7))
  OBVIOUS
<1>4. IsWord(r1) /\ IsWord(s1) /\ (r1 = s1 => r = s)
  BY <1>1, <1>3
<1>5. PICK r2, s2 : r2 = Push(r1, B(6)) /\ s2 = Push(s1, B(6))
  OBVIOUS
<1>6. IsWord(r2) /\ IsWord(s2) /\ (r2 = s2 => r1 = s1)
  BY <1>1, <1>4, <1>5
<1>7. PICK r3, s3 : r3 = Push(r2, B(5)) /\ s3 = Push(s2, B(5))
  OBVIOUS
<1>8. IsWord(r3) /\ IsWord(s3) /\ (r3 = s3 => r2 = s2)
  BY <1>1, <1>6, <1>7
<1>9. PICK r4, s4 : r4 = Push(r3, B(4)) /\ s4 = Push(s3, B(4))
  OBVIOUS
<1>10. IsWord(r4) /\ IsWord(s4) /\ (r4 = s4 => r3 = s3)
  BY <1>1, <1>8, <1>9
<1>11. PICK r5, s5 : r5 = Push(r4, B(3)) /\ s5 = Push(s4, B(3))
  OBVIOUS
<1>12. IsWord(r5) /\ IsWord(s5) /\ (r5 = s5 => r4 = s4)
  BY <1>1, <1>10, <1>11
<1>13. PICK r6, s6 : r6 = Push(r5, B(2)) /\ s6 = Push(s5, B(2))
  OBVIOUS
<1>14. IsWord(r6) /\ IsWord(s6) /\ (r6 = s6 => r5 = s5)
  BY <1>1, <1>12, <1>13
<1>15. PICK r7, s7 : r7 = Push(r6, B(1)) /\ s7 = Push(s6, B(1))
  OBVIOUS
<1>16. IsWord(r7) /\ IsWord(s7) /\ (r7 = s7 => r6 = s6)
  BY <1>1, <1>14, <1>15
<1>17. Push(r7, B(0)) = Push(s7, B(0))
  BY <1>2, <1>3, <1>5, <1>7, <1>9, <1>11, <1>13, <1>15
<1>18. r7 = s7
  BY <1>1, <1>16, <1>17
<1> QED
  BY <1>4, <1>6, <1>8, <1>10, <1>12, <1>14, <1>16, <1>18

(* What must be in the register for the last bytes of a cut status to leave *)
(* 0 there.                                                                 *)
LEMMA BeforeZero ==
  /\ Pushes(32641, 1) = 0 /\ Pushes(49277, 1) = 32641
  /\ Pushes(5440, 0) = 49277 /\ Pushes(59714, 8) = 49277
<1>1. Step(32641, 1) = 0
  <2>1. Step(32641, 1) = Xor(33025, 33025)
    BY DEF Step, Crc16Table
  <2>2. Xor(33025, 33025) = 0
    BY DEF Xor, Nibbles, Bit
  <2> QED
    BY <2>1, <2>2
<1>2. Step(49277, 1) = 32641
  <2>1. Step(49277, 1) = Xor(32001, 640)
    BY DEF Step, Crc16Table
  <2>2. Xor(32001, 640) = 32641
    BY DEF Xor, Nibbles, Bit
  <2> QED
    BY <2>1, <2>2
<1>3. Step(5440, 0) = 49277
  <2>1. Step(5440, 0) = Xor(16384, 32893)
    BY DEF Step, Crc16Table
  <2>2. Xor(16384, 32893) = 49277
    BY DEF Xor, Nibbles, Bit
  <2> QED
    BY <2>1, <2>2
<1>4. Step(59714, 8) = 49277
  <2>1. Step(59714, 8) = Xor(16904, 33397)
    BY DEF Step, Crc16Table
  <2>2. Xor(16904, 33397) = 49277
    BY DEF Xor, Nibbles, Bit
  <2> QED
    BY <2>1, <2>2
<1>5. IsWord(32641) /\ IsWord(49277) /\ IsWord(5440) /\ IsWord(59714)
  BY DEF IsWord
<1>6. 0 \in Byte /\ 1 \in Byte /\ 8 \in Byte
  BY DEF Byte
<1> QED
  BY <1>1, <1>2, <1>3, <1>4, <1>5, <1>6, StepRule

(* Cut after five bytes, a status of at most 16 kB does not pass for a      *)
(* short one.                                                               *)
LEMMA CutAtFive ==
  ASSUME NEW mes \in Seq(Byte), Len(mes) = 5, mes[2] < 64,
         mes[3] \in {0, STATUS_DEV_SET}, mes[4] = 1, mes[5] = 1
  PROVE  Crc(mes) # 0
<1>1. PICK f : Runs(f, mes) /\ Crc(mes) = f[5]
  BY CrcRun
<1>2. PICK l \in Byte, h \in Byte, st \in Byte :
        l = mes[1] /\ h = mes[2] /\ st = mes[3] /\ st \in {0, 8} /\ h < 64
  BY DEF STATUS_DEV_SET
<1>3. /\ 0 \in 0 .. Len(mes) /\ 1 \in 0 .. Len(mes) /\ 2 \in 0 .. Len(mes)
      /\ 3 \in 0 .. Len(mes) /\ 4 \in 0 .. Len(mes) /\ 5 \in 0 .. Len(mes)
  OBVIOUS
<1>4. /\ f[0 + 1] = Pushes(f[0], mes[0 + 1]) /\ f[1 + 1] = Pushes(f[1], mes[1 + 1])
      /\ f[2 + 1] = Pushes(f[2], mes[2 + 1]) /\ f[3 + 1] = Pushes(f[3], mes[3 + 1])
      /\ f[4 + 1] = Pushes(f[4], mes[4 + 1]) /\ f[0] = 0
  <2>1. 0 < Len(mes) /\ 1 < Len(mes) /\ 2 < Len(mes) /\ 3 < Len(mes) /\ 4 < Len(mes)
    OBVIOUS
  <2> QED
    BY <1>1, <1>3, <2>1 DEF Runs
<1>5. IsWord(f[2]) /\ IsWord(f[3]) /\ IsWord(f[4])
  BY <1>1, <1>3 DEF Runs
<1>6. /\ f[1] = Pushes(0, l) /\ f[2] = Pushes(f[1], h) /\ f[3] = Pushes(f[2], st)
      /\ f[4] = Pushes(f[3], 1) /\ f[5] = Pushes(f[4], 1)
  <2>1. 0 + 1 = 1 /\ 1 + 1 = 2 /\ 2 + 1 = 3 /\ 3 + 1 = 4 /\ 4 + 1 = 5
    OBVIOUS
  <2> QED
    BY <1>2, <1>4, <2>1
<1>7. f[2] = 256 * l + h
  <2>1. f[1] = l
    BY <1>6, ByteWord
  <2> QED
    BY <1>6, <2>1, PushesLow
<1>8. 1 \in Byte /\ IsWord(32641) /\ IsWord(49277) /\ IsWord(5440) /\ IsWord(59714)
  BY DEF Byte, IsWord
<1>9. ASSUME f[5] = 0 PROVE f[3] = 49277
  <2>1. f[4] = 32641
    BY <1>5, <1>6, <1>8, <1>9, BeforeZero, PushesInjective
  <2> QED
    BY <1>5, <1>6, <1>8, <2>1, BeforeZero, PushesInjective
<1>10. ASSUME f[3] = 49277 PROVE FALSE
  <2>1. f[2] \in {5440, 59714}
    BY <1>2, <1>5, <1>6, <1>8, <1>10, BeforeZero, PushesInjective
  <2>2. l \in Nat /\ h \in Nat
    BY DEF Byte
  <2>4. h < 64
    BY <1>2
  <2>3. 256 * l + h # 5440 /\ 256 * l + h # 59714
    BY <2>2, <2>4
  <2> QED
    BY <1>7, <2>1, <2>3
<1> QED
  BY <1>1, <1>9, <1>10

-----------------------------------------------------------------------------
(* The patch.                                                               *)

(* A status that is long enough for the patch to find st_main of, and not   *)
(* too long for its CRC; that of the recorder has 128 bytes.                *)
ShortEnough == 12 <= StatusSize /\ 8 * StatusSize <= Order

(* The bytes a and b are not its length.                                    *)
NotLength(a, b) == (a + 256 * b + 4) % 65536 # StatusSize

LEMMA TwoByteLength ==
  ASSUME NEW a \in Byte, NEW b \in Byte, NEW n \in Nat, n = a + 256 * b + 4
  PROVE  (a + 256 * b + 4) % 65536 = IF n < 65536 THEN n ELSE n - 65536
<1>1. a < 256 /\ b < 256
  BY DEF Byte
<1>2. n < 65536 \/ (65536 <= n /\ n < 131072)
  BY <1>1 DEF Byte
<1>3. n % 65536 = IF n < 65536 THEN n ELSE n - 65536
  BY <1>2
<1> QED
  BY <1>3

IsLength(l, h) == StatusSize - 4 = 256 * h + l

(* Neither the bytes before a status nor the last of them with the first of *)
(* the status are its length.                                               *)
LEMMA NotTheLength ==
  ASSUME ShortEnough, NEW j \in {0, 255}, NEW l \in Byte, NEW h \in Byte,
         IsLength(l, h)
  PROVE  ~ NotLength(l, h) /\ NotLength(j, j) /\ NotLength(j, l)
<1>1. PICK n \in Nat : n = StatusSize
  BY StatusLength
<1>2. 12 <= n /\ 8 * n <= 32767 /\ l + 256 * h + 4 = n
  BY <1>1, OrderIs DEF ShortEnough, Byte, IsLength
<1>3. j \in Byte
  BY DEF Byte
<1>4. l \in Nat /\ l < 256 /\ h \in Nat /\ h < 16
  BY <1>2 DEF Byte
<1>5. (l + 256 * h + 4) % 65536 = n
  <2>1. n < 65536
    BY <1>2
  <2> QED
    BY <1>2, <2>1, TwoByteLength
<1>6. (j + 256 * j + 4) % 65536 \in {3, 4}
  <2>1. (0 + 256 * 0 + 4) % 65536 = 4
    OBVIOUS
  <2>2. (255 + 256 * 255 + 4) % 65536 = 3
    OBVIOUS
  <2> QED
    BY <2>1, <2>2
<1>7. (j + 256 * l + 4) % 65536 # n
  <2>1. PICK m \in Nat : m = j + 256 * l + 4
    BY <1>4
  <2>2. (j + 256 * l + 4) % 65536 = IF m < 65536 THEN m ELSE m - 65536
    BY <1>3, <2>1, TwoByteLength
  <2>3. m # n /\ m - 65536 # n
    BY <1>2, <1>4, <2>1
  <2> QED
    BY <2>2, <2>3
<1>8. NotLength(j, j)
  BY <1>1, <1>2, <1>6 DEF NotLength
<1>9. NotLength(j, l)
  BY <1>1, <1>7 DEF NotLength
<1>10. ~ NotLength(l, h)
  BY <1>1, <1>5 DEF NotLength
<1> QED
  BY <1>8, <1>9, <1>10

(* z is mes behind k bytes j, as far as it is long.                         *)
IsBehind(z, mes, k, j) ==
  /\ z \in Seq(Byte) /\ Len(z) = Len(mes)
  /\ \A i \in 1 .. Len(mes) : z[i] = IF i <= k THEN j ELSE mes[i - k]

LEMMA BehindBytes ==
  ASSUME NEW mes \in Seq(Byte), NEW k \in Nat, NEW j \in Byte
  PROVE  IsBehind(Behind(mes, k, j), mes, k, j)
<1>1. PICK x : x = [i \in 1 .. k |-> j]
  OBVIOUS
<1>2. x \in Seq(Byte) /\ Len(x) = k /\ \A i \in 1 .. k : x[i] = j
  BY <1>1
<1>3. PICK z : z = x \o mes
  OBVIOUS
<1>4. /\ z \in Seq(Byte) /\ Len(z) = Len(x) + Len(mes)
      /\ \A i \in 1 .. Len(x) + Len(mes) : z[i] = IF i <= Len(x) THEN x[i] ELSE mes[i - Len(x)]
  BY <1>2, <1>3, ConcatProperties, Zenon
<1>5. PICK n \in Nat : n = Len(mes)
  OBVIOUS
<1>6. Len(z) = k + n /\ \A i \in 1 .. n : z[i] = IF i <= k THEN j ELSE mes[i - k]
  <2>1. ASSUME NEW i \in 1 .. n PROVE z[i] = IF i <= k THEN j ELSE mes[i - k]
    <3>1. i \in 1 .. Len(x) + Len(mes)
      BY <1>2, <1>5
    <3>2. z[i] = IF i <= k THEN x[i] ELSE mes[i - k]
      BY <1>2, <1>4, <3>1
    <3> QED
      BY <1>2, <3>2
  <2> QED
    BY <1>2, <1>4, <1>5, <2>1
<1>7. /\ SubSeq(z, 1, n) \in Seq(Byte) /\ Len(SubSeq(z, 1, n)) = n
      /\ \A i \in 1 .. n : SubSeq(z, 1, n)[i] = z[i]
  BY <1>4, <1>6
<1>8. Behind(mes, k, j) = SubSeq(z, 1, n)
  BY <1>1, <1>3, <1>5, Zenon DEF Behind
<1> QED
  BY <1>5, <1>6, <1>7, <1>8 DEF IsBehind

(* Behind k bytes the status s is found where it is.                        *)
FoundAt(read, k, s) ==
  /\ read \in Seq(Byte) /\ Len(read) = StatusSize /\ read[k + 3] = StMain(s)
  /\ LengthAt(read, 0) # StatusSize
  /\ k \in Found(read) /\ \A i \in Found(read) : k <= i

LEMMA ShiftFound ==
  ASSUME ShortEnough, NEW s \in BOOLEAN, NEW k \in 1 .. 9, NEW j \in {0, 255},
         NEW read, read = Behind(Report[s], k, j)
  PROVE  FoundAt(read, k, s)
<1>0. PICK mes : mes = Report[s]
  OBVIOUS
<1>1. read = Behind(mes, k, j)
  BY <1>0
<1>2. PICK n \in Nat : n = StatusSize
  BY StatusLength
<1>3. 12 <= n
  BY <1>2 DEF ShortEnough
<1>4. PICK l \in Byte, h \in Byte :
        /\ l = (StatusSize - 4) % 256 /\ h = (StatusSize - 4) \div 256
        /\ StatusSize - 4 = 256 * h + l
  BY StatusLength
<1>5. /\ mes \in Seq(Byte) /\ Len(mes) = n /\ mes[1] = l /\ mes[2] = h /\ mes[3] = StMain(s)
  <2>1. /\ mes \in Seq(Byte) /\ Len(mes) = StatusSize
        /\ mes[1] = (StatusSize - 4) % 256 /\ mes[2] = (StatusSize - 4) \div 256
        /\ mes[3] = StMain(s)
    BY <1>0, ReportBytes
  <2>2. Len(mes) = n
    BY <1>2, <2>1, Zenon
  <2>3. mes[1] = l
    BY <1>4, <2>1, Zenon
  <2>4. mes[2] = h
    BY <1>4, <2>1, Zenon
  <2> QED
    BY <2>1, <2>2, <2>3, <2>4
<1>6. j \in Byte
  BY DEF Byte
<1>7. /\ read \in Seq(Byte) /\ Len(read) = n
      /\ \A i \in 1 .. n : read[i] = IF i <= k THEN j ELSE mes[i - k]
  <2>1. k \in Nat
    OBVIOUS
  <2>3. mes \in Seq(Byte)
    BY <1>5
  <2>2. IsBehind(Behind(mes, k, j), mes, k, j)
    BY <1>6, <2>1, <2>3, BehindBytes, Zenon
  <2>4. IsBehind(read, mes, k, j)
    BY <1>1, <2>2, Zenon
  <2>5. Len(mes) = n
    BY <1>5
  <2> QED
    BY <2>4, <2>5, Zenon DEF IsBehind
<1>8. read[k + 1] = l /\ read[k + 2] = h /\ read[k + 3] = StMain(s)
  <2>1. k + 1 \in 1 .. n /\ k + 2 \in 1 .. n /\ k + 3 \in 1 .. n
    BY <1>3
  <2>2. (k + 1) - k = 1 /\ (k + 2) - k = 2 /\ (k + 3) - k = 3
    OBVIOUS
  <2>3. ~ (k + 1 <= k) /\ ~ (k + 2 <= k) /\ ~ (k + 3 <= k)
    OBVIOUS
  <2>4. read[k + 1] = mes[(k + 1) - k]
    BY <1>7, <2>1, <2>3, Zenon
  <2>5. read[k + 2] = mes[(k + 2) - k]
    BY <1>7, <2>1, <2>3, Zenon
  <2>6. read[k + 3] = mes[(k + 3) - k]
    BY <1>7, <2>1, <2>3, Zenon
  <2> QED
    BY <1>5, <2>2, <2>4, <2>5, <2>6, Zenon
<1>14. ~ NotLength(l, h) /\ NotLength(j, j) /\ NotLength(j, l)
  <2>1. IsLength(l, h)
    BY <1>4 DEF IsLength
  <2> QED
    BY <2>1, NotTheLength, Zenon
<1>9. LengthAt(read, k) = StatusSize
  BY <1>8, <1>14 DEF LengthAt, NotLength
<1>10. ASSUME NEW i \in 0 .. 9, i < k
       PROVE  LengthAt(read, i) # StatusSize
  <2>1. i + 1 \in 1 .. n /\ i + 2 \in 1 .. n /\ i + 1 <= k
    BY <1>3, <1>10
  <2>2. read[i + 1] = j
    BY <1>7, <2>1
  <2>3. read[i + 2] = j \/ read[i + 2] = l
    <3>1. CASE i + 2 <= k
      BY <1>7, <2>1, <3>1
    <3>2. CASE i + 2 = k + 1
      BY <1>8, <3>2
    <3> QED
      BY <2>1, <3>1, <3>2
  <2>4. LengthAt(read, i) = StatusSize => ~ NotLength(read[i + 1], read[i + 2])
    BY DEF LengthAt, NotLength
  <2> QED
    BY <1>14, <2>2, <2>3, <2>4, Zenon
<1>11. LengthAt(read, 0) # StatusSize
  BY <1>10
<1>12. k \in Found(read)
  BY <1>9 DEF Found
<1>13. \A i \in Found(read) : k <= i
  BY <1>10 DEF Found
<1> QED
  BY <1>2, <1>7, <1>8, <1>11, <1>12, <1>13 DEF FoundAt

(* The patch puts st_main where it belongs.                                 *)
LEMMA ShiftRead ==
  ASSUME ShortEnough, NEW s \in BOOLEAN, NEW k \in 1 .. 9, NEW j \in {0, 255},
         NEW read, read = Behind(Report[s], k, j)
  PROVE  /\ Len(read) = StatusSize /\ LengthAt(read, 0) # StatusSize
         /\ read_any_data(read, StatusSize).ok
         /\ read_any_data(read, StatusSize).buf[3] = StMain(s)
<1>1. FoundAt(read, k, s)
  BY ShiftFound
<1>2. /\ read \in Seq(Byte) /\ Len(read) = StatusSize
      /\ read[k + 3] = StMain(s)
      /\ LengthAt(read, 0) # StatusSize
      /\ k \in Found(read) /\ \A i \in Found(read) : k <= i
  BY <1>1 DEF FoundAt
<1>3. /\ read_any_data(read, StatusSize).ok
      /\ read_any_data(read, StatusSize).buf = test_crc16(read, StatusSize).mes
  BY <1>2, ReadPatched
<1>4. test_crc16(read, StatusSize).mes = WithLength(Moved(read, StatusSize, k))
  BY <1>2, TestPatched
<1>5. PICK n \in Nat : n = StatusSize /\ 12 <= n
  BY StatusLength DEF ShortEnough
<1>6. Moved(read, StatusSize, k)[3] = read[k + 3]
  <2>1. 3 \in 1 .. n /\ 3 <= n - k /\ 3 + k = k + 3
    BY <1>5
  <2> QED
    BY <1>5, <2>1 DEF Moved
<1>7. 3 \in DOMAIN Moved(read, StatusSize, k)
  BY <1>5 DEF Moved
<1>8. WithLength(Moved(read, StatusSize, k))[3] = Moved(read, StatusSize, k)[3]
  BY <1>7 DEF WithLength
<1> QED
  BY <1>2, <1>3, <1>4, <1>6, <1>8

-----------------------------------------------------------------------------
(* The outcomes.                                                            *)

LEMMA SetUpBit ==
  ASSUME NEW s \in BOOLEAN
  PROVE  (Bit(StMain(s), 3) = 1) = s
<1>1. Bit(8, 3) = 1 /\ Bit(0, 3) = 0
  <2>1. 2^3 = 8
    OBVIOUS
  <2> QED
    BY <2>1 DEF Bit
<1>2. CASE s
  BY <1>1, <1>2 DEF StMain, STATUS_DEV_SET
<1>3. CASE ~ s
  BY <1>1, <1>3 DEF StMain, STATUS_DEV_SET
<1> QED
  BY <1>2, <1>3

(* What is taken is one of the two answers.                                 *)
Right(s, buf) == buf \in {Report[s], ShortReport[s] \o Zeros}

LEMMA RightSet ==
  ASSUME NEW s \in BOOLEAN, NEW buf, Right(s, buf)
  PROVE  buf[3] = StMain(s)
<1>1. CASE buf = Report[s]
  BY <1>1, ReportBytes
<1>2. CASE buf = ShortReport[s] \o Zeros
  <2>1. PICK x : x = ShortReport[s]
    OBVIOUS
  <2>2. x \in Seq(Byte) /\ Len(x) = 5 /\ x[3] = StMain(s)
    BY <2>1, ShortBytes DEF ShortSize
  <2>3. PICK n \in Nat : n = StatusSize /\ 11 <= n
    BY Sizes
  <2>4. PICK z : z = Zeros
    OBVIOUS
  <2>5. z \in Seq(Byte)
    <3>1. 0 \in Byte /\ n - 5 \in Nat
      BY <2>3 DEF Byte
    <3> QED
      BY <2>3, <2>4, <3>1 DEF Zeros, ShortSize
  <2>6. \A i \in 1 .. Len(x) + Len(z) :
          (x \o z)[i] = IF i <= Len(x) THEN x[i] ELSE z[i - Len(x)]
    BY <2>2, <2>5, ConcatProperties
  <2>7. Len(z) \in Nat
    BY <2>5
  <2>8. (x \o z)[3] = x[3]
    <3>1. 3 \in 1 .. Len(x) + Len(z) /\ 3 <= Len(x)
      BY <2>2, <2>7
    <3> QED
      BY <2>6, <3>1, Zenon
  <2> QED
    BY <1>2, <2>1, <2>2, <2>4, <2>8
<1> QED
  BY <1>1, <1>2 DEF Right

Buffer(line) == read_any_data(line.read, StatusSize).buf

LEMMA OutcomeIs ==
  ASSUME NEW s \in BOOLEAN, NEW line
  PROVE  /\ Outcome(s, line).ok = read_any_data(line.read, StatusSize).ok
         /\ Outcome(s, line).how = line.how
         /\ Outcome(s, line).right = Right(s, Buffer(line))
         /\ Outcome(s, line).patched =
              (Len(line.read) = StatusSize /\ LengthAt(line.read, 0) # StatusSize)
         /\ Outcome(s, line).set = (Bit(Buffer(line)[3], 3) = 1)
  BY Zenon DEF Outcome, Right, Buffer, Zeros

LEMMA LineForms ==
  ASSUME NEW s \in BOOLEAN, NEW line \in Line(s)
  PROVE  \/ line.read = Report[s] /\ line.how = "whole"
         \/ line.read = ShortReport[s] /\ line.how = "short"
         \/ line.read \in Flips(Report[s], LongFlips) /\ line.how = "flips"
         \/ line.read \in Flips(ShortReport[s], ShortFlips) /\ line.how = "flips"
         \/ \E k \in 0 .. StatusSize - 1 :
              line.read = SubSeq(Report[s], 1, k) /\ line.how = "cut"
         \/ \E k \in 1 .. 9, j \in {0, 255} :
              line.read = Behind(Report[s], k, j) /\ line.how = "shift"
  BY DEF Line

LEMMA ReportLength ==
  ASSUME NEW s \in BOOLEAN
  PROVE  LengthAt(Report[s], 0) = StatusSize
<1>1. PICK l \in Byte, h \in Byte :
        /\ l = (StatusSize - 4) % 256 /\ h = (StatusSize - 4) \div 256
        /\ StatusSize - 4 = 256 * h + l
  BY StatusLength
<1>2. PICK n \in Nat : n = StatusSize /\ n < 65536
  BY SizesAssumption
<1>3. n = l + 256 * h + 4
  BY <1>1, <1>2 DEF Byte
<1>4. (l + 256 * h + 4) % 65536 = n
  BY <1>2, <1>3, TwoByteLength
<1>5. Report[s][0 + 1] = l /\ Report[s][0 + 2] = h
  BY <1>1, ReportBytes
<1> QED
  BY <1>2, <1>4, <1>5 DEF LengthAt

(* A message of the length of a status that is not patched is taken if its  *)
(* CRC is 0, as it is.                                                      *)
LEMMA LongAnswer ==
  ASSUME NEW s \in BOOLEAN, NEW line, line.read \in Seq(Byte), Len(line.read) = StatusSize,
         line.read = Report[s] \/ Crc(line.read) # 0
  PROVE  Outcome(s, line).ok => Outcome(s, line).right \/ Outcome(s, line).patched
<1>1. CASE LengthAt(line.read, 0) # StatusSize
  BY <1>1, OutcomeIs
<1>2. CASE LengthAt(line.read, 0) = StatusSize
  <2>1. /\ read_any_data(line.read, StatusSize).ok <=> Crc(line.read) = 0
        /\ Buffer(line) = line.read
    BY <1>2, ReadWhole DEF Buffer
  <2>2. line.read = Report[s] => Right(s, Buffer(line))
    BY <2>1, Zenon DEF Right
  <2>3. /\ Outcome(s, line).ok <=> Crc(line.read) = 0
        /\ Outcome(s, line).right = Right(s, Buffer(line))
    BY <2>1, OutcomeIs, Zenon
  <2> QED
    BY <2>2, <2>3, Zenon
<1> QED
  BY <1>1, <1>2

LEMMA ShortAnswer ==
  ASSUME NEW s \in BOOLEAN, NEW line, line.read \in Seq(Byte), Len(line.read) = ShortSize,
         line.read = ShortReport[s] \/ Crc(line.read) # 0
  PROVE  Outcome(s, line).ok => Outcome(s, line).right
<1>1. /\ read_any_data(line.read, StatusSize).ok <=> Crc(line.read) = 0
      /\ Buffer(line) = line.read \o Zeros
  BY ReadShort DEF Buffer
<1>2. Crc(line.read) = 0 => Right(s, Buffer(line))
  <2>1. Crc(line.read) = 0 => Buffer(line) = ShortReport[s] \o Zeros
    BY <1>1, Zenon
  <2> QED
    BY <2>1, Zenon DEF Right
<1> QED
  BY <1>1, <1>2, OutcomeIs, Zenon

LEMMA WholeAnswer ==
  ASSUME NEW s \in BOOLEAN, NEW line, line.read \in {Report[s], ShortReport[s]}
  PROVE  Outcome(s, line).ok /\ Outcome(s, line).right
<1>1. CASE line.read = Report[s]
  <2>1. /\ line.read \in Seq(Byte) /\ Len(line.read) = StatusSize /\ Crc(line.read) = 0
        /\ LengthAt(line.read, 0) = StatusSize
    BY <1>1, ReportBytes, ReportLength
  <2>2. read_any_data(line.read, StatusSize).ok /\ Buffer(line) = line.read
    BY <2>1, ReadWhole DEF Buffer
  <2>3. Right(s, Buffer(line))
    BY <1>1, <2>2, Zenon DEF Right
  <2> QED
    BY <2>2, <2>3, OutcomeIs, Zenon
<1>2. CASE line.read = ShortReport[s]
  <2>1. line.read \in Seq(Byte) /\ Len(line.read) = ShortSize /\ Crc(line.read) = 0
    BY <1>2, ShortBytes
  <2>2. read_any_data(line.read, StatusSize).ok /\ Buffer(line) = line.read \o Zeros
    BY <2>1, ReadShort DEF Buffer
  <2>3. Right(s, Buffer(line))
    BY <1>2, <2>2, Zenon DEF Right
  <2> QED
    BY <2>2, <2>3, OutcomeIs, Zenon
<1> QED
  BY <1>1, <1>2

LEMMA CutAnswer ==
  ASSUME ShortEnough, NEW s \in BOOLEAN, NEW line, NEW k \in 0 .. StatusSize - 1,
         line.read = SubSeq(Report[s], 1, k)
  PROVE  ~ Outcome(s, line).ok
<1>1. PICK n \in Nat : n = StatusSize /\ 12 <= n /\ 8 * n <= 32767
  BY StatusLength, OrderIs DEF ShortEnough
<1>2. PICK mes : mes = Report[s]
  OBVIOUS
<1>3. PICK l \in Byte, h \in Byte :
        /\ l = (StatusSize - 4) % 256 /\ h = (StatusSize - 4) \div 256
        /\ StatusSize - 4 = 256 * h + l
  BY StatusLength
<1>4. /\ mes \in Seq(Byte) /\ Len(mes) = n /\ mes[1] = l /\ mes[2] = h
      /\ mes[3] = StMain(s) /\ mes[4] = 1 /\ mes[5] = 1
  BY <1>1, <1>2, <1>3, ReportBytes
<1>5. k \in Nat /\ k < n
  BY <1>1
<1>6. /\ line.read \in Seq(Byte) /\ Len(line.read) = k
      /\ \A i \in 1 .. k : line.read[i] = mes[i]
  BY <1>2, <1>4, <1>5
<1>7. CASE k # 5
  <2>1. Len(line.read) < StatusSize /\ Len(line.read) # ShortSize
    BY <1>1, <1>5, <1>6, <1>7 DEF ShortSize
  <2> QED
    BY <2>1, ReadCut, OutcomeIs
<1>8. CASE k = 5
  <2>1. h < 64
    BY <1>1, <1>3 DEF Byte
  <2>2. mes[3] \in {0, STATUS_DEV_SET}
    BY <1>4 DEF StMain
  <2>3. /\ line.read[2] = h /\ line.read[3] = mes[3] /\ line.read[4] = 1 /\ line.read[5] = 1
    <3>1. 2 \in 1 .. k /\ 3 \in 1 .. k /\ 4 \in 1 .. k /\ 5 \in 1 .. k
      BY <1>8
    <3> QED
      BY <1>4, <1>6, <3>1
  <2>4. PICK read : read = line.read
    OBVIOUS
  <2>5. Crc(read) # 0
    BY <1>6, <1>8, <2>1, <2>2, <2>3, <2>4, CutAtFive
  <2>6. line.read \in Seq(Byte) /\ Len(line.read) = ShortSize
    BY <1>6, <1>8 DEF ShortSize
  <2>7. read_any_data(line.read, StatusSize).ok <=> Crc(line.read) = 0
    BY <2>6, ReadShort
  <2> QED
    BY <2>4, <2>5, <2>7, OutcomeIs
<1> QED
  BY <1>7, <1>8

(* Nor need it be less damaged than three bits.                            *)
Detectable == ShortEnough /\ LongFlips <= 3 /\ ShortFlips <= 3

(* A status behind bytes that are not of it.                                *)
LEMMA Shifted ==
  ASSUME ShortEnough, NEW s \in BOOLEAN, NEW a \in Outcomes[s], a.how = "shift"
  PROVE  a.ok /\ a.patched /\ a.set = s
<1>1. PICK line \in Line(s) : a = Outcome(s, line)
  BY Zenon DEF Outcomes
<1>2. line.how = "shift"
  BY <1>1, OutcomeIs
<1>3. PICK k \in 1 .. 9, j \in {0, 255} : line.read = Behind(Report[s], k, j)
  BY <1>2, LineForms
<1>4. /\ Len(line.read) = StatusSize /\ LengthAt(line.read, 0) # StatusSize
      /\ read_any_data(line.read, StatusSize).ok
      /\ Buffer(line)[3] = StMain(s)
  BY <1>3, ShiftRead DEF Buffer
<1>5. a.ok /\ a.patched
  BY <1>1, <1>4, OutcomeIs, Zenon
<1>6. PICK b : b = Bit(Buffer(line)[3], 3)
  OBVIOUS
<1>7. a.set = (b = 1)
  <2>1. PICK o : o = Outcome(s, line)
    OBVIOUS
  <2>2. o.set = (b = 1)
    <3>1. Outcome(s, line).set = (Bit(Buffer(line)[3], 3) = 1)
      BY OutcomeIs
    <3> QED
      BY <1>6, <2>1, <3>1, Zenon
  <2> QED
    BY <1>1, <2>1, <2>2
<1>8. (b = 1) = s
  BY <1>4, <1>6, SetUpBit
<1> QED
  BY <1>5, <1>7, <1>8

(* Of each answer, damaged or not.                                          *)
LEMMA Damage ==
  ASSUME Detectable, NEW s \in BOOLEAN, NEW a \in Outcomes[s]
  PROVE  /\ a.ok => a.right \/ a.patched
         /\ a.how \in {"whole", "short"} => a.ok /\ a.right
         /\ a.right => a.set = s
<1>1. PICK line \in Line(s) : a = Outcome(s, line)
  BY Zenon DEF Outcomes
<1>2. a.how = line.how
  BY <1>1, OutcomeIs
<1>3. a.right => a.set = s
  <2>1. ASSUME a.right PROVE a.set = s
    <3>1. Right(s, Buffer(line))
      <4>1. Outcome(s, line).right
        BY <1>1, <2>1, Zenon
      <4>2. Outcome(s, line).right = Right(s, Buffer(line))
        BY OutcomeIs, Zenon
      <4> QED
        BY <4>1, <4>2, Zenon
    <3>3. a.set = (Bit(Buffer(line)[3], 3) = 1)
      <4>1. PICK o : o = Outcome(s, line)
        OBVIOUS
      <4>2. Outcome(s, line).set = (Bit(Buffer(line)[3], 3) = 1)
        BY OutcomeIs
      <4> QED
        BY <1>1, <4>1, <4>2
    <3>2. Buffer(line)[3] = StMain(s)
      BY <3>1, RightSet
    <3> QED
      BY <3>2, <3>3, SetUpBit
  <2> QED
    BY <2>1
<1>4. CASE line.read = Report[s] /\ line.how = "whole"
  BY <1>1, <1>2, <1>3, <1>4, WholeAnswer
<1>5. CASE line.read = ShortReport[s] /\ line.how = "short"
  BY <1>1, <1>2, <1>3, <1>5, WholeAnswer
<1>6. CASE line.read \in Flips(Report[s], LongFlips) /\ line.how = "flips"
  <2>1. Report[s] \in Seq(Byte) /\ Len(Report[s]) = StatusSize /\ Crc(Report[s]) = 0
    BY ReportBytes
  <2>2. LongFlips \in Nat /\ LongFlips <= 3 /\ 8 * Len(Report[s]) <= Order
    BY <2>1, BoundsAssumption DEF Detectable, ShortEnough
  <2>3. line.read \in Seq(Byte) /\ Len(line.read) = StatusSize
    <3>1. line.read \in Messages(Len(Report[s]))
      BY <1>6, <2>1, <2>2, FlipsType
    <3> QED
      BY <2>1, <3>1 DEF Messages
  <2>4. line.read = Report[s] \/ Crc(line.read) # 0
    BY <1>6, <2>1, <2>2, FlipsDetected
  <2> QED
    BY <1>1, <1>2, <1>3, <1>6, <2>3, <2>4, LongAnswer
<1>7. CASE line.read \in Flips(ShortReport[s], ShortFlips) /\ line.how = "flips"
  <2>1. /\ ShortReport[s] \in Seq(Byte) /\ Len(ShortReport[s]) = ShortSize
        /\ Crc(ShortReport[s]) = 0
    BY ShortBytes
  <2>2. ShortFlips \in Nat /\ ShortFlips <= 3 /\ 8 * Len(ShortReport[s]) <= Order
    BY <2>1, BoundsAssumption, OrderIs DEF Detectable, ShortSize
  <2>3. line.read \in Seq(Byte) /\ Len(line.read) = ShortSize
    <3>1. line.read \in Messages(Len(ShortReport[s]))
      BY <1>7, <2>1, <2>2, FlipsType
    <3> QED
      BY <2>1, <3>1 DEF Messages
  <2>4. line.read = ShortReport[s] \/ Crc(line.read) # 0
    BY <1>7, <2>1, <2>2, FlipsDetected
  <2> QED
    BY <1>1, <1>2, <1>3, <1>7, <2>3, <2>4, ShortAnswer
<1>8. CASE \E k \in 0 .. StatusSize - 1 : line.read = SubSeq(Report[s], 1, k)
        /\ line.how = "cut"
  <2>1. PICK k \in 0 .. StatusSize - 1 : line.read = SubSeq(Report[s], 1, k)
    BY <1>8
  <2>2. ~ a.ok
    BY <1>1, <2>1, CutAnswer DEF Detectable
  <2> QED
    BY <1>2, <1>3, <1>8, <2>2
<1>9. CASE line.how = "shift"
  <2>1. a.ok /\ a.patched
    BY <1>2, <1>9, Shifted DEF Detectable
  <2> QED
    BY <1>2, <1>3, <1>9, <2>1
<1> QED
  BY <1>4, <1>5, <1>6, <1>7, <1>8, <1>9, LineForms

(* Whatever the state, CrcRight compares the two of messages of bytes.     *)
LEMMA CrcRightAlways == CrcRight
<1>1. ASSUME NEW b \in Byte PROVE <<b, 0, 0>> \in Seq(Byte)
  <2>1. 0 \in Byte
    BY DEF Byte
  <2> QED
    BY <2>1
<1>2. PICK mes : mes = Report[TRUE]
  OBVIOUS
<1>3. mes \in Seq(Byte)
  BY <1>2, ReportBytes
<1>4. 1 \in Nat
  OBVIOUS
<1>5. \A m \in Flips(mes, 1) : m \in Seq(Byte)
  BY <1>3, <1>4, FlipsType DEF Messages
<1> QED
  BY <1>1, <1>2, <1>5, CrcRemainder DEF CrcRight

(* The CRC of utils.c is the remainder by its polynomial, of whatever      *)
(* StatusGet may read.                                                     *)
THEOREM CrcDefined == Spec => []CrcIsRemainder
<1>1. TypeOK => CrcIsRemainder
  BY CrcRightAlways DEF CrcIsRemainder
<1> QED
  BY <1>1, TypeCorrect, PTL

(* However a status is cut, shifted or changed in up to three bits, what   *)
(* StatusGet takes is what the device sent, or came by the patch of        *)
(* test_crc16; and an undamaged one is taken.                              *)
THEOREM DamageIsDetected == ASSUME Detectable PROVE Spec => []DamageDetected
<1>1. TypeOK => DamageDetected
  <2> SUFFICES ASSUME set \in BOOLEAN PROVE DamageDetected
    BY DEF TypeOK
  <2> QED
    BY Damage DEF DamageDetected
<1> QED
  BY <1>1, TypeCorrect, PTL

(* Behind one to nine bytes of 0 or 255 test_crc16 finds the status: what  *)
(* is then read of the device is right.                                    *)
THEOREM ShiftIsRepaired == ASSUME ShortEnough PROVE Spec => []ShiftRepaired
<1>1. TypeOK => ShiftRepaired
  <2> SUFFICES ASSUME set \in BOOLEAN PROVE ShiftRepaired
    BY DEF TypeOK
  <2> QED
    BY Shifted DEF ShiftRepaired
<1> QED
  BY <1>1, TypeCorrect, PTL

(* The CRC is worth its name: what is taken and was not patched says of    *)
(* the device what it is.                                                  *)
Detects == \A s \in BOOLEAN : \A a \in Accepted(s) : a.set /\ ~ a.patched => s

LEMMA CrcDetects == ASSUME Detectable PROVE Detects
<1> SUFFICES ASSUME NEW s \in BOOLEAN, NEW a \in Accepted(s), a.set, ~ a.patched
             PROVE  s
  BY DEF Detects
<1>1. PICK o \in Outcomes[s] : o.ok /\ a = [set |-> o.set, patched |-> o.patched]
  BY DEF Accepted
<1>2. o.set /\ ~ o.patched
  BY <1>1
<1>3. o.right
  BY <1>1, <1>2, Damage
<1> QED
  BY <1>2, <1>3, Damage

-----------------------------------------------------------------------------
(* The automatic start.                                                    *)

LEMMA TakenInv == Detects /\ TypeOK /\ Taken /\ [Next]_vars => Taken'
<1> SUFFICES ASSUME Detects, TypeOK, Taken, [Next]_vars PROVE Taken'
  OBVIOUS
<1>0. /\ set \in BOOLEAN /\ got \in Seq([set : BOOLEAN, patched : BOOLEAN])
      /\ status \in [Parts -> Answers] /\ left \in [Threads -> SUBSET (Fields \cup Parts)]
  BY Zenon DEF TypeOK
<1>1. /\ set \in BOOLEAN /\ got \in Seq([set : BOOLEAN, patched : BOOLEAN])
      /\ status \in [Parts -> Answers] /\ left \in [Threads -> SUBSET (Fields \cup Parts)]
      /\ Len(got) \in Nat
  BY <1>0, LenProperties
<1>2. CASE SetUp
  BY <1>2 DEF SetUp, Taken, port
<1>3. CASE StatusGet
  <2>1. CASE /\ \E a \in Accepted(set) : got' = Append(got, a)
             /\ str' = Len(got) + 1
             /\ Goto("port", "store") /\ left' = [left EXCEPT !["port"] = Parts]
    <3>1. PICK a \in Accepted(set) : got' = Append(got, a)
      BY <2>1
    <3>2. a \in [set : BOOLEAN, patched : BOOLEAN]
      BY <1>1, AcceptedType
    <3>3. /\ Len(got') = Len(got) + 1 /\ got'[Len(got) + 1] = a
          /\ \A i \in 1 .. Len(got) : got'[i] = got[i]
      BY <1>1, <3>1, <3>2
    <3>4. a.set /\ ~ a.patched => set
      BY <1>1 DEF Detects
    <3>5. /\ pc'["port"] = "store" /\ left'["port"] = Parts /\ UNCHANGED <<set, check, status>>
      BY <1>1, <1>3, <2>1, GotoMoves DEF StatusGet, Threads
    <3>6. \A i \in 1 .. Len(got') : i \in 1 .. Len(got) \/ i = Len(got) + 1
      BY <1>1, <3>3
    <3>7. \A i \in 1 .. Len(got') : got'[i].set /\ ~ got'[i].patched => set
      BY <3>3, <3>4, <3>6 DEF Taken
    <3>8. check => set \/ \E i \in 1 .. Len(got') : got'[i].patched
      <4> SUFFICES ASSUME check, ~ set PROVE \E i \in 1 .. Len(got') : got'[i].patched
        OBVIOUS
      <4>1. PICK i \in 1 .. Len(got) : got[i].patched
        BY DEF Taken
      <4> QED
        BY <1>1, <3>3, <4>1
    <3>9. str' \in 1 .. Len(got')
      BY <1>1, <2>1, <3>3
    <3> QED
      BY <3>5, <3>7, <3>8, <3>9 DEF Taken, Parts
  <2>2. CASE Goto("port", "data") /\ UNCHANGED <<got, str, left>>
    <3>1. pc'["port"] = "data" /\ UNCHANGED <<set, check, status>>
      BY <1>3, <2>2, GotoMoves DEF StatusGet, Threads
    <3> QED
      BY <2>2, <3>1 DEF Taken
  <2> QED
    BY <1>3, <2>1, <2>2 DEF StatusGet
<1>4. CASE StoreStatus
  <2>1. PICK p \in left["port"] :
          status' = [status EXCEPT ![p] = str] /\ left'["port"] = left["port"] \ {p}
    BY <1>1, <1>4 DEF StoreStatus, Threads
  <2>2. /\ pc["port"] = "store"
        /\ pc'["port"] = IF left'["port"] = {} THEN "drift_lo" ELSE "store"
    BY <1>4, GotoMoves DEF StoreStatus, At, Threads
  <2>3. UNCHANGED <<got, set, check, str>>
    BY <1>4 DEF StoreStatus, port
  <2>4. "head" \notin left'["port"] => status'["head"] = str
    BY <1>1, <2>1, <2>2 DEF Taken, Parts
  <2> QED
    BY <2>2, <2>3, <2>4 DEF Taken
<1>5. CASE Decide
  <2>1. /\ pc["port"] = "decide" /\ pc'["port"] \in {"drift_lo", "data"}
        /\ UNCHANGED <<got, set, str, status>>
    BY <1>5, GotoMoves DEF Decide, At, Threads
  <2>2. check' => check \/ got[status["head"]].set
    BY <1>5 DEF Decide
  <2>3. check' => set \/ \E i \in 1 .. Len(got) : got[i].patched
    BY <2>1, <2>2 DEF Taken
  <2> QED
    BY <2>1, <2>3 DEF Taken
<1>6. ASSUME NEW t \in {"port", "net"}, LoadDrift(t) \/ SetDrift(t)
      PROVE  Taken'
  <2>1. UNCHANGED <<got, set, str, status, check, left>>
    BY <1>6 DEF LoadDrift, SetDrift, port
  <2>2. /\ pc[t] \in DriftSteps /\ t \in Threads
        /\ \E l \in DriftSteps \cup {"decide", "idle"} : Goto(t, l)
    BY <1>6 DEF LoadDrift, SetDrift, DriftSteps, Threads
  <2>3. /\ pc'[t] \in DriftSteps \cup {"decide", "idle"}
        /\ \A u \in Threads \ {t} : pc'[u] = pc[u]
    BY <2>2, GotoMoves
  <2> QED
    BY <2>1, <2>2, <2>3 DEF Taken, Threads, DriftSteps
<1>7. CASE /\ UNCHANGED <<got, set, str, status, check>>
           /\ \/ pc'["port"] = pc["port"] /\ left'["port"] = left["port"]
              \/ pc'["port"] \in {"copy", "test", "status", "data"}
  BY <1>7 DEF Taken
<1>8. CASE GetParam \/ Sync \/ Data
  <2>1. \/ pc["port"] = "copy" /\ UNCHANGED pc
        \/ \E l \in {"copy", "test", "status", "data"} : Goto("port", l)
    BY <1>8 DEF GetParam, Sync, Data, At
  <2>2. pc'["port"] \in {"copy", "test", "status", "data"}
    BY <2>1, GotoMoves DEF Threads
  <2>3. UNCHANGED <<got, set, str, status, check>>
    BY <1>8 DEF GetParam, Sync, Data, port
  <2> QED
    BY <1>7, <2>2, <2>3
<1>9. CASE Start \/ Request \/ CopyStatus \/ SendTo
  BY <1>7, <1>9, NetMoves DEF Net, port
<1>10. CASE Nmea
  BY <1>7, <1>10, NmeaMoves DEF port
<1>11. CASE UNCHANGED vars
  BY <1>7, <1>11 DEF vars, port
<1> QED
  BY <1>2, <1>3, <1>4, <1>5, <1>6, <1>8, <1>9, <1>10, <1>11 DEF Next, Port, Net

(* However many statuses the device sends, and whatever happens to them,   *)
(* the port thread starts a device that was not set up only on a status    *)
(* that came by the patch of test_crc16 (mythreads.c:208-212).             *)
THEOREM Justified == ASSUME Detectable PROVE Spec => []StartJustified
<1>1. Init => TypeOK /\ Taken
  <2> SUFFICES ASSUME Init PROVE TypeOK /\ Taken
    OBVIOUS
  <2>1. pc["port"] = "copy" /\ Len(got) = 0 /\ check = FALSE
    BY DEF Init, Threads
  <2> QED
    BY <2>1, InitType DEF Taken
<1>2. TypeOK /\ Taken /\ [Next]_vars => (TypeOK /\ Taken)'
  BY NextType, TakenInv, CrcDetects
<1>3. TypeOK /\ Taken => StartJustified
  BY DEF Taken, StartJustified
<1> QED
  BY <1>1, <1>2, <1>3, PTL DEF Spec

=============================================================================
