-------------------------- MODULE Recorder_proofs ---------------------------
(***************************************************************************)
(* Proofs about Recorder.tla for every packet rate, accepted or refused,   *)
(* every file length, set of client commands and set of faults, failing    *)
(* writes included: the files' descriptor and headers, then the minute     *)
(* buffers.  What calloc hands out is not lost, and with a single start no *)
(* access goes astray and the packets are recorded in order.               *)
(***************************************************************************)
EXTENDS Recorder, SequenceTheorems, TLAPS

HeapBlock == [live : BOOLEAN, data : Seq(Contents)]

(* A function on 1 .. n is a sequence of n elements.                       *)
LEMMA FunctionSeq ==
  ASSUME NEW S, NEW n \in Nat, NEW f \in [1 .. n -> S]
  PROVE  f \in Seq(S) /\ Len(f) = n
<1>1. f \in Seq(S)
  BY SeqDef
<1>2. QED
  BY <1>1, LenProperties

(* DataGet is not called once the bound is reached.                        *)
PackLeft == pc["port"] = "check" => lastPack < MaxPack

(* What a step does to pc.                                                 *)
LEMMA GotoType ==
  ASSUME NEW t \in Threads, NEW l \in Labels, pc \in [Threads -> Labels], Goto(t, l)
  PROVE  pc' \in [Threads -> Labels]
  BY DEF Goto

LEMMA ReturnType ==
  ASSUME NEW t \in Threads, pc \in [Threads -> Labels], Return(t)
  PROVE  pc' \in [Threads -> Labels]
  BY DEF Return, Goto, Labels

LEMMA InitType == Init => TypeOK
<1> SUFFICES ASSUME Init PROVE TypeOK
  OBVIOUS
<1>1. pc \in [Threads -> Labels] /\ rate \in [Threads -> Rates \cup Refused \cup {0}]
  BY DEF Init, Threads, Labels
<1>2. /\ local \in [flag : {Pong, Ping}, ptr : 0 .. Len(heap), count : Nat, i : Nat,
                    pack : Contents]
      /\ ping \in 0 .. Len(heap) /\ pong \in 0 .. Len(heap)
      /\ heap \in Seq([live : BOOLEAN, data : Seq(Contents)])
  BY EmptySeq DEF Init, Null, Contents
<1>3. dc \in Counters
  BY DEF Init, Counters
<1>4. /\ files \in Seq(Seq(Entries)) /\ open \subseteq 1 .. Len(files)
      /\ adc_fd \in {NoFile} \cup 1 .. Len(files) /\ damaged \subseteq 1 .. Len(files)
  BY EmptySeq DEF Init
<1>5. /\ dev \in {"stopped", "running"} /\ sigusr1 \in {"default", "handler", "ignore"}
      /\ lastPack \in 0 .. MaxPack /\ commands \in 0 .. MaxCommands
  BY BoundsAssumption DEF Init
<1>6. /\ dirOk \in BOOLEAN /\ check \in BOOLEAN /\ alive \in BOOLEAN
      /\ undef \in BOOLEAN /\ lostFile \in BOOLEAN
  BY Zenon DEF Init
<1>7. QED
  BY <1>1, <1>2, <1>3, <1>4, <1>5, <1>6, Zenon DEF TypeOK

(* Starting.                                                               *)
LEMMA StartType ==
  ASSUME TypeOK, NEW t \in Threads, PrepareStart(t)
  PROVE  TypeOK'
<1> USE DEF TypeOK, buffers, file, device, process, hist
<1>1. CASE CallStart(t)
  <2>1. pc' \in [Threads -> Labels]
    BY <1>1, GotoType DEF CallStart, NetStart, PortStart, StartWith, Labels
  <2>2. commands' \in 0 .. MaxCommands
    BY <1>1, BoundsAssumption DEF CallStart, NetStart, PortStart, StartWith
  <2>5. check' \in BOOLEAN
    BY <1>1, Zenon DEF CallStart, NetStart, PortStart, StartWith
  <2>3. rate' \in [Threads -> Rates \cup Refused \cup {0}]
    BY <1>1 DEF CallStart, NetStart, PortStart, StartWith
  <2>4. QED
    BY <1>1, <2>1, <2>2, <2>3, <2>5 DEF CallStart, NetStart, PortStart, StartWith
<1>2. CASE WorkDir(t)
  <2>1. pc' \in [Threads -> Labels]
    BY <1>2, GotoType, ReturnType DEF WorkDir, Labels
  <2>2. QED
    BY <1>2, <2>1 DEF WorkDir
<1>3. CASE Params(t)
  <2>1. pc' \in [Threads -> Labels]
    BY <1>3, GotoType DEF Params, Labels
  <2>2. rate[t] \in Int
    <3>1. rate[t] \in Rates \cup Refused \cup {0}
      OBVIOUS
    <3>2. 0 \in Int
      OBVIOUS
    <3>3. Rates \subseteq Int /\ Refused \subseteq Int
      <4>1. \A n \in Nat : n \in Int
        OBVIOUS
      <4>2. QED
        BY <4>1, RatesAssumption, Zenon
    <3>4. QED
      BY <3>1, <3>2, <3>3, Zenon
  <2>3. dc' \in Counters
    BY <1>3, <2>2 DEF Params, Counters
  <2>4. QED
    BY <1>3, <2>1, <2>3 DEF Params
<1>4. CASE Mempool(t)
  <2>1. pc' \in [Threads -> Labels]
    BY <1>4, GotoType, ReturnType DEF Mempool, Labels
  <2>2. QED
    BY <1>4, <2>1 DEF Mempool
<1>5. CASE Alloc(t)
  <2> DEFINE block == [live |-> TRUE, data |-> [k \in 1 .. dc.pack_in_min |-> Blank]]
  <2>1. pc' \in [Threads -> Labels]
    BY <1>5, GotoType, ReturnType DEF Alloc, Labels
  <2>2. dc.pack_in_min >= 0 => block \in HeapBlock
    <3>1. SUFFICES ASSUME dc.pack_in_min >= 0 PROVE block \in HeapBlock
      OBVIOUS
    <3>4. dc.pack_in_min \in Nat
      BY <3>1 DEF Counters
    <3>2. [k \in 1 .. dc.pack_in_min |-> Blank] \in Seq(Contents)
      BY <3>4, SeqDef DEF Contents
    <3>3. QED
      BY <3>2 DEF HeapBlock
  <2>3. heap \in Seq(HeapBlock) /\ Len(heap) \in Nat
    BY DEF HeapBlock
  <2>4. ASSUME dc.pack_in_min >= 0
        PROVE
        /\ <<block, block>> \in Seq(HeapBlock) /\ Len(<<block, block>>) = 2
        /\ heap \o <<block, block>> \in Seq(HeapBlock)
        /\ Len(heap \o <<block, block>>) = Len(heap) + 2
    BY <2>2, <2>3, <2>4, ConcatProperties
  <2>5. dc.pack_in_min >= 0 =>
          Append(heap, block) \in Seq(HeapBlock) /\ Len(Append(heap, block)) = Len(heap) + 1
    BY <2>2, <2>3
  <2>6. /\ heap' \in Seq(HeapBlock) /\ Len(heap') \in Nat /\ Len(heap) <= Len(heap')
        /\ ping' \in 0 .. Len(heap') /\ pong' \in 0 .. Len(heap')
    <3>1. CASE /\ dc.pack_in_min >= 0 /\ heap' = heap \o <<block, block>>
               /\ ping' = Len(heap) + 1 /\ pong' = Len(heap) + 2
      BY <2>3, <2>4, <3>1
    <3>2. CASE /\ dc.pack_in_min >= 0 /\ heap' = Append(heap, block)
               /\ ping' = Len(heap) + 1 /\ pong' = Null
      BY <2>3, <2>5, <3>2 DEF Null
    <3>3. CASE /\ dc.pack_in_min >= 0 /\ heap' = Append(heap, block)
               /\ ping' = Null /\ pong' = Len(heap) + 1
      BY <2>3, <2>5, <3>3 DEF Null
    <3>4. CASE heap' = heap /\ ping' = Null /\ pong' = Null
      BY <2>3, <3>4 DEF Null
    <3>5. QED
      BY <1>5, <3>1, <3>2, <3>3, <3>4 DEF Alloc
  <2>7. local'.ptr \in 0 .. Len(heap') /\ local' = local
    BY <1>5, <2>3, <2>6 DEF Alloc
  <2>8. local' \in [flag : {Pong, Ping}, ptr : 0 .. Len(heap'), count : Nat, i : Nat,
                    pack : Contents]
    BY <2>7
  <2>9. QED
    BY <1>5, <2>1, <2>6, <2>8 DEF Alloc, HeapBlock
<1>6. CASE Close(t)
  <2>1. pc' \in [Threads -> Labels]
    BY <1>6, GotoType DEF Close, TryClose, Labels
  <2>2. open' \subseteq open
    BY <1>6 DEF Close, TryClose
  <2>3. QED
    BY <1>6, <2>1, <2>2 DEF Close
<1>7. CASE Reset(t)
  <2>1. pc' \in [Threads -> Labels]
    BY <1>7, GotoType DEF Reset, Labels
  <2>2. QED
    BY <1>7, <2>1 DEF Reset
<1>8. CASE StartDevice(t)
  <2>1. pc' \in [Threads -> Labels]
    BY <1>8, GotoType, ReturnType DEF StartDevice, Labels
  <2>2. QED
    BY <1>8, <2>1 DEF StartDevice
<1>9. CASE Signal(t)
  <2>1. pc' \in [Threads -> Labels]
    BY <1>9, GotoType DEF Signal, Labels
  <2>2. QED
    BY <1>9, <2>1 DEF Signal
<1>10. CASE Zero(t)
  <2>1. pc' \in [Threads -> Labels]
    BY <1>10, ReturnType DEF Zero
  <2>2. dc' \in Counters
    BY <1>10 DEF Zero, Counters
  <2>3. QED
    BY <1>10, <2>1, <2>2 DEF Zero
<1>11. QED
  BY <1>1, <1>2, <1>3, <1>4, <1>5, <1>6, <1>7, <1>8, <1>9, <1>10 DEF PrepareStart

(* Stopping.                                                               *)
LEMMA StopType ==
  ASSUME TypeOK, PrepareStop
  PROVE  TypeOK'
<1> USE DEF TypeOK, buffers, file, device, process, hist
<1>1. CASE CallStop
  <2>1. pc' \in [Threads -> Labels]
    BY <1>1, GotoType DEF CallStop, Threads, Labels
  <2>2. commands' \in 0 .. MaxCommands
    <3>1. commands < MaxCommands /\ commands' = commands + 1
      BY <1>1, Zenon DEF CallStop
    <3>2. QED
      BY <3>1, BoundsAssumption
  <2>3. dev' \in {"stopped", "running"}
    BY <1>1 DEF CallStop
  <2>4. UNCHANGED <<rate, local, dc, buffers, file, dirOk, sigusr1, check, process,
                    lastPack, lostFile, damaged>>
    BY <1>1, Zenon DEF CallStop
  <2>5. QED
    BY <2>1, <2>2, <2>3, <2>4
<1>2. CASE StopClose
  <2>1. pc' \in [Threads -> Labels]
    BY <1>2, GotoType DEF StopClose, TryClose, Threads, Labels
  <2>2. open' \subseteq open
    BY <1>2 DEF StopClose, TryClose
  <2>3. QED
    BY <1>2, <2>1, <2>2 DEF StopClose
<1>3. CASE StopReset
  <2>1. pc' \in [Threads -> Labels]
    BY <1>3, GotoType DEF StopReset, Threads, Labels
  <2>2. QED
    BY <1>3, <2>1 DEF StopReset
<1>4. CASE Free
  <2>1. pc' \in [Threads -> Labels]
    BY <1>4, GotoType DEF Free, Threads, Labels
  <2>2. Len(heap) \in Nat /\ \A b \in 1 .. Len(heap) : heap[b] \in HeapBlock
    <3>1. heap \in Seq(HeapBlock)
      BY DEF HeapBlock
    <3>2. QED
      BY <3>1, ElementOfSeq, LenProperties
  <2>3. ASSUME NEW b \in 1 .. Len(heap)
        PROVE  [heap[b] EXCEPT !.live = FALSE] \in HeapBlock
    BY <2>2 DEF HeapBlock
  <2>4. heap' \in [1 .. Len(heap) -> HeapBlock]
    BY <1>4, <2>2, <2>3 DEF Free
  <2>5. heap' \in Seq(HeapBlock) /\ Len(heap') = Len(heap)
    BY <2>2, <2>4, FunctionSeq
  <2>6. ping' \in 0 .. Len(heap') /\ pong' \in 0 .. Len(heap')
    BY <1>4, <2>2, <2>5 DEF Free, Null
  <2>7. QED
    BY <1>4, <2>1, <2>5, <2>6 DEF Free, HeapBlock
<1>5. CASE Memset
  <2>1. pc' \in [Threads -> Labels]
    BY <1>5, GotoType DEF Memset, Threads, Labels
  <2>2. dc' \in Counters
    BY <1>5 DEF Memset, Counters
  <2>3. QED
    BY <1>5, <2>1, <2>2 DEF Memset
<1>6. CASE Ignore
  <2>1. pc' \in [Threads -> Labels]
    BY <1>6, GotoType DEF Ignore, Threads, Labels
  <2>2. QED
    BY <1>6, <2>1 DEF Ignore
<1>7. QED
  BY <1>1, <1>2, <1>3, <1>4, <1>5, <1>6 DEF PrepareStop

(* Taking packets in.                                                      *)
Locals == [flag : {Pong, Ping}, ptr : 0 .. Len(heap), count : Nat, i : Nat,
           pack : Contents]

(* The packet goes into a slot of a block.                                 *)
LEMMA StoreHeap ==
  ASSUME NEW h \in Seq(HeapBlock), NEW p \in 1 .. Len(h), NEW k \in Nat,
         k < Len(h[p].data), NEW x \in Contents
  PROVE  /\ [h EXCEPT ![p].data[k + 1] = x] \in Seq(HeapBlock)
         /\ Len([h EXCEPT ![p].data[k + 1] = x]) = Len(h)
<1> DEFINE d == h[p].data
           block == [h[p] EXCEPT !.data = [d EXCEPT ![k + 1] = x]]
<1>1. h[p] \in HeapBlock
  BY ElementOfSeq
<1>2. h[p].live \in BOOLEAN /\ d \in Seq(Contents)
  BY <1>1 DEF HeapBlock
<1>3. k + 1 \in 1 .. Len(d)
  BY <1>2, LenProperties
<1>4. [d EXCEPT ![k + 1] = x] \in Seq(Contents)
  BY <1>2, <1>3, ExceptSeq
<1>5. block \in HeapBlock
  BY <1>1, <1>4 DEF HeapBlock
<1>6. [h EXCEPT ![p].data[k + 1] = x] = [h EXCEPT ![p] = block]
  OBVIOUS
<1>7. QED
  BY <1>5, <1>6, ExceptSeq

LEMMA StoreType ==
  ASSUME TypeOK, Store
  PROVE  TypeOK'
<1>1. pc' \in [Threads -> Labels]
  BY GotoType DEF TypeOK, Store, Threads, Labels
<1>2. heap \in Seq(HeapBlock)
  BY DEF TypeOK, HeapBlock
<1>3. /\ dc.sig_num_count \in Nat /\ lastPack \in Contents
      /\ local.ptr \in 0 .. Len(heap)
  BY DEF TypeOK, Counters, Contents, Packets, Blank
<1>4. heap' \in Seq(HeapBlock) /\ Len(heap') = Len(heap)
  <2>1. CASE Mapped(dc.sig_num_count)
    <3>1. local.ptr \in 1 .. Len(heap) /\ dc.sig_num_count < Len(heap[local.ptr].data)
      BY <1>2, <1>3, <2>1, LenProperties DEF Mapped, Null
    <3>2. heap' = [heap EXCEPT ![local.ptr].data[dc.sig_num_count + 1] = lastPack]
      BY <2>1 DEF Store
    <3>3. QED
      BY <1>2, <1>3, <3>1, <3>2, StoreHeap, SMTT(30)
  <2>2. CASE ~ Mapped(dc.sig_num_count)
    BY <1>2, <2>2 DEF Store
  <2>3. QED
    BY <2>1, <2>2
<1>5. alive' \in BOOLEAN /\ undef' \in BOOLEAN
  BY DEF TypeOK, Store, Stray, process
<1>6. UNCHANGED <<rate, local, dc, ping, pong, file, dirOk, device, check, hist>>
  BY Zenon DEF Store
<1>7. QED
  BY <1>1, <1>4, <1>5, <1>6 DEF TypeOK, HeapBlock, file, device, hist

LEMMA ReceiveType ==
  ASSUME TypeOK, PackLeft, Receive
  PROVE  TypeOK'
<1> USE DEF TypeOK, buffers, file, device, process, hist
<1>1. CASE Poll
  <2>1. pc' \in [Threads -> Labels]
    BY <1>1, GotoType DEF Poll, Threads, Labels
  <2>2. QED
    BY <1>1, <2>1 DEF Poll
<1>2. CASE Get
  <2>1. pc' \in [Threads -> Labels]
    BY <1>2, GotoType DEF Get, Threads, Labels
  <2>2. QED
    BY <1>2, <2>1 DEF Get
<1>3. CASE CheckBuffers
  <2>1. pc' \in [Threads -> Labels]
    BY <1>3, GotoType DEF CheckBuffers, Threads, Labels
  <2>2. lastPack' \in 0 .. MaxPack
    <3>1. lastPack < MaxPack
      BY <1>3 DEF CheckBuffers, PackLeft, At
    <3>2. lastPack' = lastPack \/ lastPack' = lastPack + 1
      BY <1>3, Zenon DEF CheckBuffers
    <3>3. QED
      BY <3>1, <3>2, BoundsAssumption
  <2>3. QED
    BY <1>3, <2>1, <2>2 DEF CheckBuffers
<1>4. CASE LoadFlag
  <2>1. pc' \in [Threads -> Labels]
    BY <1>4, GotoType DEF LoadFlag, Threads, Labels
  <2>2. local' \in Locals
    BY <1>4 DEF LoadFlag, Locals, Counters
  <2>3. QED
    BY <1>4, <2>1, <2>2 DEF LoadFlag, Locals
<1>5. CASE Select
  <2>1. pc' \in [Threads -> Labels]
    BY <1>5, GotoType DEF Select, Threads, Labels
  <2>2. local' \in Locals
    BY <1>5 DEF Select, Locals
  <2>3. QED
    BY <1>5, <2>1, <2>2 DEF Select, Locals
<1>6. CASE Store
  BY <1>6, StoreType
<1>7. CASE LoadCount
  <2>1. pc' \in [Threads -> Labels]
    BY <1>7, GotoType DEF LoadCount, Threads, Labels
  <2>2. local' \in Locals
    BY <1>7 DEF LoadCount, Locals, Counters
  <2>3. QED
    BY <1>7, <2>1, <2>2 DEF LoadCount, Locals
<1>8. CASE StoreCount
  <2>1. pc' \in [Threads -> Labels]
    BY <1>8, GotoType DEF StoreCount, Threads, Labels
  <2>2. local.count + 1 \in Nat
    OBVIOUS
  <2>4. dc' \in Counters
    BY <1>8, <2>2 DEF StoreCount, Counters
  <2>3. QED
    BY <1>8, <2>1, <2>4 DEF StoreCount
<1>9. CASE Minute
  <2>1. pc' \in [Threads -> Labels]
    BY <1>9, GotoType DEF Minute, Threads, Labels
  <2>2. dc' \in Counters
    <3>1. 1 - dc.flag \in {Pong, Ping}
      BY DEF Counters, Pong, Ping
    <3>2. dc' = dc \/ dc' = [dc EXCEPT !.flag = 1 - dc.flag]
      BY <1>9 DEF Minute
    <3>3. QED
      BY <3>1, <3>2 DEF Counters
  <2>3. QED
    BY <1>9, <2>1, <2>2 DEF Minute
<1>10. CASE Raise
  <2>1. pc' \in [Threads -> Labels]
    BY <1>10, GotoType DEF Raise, Threads, Labels
  <2>2. alive' \in BOOLEAN
    BY <1>10, Zenon DEF Raise
  <2>3. QED
    BY <1>10, <2>1, <2>2 DEF Raise
<1>11. CASE ClearCount
  <2>1. pc' \in [Threads -> Labels]
    BY <1>11, GotoType DEF ClearCount, Threads, Labels
  <2>2. dc' \in Counters
    BY <1>11 DEF ClearCount, Counters
  <2>3. QED
    BY <1>11, <2>1, <2>2 DEF ClearCount
<1>12. QED
  BY <1>1, <1>2, <1>3, <1>4, <1>5, <1>6, <1>7, <1>8, <1>9, <1>10, <1>11 DEF Receive

(* The handler.                                                            *)
LEMMA ReadType ==
  ASSUME TypeOK, Read
  PROVE  TypeOK'
<1>1. pc' \in [Threads -> Labels]
  BY GotoType DEF TypeOK, Read, Threads, Labels
<1>2. /\ heap \in Seq(HeapBlock) /\ local.ptr \in 0 .. Len(heap) /\ local.i \in Nat
      /\ local \in Locals
  BY DEF TypeOK, HeapBlock, Locals
<1>3. local'.pack \in Contents /\ local' = [local EXCEPT !.pack = local'.pack]
  <2>1. CASE Mapped(local.i)
    <3>1. local.ptr \in 1 .. Len(heap) /\ local.i < Len(heap[local.ptr].data)
      BY <1>2, <2>1, LenProperties DEF Mapped, Null
    <3>2. heap[local.ptr] \in HeapBlock
      BY <1>2, <3>1, ElementOfSeq
    <3>3. heap[local.ptr].data \in Seq(Contents)
      BY <3>2 DEF HeapBlock
    <3>4. local.i + 1 \in 1 .. Len(heap[local.ptr].data)
      BY <1>2, <3>1, <3>3, LenProperties
    <3>5. heap[local.ptr].data[local.i + 1] \in Contents
      BY <3>3, <3>4, ElementOfSeq
    <3>6. QED
      BY <1>2, <2>1, <3>5 DEF Read, Locals
  <2>2. CASE ~ Mapped(local.i)
    BY <1>2, <2>2 DEF Read, Locals, Contents
  <2>3. QED
    BY <2>1, <2>2
<1>4. local' \in Locals
  BY <1>2, <1>3 DEF Locals
<1>5. alive' \in BOOLEAN /\ undef' \in BOOLEAN
  BY DEF TypeOK, Read, Stray, process
<1>6. QED
  BY <1>1, <1>4, <1>5 DEF TypeOK, Read, Locals, buffers, file, device, hist

(* A write to the data file: the whole record, what there was room for, or *)
(* nothing.                                                                *)
Adds(x) == files' = [files EXCEPT ![adc_fd] = Append(files[adc_fd], x)]

LEMMA WriteCases ==
  ASSUME NEW x, WriteFile(x)
  PROVE  \/ adc_fd \in open /\ Adds(x) /\ damaged' = damaged
         \/ adc_fd \in open /\ Adds(Part) /\ damaged' = damaged \cup {adc_fd}
         \/ adc_fd \in open /\ files' = files /\ damaged' = damaged \cup {adc_fd}
         \/ adc_fd \notin open /\ files' = files /\ damaged' = damaged
  BY DEF WriteFile, Adds

LEMMA AddsType ==
  ASSUME TypeOK, adc_fd \in open, NEW x \in Entries, Adds(x)
  PROVE  files' \in Seq(Seq(Entries)) /\ Len(files') = Len(files)
<1>1. files \in Seq(Seq(Entries)) /\ adc_fd \in 1 .. Len(files)
  BY Zenon DEF TypeOK
<1>2. files[adc_fd] \in Seq(Entries)
  BY <1>1, ElementOfSeq
<1>3. Append(files[adc_fd], x) \in Seq(Entries)
  BY <1>2, AppendProperties
<1>4. QED
  BY <1>1, <1>3, ExceptSeq DEF Adds

LEMMA WriteType ==
  ASSUME TypeOK, NEW x \in Entries, WriteFile(x)
  PROVE  /\ files' \in Seq(Seq(Entries)) /\ Len(files') = Len(files)
         /\ damaged' \subseteq 1 .. Len(files')
<1>1. Part \in Entries
  BY DEF Entries
<1>2. files' \in Seq(Seq(Entries)) /\ Len(files') = Len(files)
  BY <1>1, WriteCases, AddsType DEF TypeOK
<1>3. damaged' \subseteq 1 .. Len(files)
  BY WriteCases DEF TypeOK
<1>4. QED
  BY <1>2, <1>3

LEMMA HandlerType ==
  ASSUME TypeOK, Handler
  PROVE  TypeOK'
<1> USE DEF TypeOK, buffers, file, device, process, hist
<1>1. CASE HandlerFlag
  <2>1. pc' \in [Threads -> Labels]
    BY <1>1, GotoType DEF HandlerFlag, Threads, Labels
  <2>2. local' \in Locals
    BY <1>1 DEF HandlerFlag, Locals, Counters
  <2>3. QED
    BY <1>1, <2>1, <2>2 DEF HandlerFlag, Locals
<1>2. CASE Begin
  <2>1. pc' \in [Threads -> Labels]
    BY <1>2, GotoType DEF Begin, Threads, Labels
  <2>2. local' \in Locals
    BY <1>2 DEF Begin, Locals
  <2>3. QED
    BY <1>2, <2>1, <2>2 DEF Begin, Locals
<1>3. CASE Read
  BY <1>3, ReadType
<1>4. CASE Rotate
  <2>1. pc' \in [Threads -> Labels]
    BY <1>4, GotoType DEF Rotate, TryClose, Threads, Labels
  <2>2. open' \subseteq open
    BY <1>4 DEF Rotate, TryClose
  <2>3. QED
    BY <1>4, <2>1, <2>2 DEF Rotate
<1>5. CASE Open
  <2>1. pc' \in [Threads -> Labels]
    BY <1>5, GotoType DEF Open, Threads, Labels
  <2>2. files \in Seq(Seq(Entries)) /\ Len(files) \in Nat
    OBVIOUS
  <2>3. /\ files' \in Seq(Seq(Entries))
        /\ adc_fd' \in {NoFile} \cup 1 .. Len(files')
        /\ open' \subseteq 1 .. Len(files') /\ damaged \subseteq 1 .. Len(files')
    <3>1. CASE /\ files' = Append(files, << >>) /\ adc_fd' = Len(files) + 1
               /\ open' = open \cup {Len(files) + 1}
      <4>1. << >> \in Seq(Entries)
        BY EmptySeq
      <4>2. files' \in Seq(Seq(Entries)) /\ Len(files') = Len(files) + 1
        BY <2>2, <3>1, <4>1, AppendProperties
      <4>3. Len(files) + 1 \in 1 .. Len(files') /\ 1 .. Len(files) \subseteq 1 .. Len(files')
        BY <2>2, <4>2
      <4>4. open' \subseteq 1 .. Len(files')
        BY <3>1, <4>3, Zenon
      <4>6. damaged \subseteq 1 .. Len(files')
        BY <4>3, Zenon
      <4>5. QED
        BY <3>1, <4>2, <4>3, <4>4, <4>6, Zenon
    <3>2. CASE adc_fd' = NoFile /\ UNCHANGED <<open, files>>
      BY <3>2
    <3>3. QED
      BY <1>5, <3>1, <3>2 DEF Open
  <2>4. lostFile' \in BOOLEAN
    BY <1>5 DEF Open
  <2>5. QED
    BY <1>5, <2>1, <2>3, <2>4 DEF Open
<1>6. CASE WriteHeader
  <2>1. pc' \in [Threads -> Labels]
    BY <1>6, GotoType DEF WriteHeader, Threads, Labels
  <2>2. /\ files' \in Seq(Seq(Entries)) /\ Len(files') = Len(files)
        /\ damaged' \subseteq 1 .. Len(files')
    BY <1>6, WriteType DEF WriteHeader, Entries
  <2>3. QED
    BY <1>6, <2>1, <2>2 DEF WriteHeader
<1>7. CASE WriteData
  <2>1. pc' \in [Threads -> Labels]
    BY <1>7, GotoType DEF WriteData, Threads, Labels
  <2>2. local.pack \in Contents /\ local.i + 1 \in Nat
    OBVIOUS
  <2>3. /\ files' \in Seq(Seq(Entries)) /\ Len(files') = Len(files)
        /\ damaged' \subseteq 1 .. Len(files')
    BY <1>7, <2>2, WriteType DEF WriteData, Entries
  <2>4. local' \in Locals
    BY <1>7, <2>2 DEF WriteData, Locals
  <2>5. QED
    BY <1>7, <2>1, <2>3, <2>4 DEF WriteData, Locals
<1>8. CASE LoadMinutes
  <2>1. pc' \in [Threads -> Labels]
    BY <1>8, GotoType DEF LoadMinutes, Threads, Labels
  <2>2. local' \in Locals
    BY <1>8 DEF LoadMinutes, Locals, Counters
  <2>3. QED
    BY <1>8, <2>1, <2>2 DEF LoadMinutes, Locals
<1>9. CASE StoreMinutes
  <2>1. pc' \in [Threads -> Labels]
    BY <1>9, GotoType DEF StoreMinutes, Threads, Labels
  <2>2. local.count + 1 \in Nat
    OBVIOUS
  <2>3. dc' \in Counters
    BY <1>9, <2>2 DEF StoreMinutes, Counters
  <2>4. QED
    BY <1>9, <2>1, <2>3 DEF StoreMinutes
<1>10. CASE Restore
  <2>1. pc' \in [Threads -> Labels]
    BY <1>10, GotoType DEF Restore, Threads, Labels
  <2>2. QED
    BY <1>10, <2>1 DEF Restore
<1>11. QED
  BY <1>1, <1>2, <1>3, <1>4, <1>5, <1>6, <1>7, <1>8, <1>9, <1>10 DEF Handler

(* The bound on packets is looked at before DataGet.                       *)
LEMMA PackLeftStep ==
  ASSUME TypeOK, PackLeft, Next
  PROVE  PackLeft'
<1> SUFFICES ASSUME pc'["port"] = "check" PROVE lastPack' < MaxPack
  BY DEF PackLeft
<1> USE DEF TypeOK, Threads, hist
<1>1. ASSUME NEW t \in Threads, PrepareStart(t) PROVE lastPack' < MaxPack
  BY <1>1
     DEF PrepareStart, CallStart, NetStart, PortStart, StartWith, WorkDir,
         Params, Mempool, Alloc, Close, Reset,
         StartDevice, Signal, Zero, TryClose, Goto, Return, PackLeft
<1>2. CASE PrepareStop
  BY <1>2
     DEF PrepareStop, CallStop, StopClose, StopReset, Free, Memset, Ignore,
         TryClose, Goto, PackLeft
<1>3. CASE Receive
  BY <1>3
     DEF Receive, Poll, Get, CheckBuffers, LoadFlag, Select, Store, LoadCount,
         StoreCount, Minute, Raise, ClearCount, Goto
<1>4. CASE Handler
  BY <1>4
     DEF Handler, HandlerFlag, Begin, Read, Rotate, Open, WriteHeader, WriteData,
         LoadMinutes, StoreMinutes, Restore, TryClose, Goto
<1>5. QED
  BY <1>1, <1>2, <1>3, <1>4 DEF Next

TypeInv == TypeOK /\ PackLeft

LEMMA TypeStep == TypeInv /\ [Next]_vars => TypeInv'
<1> SUFFICES ASSUME TypeInv, [Next]_vars PROVE TypeInv'
  OBVIOUS
<1>1. CASE Next
  BY <1>1, StartType, StopType, ReceiveType, HandlerType, PackLeftStep
     DEF Next, TypeInv
<1>2. CASE UNCHANGED vars
  BY <1>2 DEF TypeInv, TypeOK, PackLeft, vars, buffers, file, device, process, hist
<1>3. QED
  BY <1>1, <1>2

(* Every pointer, descriptor and counter of the recorder stays what it is  *)
(* meant to be under any interleaving of starts, stops, packets and the    *)
(* handler.                                                                *)
THEOREM TypeCorrect == Spec => []TypeOK
<1>1. Init => TypeInv
  BY InitType DEF TypeInv, PackLeft, Init, Threads
<1>2. TypeInv => TypeOK
  BY DEF TypeInv
<1>3. QED
  BY <1>1, <1>2, TypeStep, PTL DEF Spec

-----------------------------------------------------------------------------
(* The data file.                                                          *)

Resetting(t) == pc[t] \in {"reset", "stop reset"}

(* Who has closed the data file, or is about to open one, has the          *)
(* descriptor to itself.                                                   *)
OneOwner ==
  /\ pc["port"] = "open" => open = {}
  /\ \A t \in Threads : Resetting(t) => open = {} /\ adc_fd # NoFile
  /\ ~ (Resetting("port") /\ Resetting("net"))
  /\ ~ (pc["port"] = "open" /\ Resetting("net"))

FileInv == TypeOK /\ NoStrayFile /\ OneOwner

LEMMA NoFileOpen ==
  ASSUME FileInv, adc_fd = NoFile
  PROVE  open = {}
<1>1. NoFile \notin 1 .. Len(files)
  BY DEF NoFile
<1>2. QED
  BY <1>1, Zenon DEF FileInv, TypeOK, NoStrayFile

(* log_close_data_file in either thread, and the handler's close.          *)
LEMMA CloseStep ==
  ASSUME FileInv, NEW t \in Threads, NEW l \in Labels,
         \/ TryClose(Goto(t, "reset"), Goto(t, l))
         \/ TryClose(Goto(t, "stop reset"), Goto(t, l))
         \/ t = "port" /\ TryClose(Goto(t, "open"), Goto(t, l)),
         l \notin {"reset", "stop reset", "open"}, adc_fd' = adc_fd, files' = files
  PROVE  NoStrayFile' /\ OneOwner'
<1> USE DEF FileInv, NoStrayFile, OneOwner, Resetting, Goto
<1>1. /\ pc \in [Threads -> Labels] /\ open \subseteq 1 .. Len(files)
      /\ open \subseteq {adc_fd}
  BY DEF TypeOK
<1>2. CASE adc_fd \in open
  <2>1. open' = {} /\ adc_fd # NoFile
    <3>1. open' = open \ {adc_fd}
      BY <1>2 DEF TryClose
    <3>2. open' = {}
      BY <1>1, <3>1, Zenon
    <3>3. adc_fd # NoFile
      BY <1>2, NoFileOpen
    <3>4. QED
      BY <3>2, <3>3
  <2>2. pc["port"] # "open" /\ \A u \in Threads : ~ Resetting(u)
    BY <1>2
  <2>3. QED
    BY <1>1, <1>2, <2>1, <2>2 DEF TryClose, Threads
<1>3. CASE adc_fd \notin open
  BY <1>1, <1>3 DEF TryClose, Threads
<1>4. QED
  BY <1>2, <1>3

(* Steps that leave the file alone and do not move to where it is used.    *)
LEMMA OtherStep ==
  ASSUME FileInv, NEW t \in Threads, NEW l \in Labels, Goto(t, l),
         l \notin {"reset", "stop reset", "open"}, adc_fd' = adc_fd, open' = open
  PROVE  NoStrayFile' /\ OneOwner'
  BY DEF FileInv, NoStrayFile, OneOwner, Resetting, Goto, TypeOK, Threads

LEMMA ReturnStep ==
  ASSUME FileInv, NEW t \in Threads, Return(t), adc_fd' = adc_fd, open' = open
  PROVE  NoStrayFile' /\ OneOwner'
  BY OtherStep DEF Return, Labels

LEMMA FileStart ==
  ASSUME FileInv, NEW t \in Threads, PrepareStart(t)
  PROVE  NoStrayFile' /\ OneOwner'
<1> USE DEF file, Labels
<1>1. CASE CallStart(t)
  BY <1>1, OtherStep DEF CallStart, NetStart, PortStart, StartWith
<1>2. CASE WorkDir(t)
  BY <1>2, OtherStep, ReturnStep DEF WorkDir
<1>3. CASE Params(t)
  BY <1>3, OtherStep DEF Params
<1>4. CASE Mempool(t)
  BY <1>4, OtherStep, ReturnStep DEF Mempool
<1>5. CASE Alloc(t)
  BY <1>5, OtherStep, ReturnStep DEF Alloc
<1>6. CASE Close(t)
  BY <1>6, CloseStep DEF Close
<1>7. CASE Reset(t)
  BY <1>7 DEF Reset, At, Goto, FileInv, TypeOK, NoStrayFile, OneOwner, Resetting,
              Threads
<1>8. CASE StartDevice(t)
  BY <1>8, OtherStep, ReturnStep DEF StartDevice
<1>9. CASE Signal(t)
  BY <1>9, OtherStep DEF Signal
<1>10. CASE Zero(t)
  BY <1>10, ReturnStep DEF Zero
<1>11. QED
  BY <1>1, <1>2, <1>3, <1>4, <1>5, <1>6, <1>7, <1>8, <1>9, <1>10 DEF PrepareStart

LEMMA FileStop ==
  ASSUME FileInv, PrepareStop
  PROVE  NoStrayFile' /\ OneOwner'
<1> USE DEF file, Labels, Threads
<1>1. CASE CallStop
  <2>1. CASE Goto("net", "stop close")
    BY <1>1, <2>1, OtherStep DEF CallStop
  <2>2. CASE UNCHANGED pc
    BY <1>1, <2>2 DEF CallStop, FileInv, NoStrayFile, OneOwner, Resetting
  <2>3. QED
    BY <1>1, <2>1, <2>2 DEF CallStop
<1>2. CASE StopClose
  BY <1>2, CloseStep DEF StopClose
<1>3. CASE StopReset
  BY <1>3 DEF StopReset, At, Goto, FileInv, TypeOK, NoStrayFile, OneOwner, Resetting
<1>4. CASE Free
  BY <1>4, OtherStep DEF Free
<1>5. CASE Memset
  BY <1>5, OtherStep DEF Memset
<1>6. CASE Ignore
  BY <1>6, OtherStep DEF Ignore
<1>7. QED
  BY <1>1, <1>2, <1>3, <1>4, <1>5, <1>6 DEF PrepareStop

LEMMA FileReceive ==
  ASSUME FileInv, Receive
  PROVE  NoStrayFile' /\ OneOwner'
<1> USE OtherStep DEF file, Labels, Threads
<1>1. CASE Poll
  BY <1>1 DEF Poll
<1>2. CASE Get
  BY <1>2 DEF Get
<1>3. CASE CheckBuffers
  BY <1>3 DEF CheckBuffers
<1>4. CASE LoadFlag
  BY <1>4 DEF LoadFlag
<1>5. CASE Select
  BY <1>5 DEF Select
<1>6. CASE Store
  BY <1>6 DEF Store
<1>7. CASE LoadCount
  BY <1>7 DEF LoadCount
<1>8. CASE StoreCount
  BY <1>8 DEF StoreCount
<1>9. CASE Minute
  BY <1>9 DEF Minute
<1>10. CASE Raise
  BY <1>10 DEF Raise
<1>11. CASE ClearCount
  BY <1>11 DEF ClearCount
<1>12. QED
  BY <1>1, <1>2, <1>3, <1>4, <1>5, <1>6, <1>7, <1>8, <1>9, <1>10, <1>11 DEF Receive

LEMMA FileHandler ==
  ASSUME FileInv, Handler
  PROVE  NoStrayFile' /\ OneOwner'
<1> USE OtherStep DEF file, Labels, Threads
<1>1. CASE HandlerFlag
  BY <1>1 DEF HandlerFlag
<1>2. CASE Begin
  BY <1>2 DEF Begin
<1>3. CASE Read
  BY <1>3 DEF Read
<1>4. CASE Rotate
  <2>1. CASE dc.num_pack % MinutesPerFile # 0
    BY <1>4, <2>1 DEF Rotate
  <2>2. CASE dc.num_pack % MinutesPerFile = 0 /\ adc_fd = NoFile
    <3>1. open = {}
      BY <2>2, NoFileOpen
    <3>2. pc' = [pc EXCEPT !["port"] = "open"] /\ open' = open /\ adc_fd' = adc_fd
      BY <1>4, <2>2 DEF Rotate, Goto
    <3>3. QED
      BY <2>2, <3>1, <3>2 DEF FileInv, TypeOK, NoStrayFile, OneOwner, Resetting
  <2>3. CASE dc.num_pack % MinutesPerFile = 0 /\ adc_fd # NoFile
    BY <1>4, <2>3, CloseStep DEF Rotate
  <2>4. QED
    BY <2>1, <2>2, <2>3
<1>5. CASE Open
  BY <1>5 DEF Open, At, Goto, FileInv, TypeOK, NoStrayFile, OneOwner, Resetting
<1>6. CASE WriteHeader
  BY <1>6 DEF WriteHeader
<1>7. CASE WriteData
  BY <1>7 DEF WriteData
<1>8. CASE LoadMinutes
  BY <1>8 DEF LoadMinutes
<1>9. CASE StoreMinutes
  BY <1>9 DEF StoreMinutes
<1>10. CASE Restore
  BY <1>10 DEF Restore
<1>11. QED
  BY <1>1, <1>2, <1>3, <1>4, <1>5, <1>6, <1>7, <1>8, <1>9, <1>10 DEF Handler

LEMMA FileStep ==
  ASSUME TypeInv, TypeInv', NoStrayFile, OneOwner, [Next]_vars
  PROVE  NoStrayFile' /\ OneOwner'
<1>1. FileInv
  BY DEF FileInv, TypeInv
<1>2. CASE Next
  BY <1>1, <1>2, FileStart, FileStop, FileReceive, FileHandler DEF Next
<1>3. CASE UNCHANGED vars
  BY <1>3 DEF vars, file, NoStrayFile, OneOwner, Resetting
<1>4. QED
  BY <1>2, <1>3

(* However starts and stops of the two threads meet the handler that       *)
(* changes files, no data file stays open that adc_fd does not name        *)
(* (log.c:353-418 called from mythreads.c:125, :151 and :321).             *)
THEOREM NoStray == Spec => []NoStrayFile
<1>1. Init => TypeInv /\ NoStrayFile /\ OneOwner
  <2>1. Init => TypeInv
    BY InitType DEF TypeInv, PackLeft, Init, Threads
  <2>2. Init => NoStrayFile /\ OneOwner
    BY DEF Init, NoStrayFile, OneOwner, Resetting, Threads
  <2>3. QED
    BY <2>1, <2>2
<1>2. QED
  BY <1>1, TypeStep, FileStep, PTL DEF Spec

-----------------------------------------------------------------------------
(* An open file without a header is the one about to get it, unless the    *)
(* write of the header failed.                                             *)
HeaderDue ==
  adc_fd \in open \ damaged /\ files[adc_fd] = << >> => pc["port"] = "header"

HeaderInv == HeaderFirst /\ HeaderDue

NoHeaderStep ==
  /\ files' = files /\ damaged' = damaged
  /\ open' \subseteq open /\ adc_fd' \in {adc_fd, NoFile}

LEMMA NoFileNotOpen ==
  ASSUME TypeOK
  PROVE  NoFile \notin open
<1>1. NoFile \notin 1 .. Len(files)
  BY DEF NoFile
<1>2. QED
  BY <1>1, Zenon DEF TypeOK

LEMMA HeaderQuiet ==
  ASSUME TypeOK, HeaderInv, NoHeaderStep,
         pc["port"] = "header" => pc'["port"] = "header"
  PROVE  HeaderInv'
<1>1. HeaderFirst'
  BY DEF HeaderInv, HeaderFirst, NoHeaderStep
<1>2. ASSUME adc_fd' \in open' PROVE adc_fd' = adc_fd /\ adc_fd \in open
  BY <1>2, NoFileNotOpen DEF NoHeaderStep
<1>3. HeaderDue'
  BY <1>2 DEF HeaderInv, HeaderDue, NoHeaderStep
<1>4. QED
  BY <1>1, <1>3 DEF HeaderInv

LEMMA AppendFirst ==
  ASSUME NEW S, NEW s \in Seq(S), NEW x \in S
  PROVE  /\ Append(s, x) # << >>
         /\ s # << >> => Append(s, x)[1] = s[1]
         /\ s = << >> => Append(s, x)[1] = x
<1>1. Len(s) \in Nat /\ (s # << >> => Len(s) >= 1) /\ (s = << >> => Len(s) = 0)
  BY LenProperties, EmptySeq
<1>2. QED
  BY <1>1, AppendProperties

(* A write to the data file, whatever comes of it.                         *)
LEMMA WriteKeepsFirst ==
  ASSUME TypeOK, HeaderFirst, NEW x \in Entries, WriteFile(x),
         x = Header \/ (adc_fd \in open \ damaged => files[adc_fd] # << >>)
  PROVE  HeaderFirst' /\ (adc_fd \in open \ damaged' => files'[adc_fd] # << >>)
<1>1. files \in Seq(Seq(Entries)) /\ open \subseteq 1 .. Len(files)
  BY Zenon DEF TypeOK
<1>2. ASSUME adc_fd \in open, NEW e, Adds(e)
      PROVE  /\ Len(files') = Len(files)
             /\ \A f \in 1 .. Len(files) : f # adc_fd => files'[f] = files[f]
             /\ files'[adc_fd] = Append(files[adc_fd], e)
  <2>1. adc_fd \in 1 .. Len(files)
    BY <1>1, <1>2
  <2>2. QED
    BY <1>1, <1>2, <2>1 DEF Adds
<1>3. CASE /\ files' = files /\ adc_fd \notin open \ damaged'
           /\ damaged' \in {damaged, damaged \cup {adc_fd}}
  BY <1>3 DEF HeaderFirst
<1>4. CASE adc_fd \in open /\ Adds(Part) /\ damaged' = damaged \cup {adc_fd}
  BY <1>2, <1>4 DEF HeaderFirst
<1>5. CASE adc_fd \in open /\ Adds(x) /\ damaged' = damaged
  <2> DEFINE old == files[adc_fd]
  <2>1. adc_fd \in 1 .. Len(files) /\ old \in Seq(Entries)
    BY <1>1, <1>5, ElementOfSeq
  <2>2. /\ Append(old, x) # << >>
        /\ (old # << >> => Append(old, x)[1] = old[1])
        /\ (old = << >> => Append(old, x)[1] = x)
    BY <2>1, AppendFirst
  <2>3. files'[adc_fd] = Append(old, x) /\ Len(files') = Len(files)
        /\ \A f \in 1 .. Len(files) : f # adc_fd => files'[f] = files[f]
    BY <1>2, <1>5
  <2>4. adc_fd \notin damaged => Append(old, x)[1] = Header
    BY <1>5, <2>1, <2>2 DEF HeaderFirst
  <2>5. QED
    BY <1>5, <2>1, <2>2, <2>3, <2>4 DEF HeaderFirst
<1>6. QED
  BY <1>3, <1>4, <1>5, WriteCases

LEMMA HeaderStart ==
  ASSUME TypeOK, HeaderInv, NEW t \in Threads, PrepareStart(t)
  PROVE  HeaderInv'
<1>1. NoHeaderStep
  BY DEF PrepareStart, CallStart, NetStart, PortStart, StartWith, WorkDir,
         Params, Mempool, Alloc, Close, Reset,
         StartDevice, Signal, Zero, TryClose, NoHeaderStep, file, hist
<1>2. pc["port"] = "header" => pc'["port"] = "header"
  BY DEF PrepareStart, CallStart, NetStart, PortStart, StartWith, WorkDir,
         Params, Mempool, Alloc, Close, Reset,
         StartDevice, Signal, Zero, TryClose, Goto, Return, At, Threads, TypeOK
<1>3. QED
  BY <1>1, <1>2, HeaderQuiet

LEMMA HeaderStop ==
  ASSUME TypeOK, HeaderInv, PrepareStop
  PROVE  HeaderInv'
<1>1. NoHeaderStep
  BY DEF PrepareStop, CallStop, StopClose, StopReset, Free, Memset, Ignore,
         TryClose, NoHeaderStep, file, hist
<1>2. pc["port"] = "header" => pc'["port"] = "header"
  BY DEF PrepareStop, CallStop, StopClose, StopReset, Free, Memset, Ignore,
         TryClose, Goto, Threads, TypeOK
<1>3. QED
  BY <1>1, <1>2, HeaderQuiet

LEMMA HeaderReceive ==
  ASSUME TypeOK, HeaderInv, Receive
  PROVE  HeaderInv'
<1>1. NoHeaderStep
  BY DEF Receive, Poll, Get, CheckBuffers, LoadFlag, Select, Store, LoadCount,
         StoreCount, Minute, Raise, ClearCount, NoHeaderStep, file, hist
<1>2. pc["port"] # "header"
  BY DEF Receive, Poll, Get, CheckBuffers, LoadFlag, Select, Store, LoadCount,
         StoreCount, Minute, Raise, ClearCount, At
<1>3. QED
  BY <1>1, <1>2, HeaderQuiet

LEMMA HeaderHandler ==
  ASSUME TypeOK, HeaderInv, Handler
  PROVE  HeaderInv'
<1>1. CASE Open
  <2>1. CASE UNCHANGED <<open, files>> /\ adc_fd' = NoFile
    BY <2>1, <1>1, HeaderQuiet DEF Open, At, NoHeaderStep, hist
  <2>2. CASE files' = Append(files, << >>) /\ damaged' = damaged
    <3> DEFINE Rec == Entries
    <3>1. files \in Seq(Seq(Rec)) /\ << >> \in Seq(Rec)
      BY DEF TypeOK
    <3>2. Len(files') = Len(files) + 1
      /\ \A f \in 1 .. Len(files') :
           files'[f] = IF f \in 1 .. Len(files) THEN files[f] ELSE << >>
      <4> HIDE DEF Rec
      <4>1. QED
        BY <2>2, <3>1
    <3>3. HeaderFirst'
      BY <2>2, <3>2, Zenon DEF HeaderInv, HeaderFirst
    <3>4. pc'["port"] = "header"
      BY <1>1 DEF Open, Goto, TypeOK, Threads
    <3>5. QED
      BY <3>3, <3>4 DEF HeaderInv, HeaderDue
  <2>3. QED
    BY <1>1, <2>1, <2>2 DEF Open
<1>2. CASE WriteHeader
  <2>1. HeaderFirst' /\ (adc_fd \in open \ damaged' => files'[adc_fd] # << >>)
    BY <1>2, WriteKeepsFirst DEF WriteHeader, HeaderInv, Entries
  <2>2. QED
    BY <1>2, <2>1 DEF WriteHeader, HeaderInv, HeaderDue
<1>3. CASE WriteData
  <2>1. local.pack \in Entries
    BY DEF TypeOK, Entries
  <2>2. adc_fd \in open \ damaged => files[adc_fd] # << >>
    BY <1>3 DEF WriteData, At, HeaderInv, HeaderDue
  <2>3. HeaderFirst' /\ (adc_fd \in open \ damaged' => files'[adc_fd] # << >>)
    BY <1>3, <2>1, <2>2, WriteKeepsFirst DEF WriteData, HeaderInv
  <2>4. QED
    BY <1>3, <2>3 DEF WriteData, HeaderInv, HeaderDue
<1>4. ASSUME HandlerFlag \/ Begin \/ Read \/ Rotate \/ LoadMinutes \/ StoreMinutes
             \/ Restore
      PROVE  HeaderInv'
  <2>1. NoHeaderStep
    BY <1>4 DEF HandlerFlag, Begin, Read, Rotate, LoadMinutes, StoreMinutes, Restore,
                TryClose, NoHeaderStep, file, hist
  <2>2. pc["port"] # "header"
    BY <1>4 DEF HandlerFlag, Begin, Read, Rotate, LoadMinutes, StoreMinutes, Restore,
                At
  <2>3. QED
    BY <2>1, <2>2, HeaderQuiet
<1>5. QED
  BY <1>1, <1>2, <1>3, <1>4 DEF Handler

LEMMA HeaderStep == TypeInv /\ HeaderInv /\ [Next]_vars => HeaderInv'
<1> SUFFICES ASSUME TypeInv, HeaderInv, [Next]_vars PROVE HeaderInv'
  OBVIOUS
<1>1. CASE Next
  BY <1>1, HeaderStart, HeaderStop, HeaderReceive, HeaderHandler DEF Next, TypeInv
<1>2. CASE UNCHANGED vars
  BY <1>2 DEF vars, file, hist, HeaderInv, HeaderFirst, HeaderDue
<1>3. QED
  BY <1>1, <1>2

(* No packet gets into a data file before its minute header, whichever     *)
(* file adc_fd comes to name while the handler runs (mythreads.c:316-330,  *)
(* log.c:426-482), unless a write to that very file failed; one that fails *)
(* in another file does no harm.                                           *)
THEOREM HeaderIsFirst == Spec => []HeaderFirst
<1>1. Init => TypeInv
  BY InitType DEF TypeInv, PackLeft, Init, Threads
<1>2. Init => HeaderInv
  BY DEF Init, HeaderInv, HeaderFirst, HeaderDue
<1>3. HeaderInv => HeaderFirst
  BY DEF HeaderInv
<1>4. QED
  BY <1>1, <1>2, <1>3, TypeStep, HeaderStep, PTL DEF Spec

-----------------------------------------------------------------------------
(* The minute buffers.                                                     *)

Starting == {"dir", "params", "mempool", "alloc", "close", "reset", "device",
             "signal", "zero"}
Stopping == {"stop close", "stop reset", "free", "memset", "ignore"}

NoBuffers == ping = Null /\ pong = Null

(* Who has not been asked to is not starting or stopping the device.       *)
OneStarter ==
  /\ ~ check => pc["port"] \notin Starting
  /\ commands = 0 => pc["net"] = "idle"

(* A stop is one of the client's commands.                                 *)
LEMMA NetAsked ==
  ASSUME TypeOK, OneStarter, PrepareStop
  PROVE  commands' # 0
<1>1. commands \in Nat
  BY BoundsAssumption DEF TypeOK
<1>2. CASE CallStop
  <2>1. commands' = commands + 1
    BY <1>2, Zenon DEF CallStop
  <2>2. QED
    BY <1>1, <2>1
<1>3. CASE ~ CallStop
  <2>1. commands' = commands
    BY <1>3 DEF PrepareStop, StopClose, StopReset, Free, Memset, Ignore, hist
  <2>2. pc["net"] # "idle"
    BY <1>3 DEF PrepareStop, StopClose, StopReset, Free, Memset, Ignore, At
  <2>3. QED
    BY <2>1, <2>2 DEF OneStarter
<1>4. QED
  BY <1>2, <1>3

LEMMA OneStarterStep ==
  ASSUME TypeOK, OneStarter, [Next]_vars
  PROVE  OneStarter'
<1> USE DEF OneStarter, Starting, hist
<1>0. /\ pc \in [Threads -> Labels] /\ {"port", "net"} \subseteq Threads
      /\ check \in BOOLEAN /\ commands \in Nat
  BY BoundsAssumption DEF TypeOK, Threads
<1>1. ASSUME NEW t \in Threads, PrepareStart(t) PROVE OneStarter'
  BY <1>0, <1>1
     DEF PrepareStart, CallStart, NetStart, PortStart, StartWith, WorkDir, Params,
         Mempool, Alloc, Close, Reset, StartDevice, Signal, Zero, TryClose, Goto,
         Return, At
<1>2. CASE PrepareStop
  <2>1. commands' # 0
    BY <1>2, NetAsked
  <2>2. UNCHANGED check /\ pc'["port"] = pc["port"]
    BY <1>0, <1>2
       DEF PrepareStop, CallStop, StopClose, StopReset, Free, Memset, Ignore, TryClose,
           Goto
  <2>3. QED
    BY <2>1, <2>2
<1>3. CASE Receive
  BY <1>0, <1>3
     DEF Receive, Poll, Get, CheckBuffers, LoadFlag, Select, Store, LoadCount,
         StoreCount, Minute, Raise, ClearCount, Goto
<1>4. CASE Handler
  BY <1>0, <1>4
     DEF Handler, HandlerFlag, Begin, Read, Rotate, Open, WriteHeader, WriteData,
         LoadMinutes, StoreMinutes, Restore, TryClose, Goto
<1>5. CASE UNCHANGED vars
  BY <1>5 DEF vars
<1>6. QED
  BY <1>1, <1>2, <1>3, <1>4, <1>5 DEF Next

-----------------------------------------------------------------------------
(* Nothing leaks.                                                          *)

(* Only one of the threads starts and stops.                               *)
OneThread == ~ check \/ commands = 0

(* The blocks of the heap stay what they are, but for their contents.      *)
SameBlocks ==
  /\ ping' = ping /\ pong' = pong
  /\ Len(heap') = Len(heap)
  /\ \A b \in 1 .. Len(heap) :
       heap'[b].live = heap[b].live /\ Len(heap'[b].data) = Len(heap[b].data)

LEMMA SameHeap ==
  ASSUME UNCHANGED buffers
  PROVE  SameBlocks
  BY DEF buffers, SameBlocks

(* memcpy changes one packet of one block.                                 *)
LEMMA StoreBlocks ==
  ASSUME TypeOK, Store
  PROVE  SameBlocks
<1>1. /\ heap \in Seq(HeapBlock) /\ dc.sig_num_count \in Nat
      /\ local.ptr \in 0 .. Len(heap) /\ lastPack \in Contents
  BY DEF TypeOK, HeapBlock, Counters, Contents, Packets, Blank
<1>2. CASE Mapped(dc.sig_num_count)
  <2> DEFINE k == dc.sig_num_count
             p == local.ptr
             d == [heap[p].data EXCEPT ![k + 1] = lastPack]
  <2>1. p \in 1 .. Len(heap) /\ k < Len(heap[p].data)
    BY <1>1, <1>2, LenProperties DEF Mapped, Null
  <2>2. heap[p] \in HeapBlock /\ heap[p].data \in Seq(Contents)
    <3>1. heap[p] \in HeapBlock
      BY <1>1, <2>1, ElementOfSeq
    <3>2. QED
      BY <3>1 DEF HeapBlock
  <2>3. Len(d) = Len(heap[p].data)
    <3>1. k + 1 \in 1 .. Len(heap[p].data)
      BY <1>1, <2>1, <2>2, LenProperties
    <3>2. QED
      BY <1>1, <2>2, <3>1, ExceptSeq
  <2>4. heap' = [heap EXCEPT ![p] = [heap[p] EXCEPT !.data = d]]
    BY <1>2 DEF Store
  <2>5. /\ Len(heap') = Len(heap)
        /\ \A b \in 1 .. Len(heap) :
             heap'[b] = IF b = p THEN [heap[p] EXCEPT !.data = d] ELSE heap[b]
    <3> HIDE DEF d
    <3>1. QED
      BY <1>1, <2>4, LenProperties
  <2>6. /\ [heap[p] EXCEPT !.data = d].live = heap[p].live
        /\ [heap[p] EXCEPT !.data = d].data = d
    BY <2>2 DEF HeapBlock
  <2>7. QED
    BY <2>3, <2>5, <2>6 DEF Store, SameBlocks
<1>3. CASE ~ Mapped(dc.sig_num_count)
  BY <1>3 DEF Store, SameBlocks
<1>4. QED
  BY <1>2, <1>3

(* Only a start and a stop touch the blocks themselves.                    *)
LEMMA PortBlocks ==
  ASSUME TypeOK, Receive \/ Handler
  PROVE  SameBlocks
<1>1. CASE Store
  BY <1>1, StoreBlocks
<1>2. ASSUME Handler \/ (Receive /\ ~ Store)
      PROVE  UNCHANGED buffers
  BY <1>2
     DEF Receive, Poll, Get, CheckBuffers, LoadFlag, Select, LoadCount, StoreCount,
         Minute, Raise, ClearCount, Handler, HandlerFlag, Begin, Read, Rotate, Open,
         WriteHeader, WriteData, LoadMinutes, StoreMinutes, Restore, buffers
<1>3. QED
  BY <1>1, <1>2, SameHeap

LEMMA StartBlocks ==
  ASSUME NEW t \in Threads, PrepareStart(t), ~ Alloc(t)
  PROVE  SameBlocks
<1>1. UNCHANGED buffers
  BY DEF PrepareStart, CallStart, NetStart, PortStart, StartWith, WorkDir, Params,
         Mempool, Close, Reset, StartDevice, Signal, Zero, buffers
<1>2. QED
  BY <1>1, SameHeap

LEMMA StopBlocks ==
  ASSUME PrepareStop, ~ Free
  PROVE  SameBlocks
<1>1. UNCHANGED buffers
  BY DEF PrepareStop, CallStop, StopClose, StopReset, Memset, Ignore, buffers
<1>2. QED
  BY <1>1, SameHeap

(* Who is about to call calloc has found no buffers, and nobody else has   *)
(* allocated any since.                                                    *)
LeakInv ==
  /\ NoLeak
  /\ OneThread => \A t \in Threads : pc[t] = "alloc" => NoBuffers

LEMMA LeakQuiet ==
  ASSUME LeakInv, SameBlocks, OneThread' => OneThread,
         OneThread' => \A t \in Threads : pc'[t] = "alloc" => pc[t] = "alloc" \/ NoBuffers
  PROVE  LeakInv'
  BY DEF LeakInv, NoLeak, OneThread, SameBlocks, NoBuffers

(* calloc.                                                                 *)
LEMMA AllocHeap ==
  ASSUME TypeOK, NEW t \in Threads, Alloc(t)
  PROVE  /\ Len(heap) \in Nat
         /\ \A b \in 1 .. Len(heap) : heap'[b] = heap[b]
         /\ \/ /\ Len(heap') = Len(heap) + 2
               /\ ping' = Len(heap) + 1 /\ pong' = Len(heap) + 2
               /\ Goto(t, "close")
               /\ \A b \in {ping', pong'} :
                    /\ heap'[b].live
                    /\ heap'[b].data = [k \in 1 .. dc.pack_in_min |-> Blank]
            \/ /\ Len(heap') = Len(heap) + 1
               /\ heap'[Len(heap) + 1].data = [k \in 1 .. dc.pack_in_min |-> Blank]
               /\ Return(t)
               /\ \/ ping' = Len(heap) + 1 /\ pong' = Null
                  \/ ping' = Null /\ pong' = Len(heap) + 1
            \/ heap' = heap /\ ping' = Null /\ pong' = Null /\ Return(t)
<1> DEFINE block == [live |-> TRUE, data |-> [k \in 1 .. dc.pack_in_min |-> Blank]]
<1>1. heap \in Seq(HeapBlock) /\ Len(heap) \in Nat
  BY DEF TypeOK, HeapBlock
<1>2. dc.pack_in_min >= 0 => block \in HeapBlock
  <2> SUFFICES ASSUME dc.pack_in_min >= 0 PROVE block \in HeapBlock
    OBVIOUS
  <2>1. dc.pack_in_min \in Nat
    BY DEF TypeOK, Counters
  <2>2. [k \in 1 .. dc.pack_in_min |-> Blank] \in Seq(Contents)
    BY <2>1, SeqDef DEF Contents
  <2>3. QED
    BY <2>2 DEF HeapBlock
<1>3. block.live /\ block.data = [k \in 1 .. dc.pack_in_min |-> Blank]
  OBVIOUS
<1>4. CASE /\ dc.pack_in_min >= 0 /\ heap' = heap \o <<block, block>>
           /\ ping' = Len(heap) + 1 /\ pong' = Len(heap) + 2 /\ Goto(t, "close")
  <2> HIDE DEF block
  <2>1. /\ <<block, block>> \in Seq(HeapBlock) /\ Len(<<block, block>>) = 2
        /\ <<block, block>>[1] = block /\ <<block, block>>[2] = block
    BY <1>2, <1>4
  <2>2. /\ Len(heap') = Len(heap) + 2
        /\ \A b \in 1 .. Len(heap) : heap'[b] = heap[b]
        /\ heap'[Len(heap) + 1] = block /\ heap'[Len(heap) + 2] = block
    BY <1>1, <1>4, <2>1, ConcatProperties
  <2>3. QED
    BY <1>1, <1>3, <1>4, <2>2
<1>5. CASE /\ dc.pack_in_min >= 0 /\ heap' = Append(heap, block) /\ Return(t)
           /\ \/ ping' = Len(heap) + 1 /\ pong' = Null
              \/ ping' = Null /\ pong' = Len(heap) + 1
  <2> HIDE DEF block
  <2>1. /\ Len(heap') = Len(heap) + 1 /\ heap'[Len(heap) + 1] = block
        /\ \A b \in 1 .. Len(heap) : heap'[b] = heap[b]
    BY <1>1, <1>2, <1>5
  <2>2. QED
    BY <1>1, <1>3, <1>5, <2>1
<1>6. CASE heap' = heap /\ ping' = Null /\ pong' = Null /\ Return(t)
  BY <1>1, <1>6
<1>7. QED
  BY <1>4, <1>5, <1>6 DEF Alloc

(* free: the two buffers, and no other block, are given back.              *)
LEMMA FreeHeap ==
  ASSUME TypeOK, Free
  PROVE  /\ Len(heap') = Len(heap) /\ ping' = Null /\ pong' = Null
         /\ \A b \in 1 .. Len(heap) : b \notin {ping, pong} => heap'[b] = heap[b]
         /\ \A b \in {ping, pong} \ {Null} : ~ heap'[b].live
         /\ \A b \in 1 .. Len(heap) : heap'[b].data = heap[b].data
<1>1. /\ heap \in Seq(HeapBlock) /\ Len(heap) \in Nat
      /\ ping \in 0 .. Len(heap) /\ pong \in 0 .. Len(heap)
  BY DEF TypeOK, HeapBlock
<1>2. \A b \in 1 .. Len(heap) : heap[b] \in HeapBlock
  BY <1>1, ElementOfSeq, LenProperties
<1>3. heap' = [b \in 1 .. Len(heap) |->
                 IF b \in {ping, pong} THEN [heap[b] EXCEPT !.live = FALSE]
                                       ELSE heap[b]]
  BY DEF Free
<1>4. heap' \in [1 .. Len(heap) -> HeapBlock]
  BY <1>2, <1>3 DEF HeapBlock
<1>5. Len(heap') = Len(heap)
  BY <1>1, <1>4, FunctionSeq
<1>6. \A b \in 1 .. Len(heap) :
        /\ b \in {ping, pong} => ~ heap'[b].live
        /\ heap'[b].data = heap[b].data
  BY <1>2, <1>3 DEF HeapBlock
<1>7. QED
  BY <1>1, <1>3, <1>5, <1>6 DEF Free, Null

LEMMA AddedBlocks ==
  ASSUME NEW n \in Nat, NEW b
  PROVE  /\ b \in 1 .. n + 1 /\ b \notin 1 .. n => b = n + 1
         /\ b \in 1 .. n + 2 /\ b \notin 1 .. n => b \in {n + 1, n + 2}
  OBVIOUS

LEMMA LeakStep ==
  ASSUME TypeOK, OneStarter, LeakInv, [Next]_vars
  PROVE  LeakInv'
<1> USE DEF TypeOK, Threads, hist
<1>1. ASSUME NEW t \in Threads, PrepareStart(t) PROVE LeakInv'
  <2>1. OneThread' => OneThread
    BY <1>1
       DEF PrepareStart, CallStart, NetStart, PortStart, StartWith, WorkDir, Params,
           Mempool, Alloc, Close, Reset, StartDevice, Signal, Zero, OneThread
  <2>2. CASE ~ Alloc(t)
    <3>1. \A u \in Threads : pc'[u] = "alloc" => pc[u] = "alloc" \/ NoBuffers
      BY <1>1, <2>2
         DEF PrepareStart, CallStart, NetStart, PortStart, StartWith, WorkDir, Params,
             Mempool, Close, Reset, StartDevice, Signal, Zero, TryClose, Goto, Return,
             NoBuffers
    <3>2. QED
      BY <1>1, <2>1, <2>2, <3>1, StartBlocks, LeakQuiet
  <2>3. CASE Alloc(t)
    <3> SUFFICES ASSUME OneThread'
                 PROVE  /\ \A b \in 1 .. Len(heap') : heap'[b].live => b \in {ping', pong'}
                        /\ \A u \in Threads : pc'[u] # "alloc"
      BY DEF LeakInv, NoLeak, OneThread
    <3>1. \A u \in Threads : u # t => pc[u] \notin Starting /\ pc'[u] = pc[u]
      BY <2>1, <2>3 DEF OneThread, OneStarter, Starting, Alloc, At, Goto, Return
    <3>2. \A b \in 1 .. Len(heap) : ~ heap[b].live
      <4>1. NoBuffers /\ OneThread
        BY <2>1, <2>3 DEF LeakInv, Alloc, At
      <4>2. \A b \in 1 .. Len(heap) : b \notin {ping, pong}
        BY <4>1 DEF NoBuffers, Null
      <4>3. QED
        BY <4>1, <4>2 DEF LeakInv, NoLeak, OneThread
    <3>3. pc'[t] # "alloc"
      BY <2>3 DEF Alloc, Goto, Return
    <3>4. \A b \in 1 .. Len(heap') : heap'[b].live => b \in {ping', pong'}
      <4>1. /\ Len(heap) \in Nat /\ \A b \in 1 .. Len(heap) : ~ heap'[b].live
            /\ \/ Len(heap') = Len(heap) + 2 /\ ping' = Len(heap) + 1 /\ pong' = Len(heap) + 2
               \/ /\ Len(heap') = Len(heap) + 1
                  /\ ping' = Len(heap) + 1 \/ pong' = Len(heap) + 1
               \/ Len(heap') = Len(heap)
        BY <2>3, <3>2, AllocHeap
      <4>2. ASSUME NEW b \in 1 .. Len(heap'), heap'[b].live
            PROVE  b \in {ping', pong'}
        <5>1. b \notin 1 .. Len(heap)
          BY <4>1, <4>2
        <5>2. CASE Len(heap') = Len(heap) + 2
          BY <4>1, <5>1, <5>2, AddedBlocks
        <5>3. CASE Len(heap') = Len(heap) + 1
          BY <4>1, <5>1, <5>3, AddedBlocks
        <5>4. CASE Len(heap') = Len(heap)
          BY <5>1, <5>4
        <5>5. QED
          BY <4>1, <5>2, <5>3, <5>4
      <4>3. QED
        BY <4>2
    <3>5. QED
      BY <3>1, <3>3, <3>4 DEF Starting
  <2>4. QED
    BY <2>2, <2>3
<1>2. CASE PrepareStop
  <2>1. OneThread' => OneThread
    <3>1. commands' # 0
      BY <1>2, NetAsked
    <3>2. UNCHANGED check
      BY <1>2
         DEF PrepareStop, CallStop, StopClose, StopReset, Free, Memset, Ignore
    <3>3. QED
      BY <3>1, <3>2 DEF OneThread
  <2>2. \A u \in Threads : pc'[u] = "alloc" => pc[u] = "alloc"
    BY <1>2 DEF PrepareStop, CallStop, StopClose, StopReset, Free, Memset, Ignore,
                TryClose, Goto
  <2>3. CASE ~ Free
    BY <1>2, <2>1, <2>2, <2>3, StopBlocks, LeakQuiet
  <2>4. CASE Free
    <3> SUFFICES ASSUME OneThread'
                 PROVE  \A b \in 1 .. Len(heap') : ~ heap'[b].live
      <4>1. NoBuffers'
        BY <2>4 DEF Free, NoBuffers
      <4>2. OneThread' => OneThread
        BY <2>1
      <4>3. QED
        BY <2>2, <4>1, <4>2 DEF LeakInv, NoLeak, OneThread
    <3>1. \A b \in 1 .. Len(heap) : heap[b].live => b \in {ping, pong}
      BY <2>1 DEF LeakInv, NoLeak, OneThread
    <3>2. /\ Len(heap') = Len(heap)
          /\ \A b \in 1 .. Len(heap) : b \notin {ping, pong} => heap'[b] = heap[b]
          /\ \A b \in {ping, pong} \ {Null} : ~ heap'[b].live
      BY <2>4, FreeHeap
    <3>3. \A b \in 1 .. Len(heap) : b # Null
      BY DEF Null
    <3>4. QED
      BY <3>1, <3>2, <3>3
  <2>5. QED
    BY <2>3, <2>4
<1>3. CASE Receive \/ Handler
  <2>1. OneThread' => OneThread
    BY <1>3
       DEF Receive, Poll, Get, CheckBuffers, LoadFlag, Select, Store, LoadCount,
           StoreCount, Minute, Raise, ClearCount, Handler, HandlerFlag, Begin, Read,
           Rotate, Open, WriteHeader, WriteData, LoadMinutes, StoreMinutes, Restore,
           OneThread
  <2>2. \A u \in Threads : pc'[u] = "alloc" => pc[u] = "alloc"
    BY <1>3
       DEF Receive, Poll, Get, CheckBuffers, LoadFlag, Select, Store, LoadCount,
           StoreCount, Minute, Raise, ClearCount, Handler, HandlerFlag, Begin, Read,
           Rotate, Open, WriteHeader, WriteData, LoadMinutes, StoreMinutes, Restore,
           TryClose, Goto
  <2>3. QED
    BY <1>3, <2>1, <2>2, PortBlocks, LeakQuiet
<1>4. CASE UNCHANGED vars
  BY <1>4 DEF vars, buffers, LeakInv, NoLeak, OneThread, NoBuffers
<1>5. QED
  BY <1>1, <1>2, <1>3, <1>4 DEF Next

(* While one of the two threads does all the starting and stopping, every  *)
(* block calloc handed out and nobody freed is ping or pong, whatever      *)
(* fails (mythreads.c:110-122, :153-161).                                  *)
THEOREM NothingLeaks == Spec => []NoLeak
<1>1. Init => TypeInv /\ OneStarter /\ LeakInv
  <2>1. Init => TypeInv
    BY InitType DEF TypeInv, PackLeft, Init, Threads
  <2>2. Init => OneStarter
    BY DEF Init, OneStarter, Starting, Threads
  <2>3. Init => LeakInv
    BY DEF Init, LeakInv, NoLeak, Threads
  <2>4. QED
    BY <2>1, <2>2, <2>3
<1>2. TypeInv /\ OneStarter /\ LeakInv /\ [Next]_vars
        => TypeInv' /\ OneStarter' /\ LeakInv'
  BY TypeStep, OneStarterStep, LeakStep DEF TypeInv
<1>3. LeakInv => NoLeak
  BY DEF LeakInv
<1>4. QED
  BY <1>1, <1>2, <1>3, PTL DEF Spec

-----------------------------------------------------------------------------
(* One start by itself.                                                    *)

Ready == ping # Null /\ pong # Null
Preparing == {"dir", "params", "mempool", "alloc"}
Handling == {"handler", "begin", "read", "rotate", "open", "header", "write",
             "minutes", "restore"}
Taking == {"flag", "select", "store", "load", "inc", "minute", "raise", "clear"}
          \cup Handling

(* Before the one start has its buffers, nobody has, and the device's      *)
(* packets are dropped.                                                    *)
Before ==
  /\ Calls = 0 => NoBuffers
  /\ \A t \in Threads :
       pc[t] \in Preparing => NoBuffers
  /\ pc["net"] \in Stopping => NoBuffers
  /\ ~ Ready => dc.sig_num_count = 0 /\ pc["port"] \notin Taking

(* Afterwards each buffer has room for a minute, and no more than a minute *)
(* is counted.                                                             *)
Room ==
  Ready =>
    /\ dc.pack_in_min # 0
    /\ \A b \in {ping, pong} :
         heap[b].live /\ Len(heap[b].data) = dc.pack_in_min
    /\ dc.sig_num_count <= dc.pack_in_min
    /\ pc["port"] \notin {"minute", "raise", "clear"} \cup Handling =>
         dc.sig_num_count < dc.pack_in_min
    /\ pc["port"] = "inc" => local.count < dc.pack_in_min

Using == {"store", "read", "rotate", "open", "header", "write"}

SafeBody ==
  /\ ~ undef
  /\ Before
  /\ Room
  /\ pc["port"] \in Using => local.ptr \in {ping, pong}

SafeInv == OneStart => SafeBody

(* Calls are counted, and nothing else is.                                 *)
LEMMA CallCounted ==
  ASSUME TypeOK, (\E t \in Threads : CallStart(t)) \/ CallStop
  PROVE  Calls' = Calls + 1
<1>1. commands \in Nat /\ check \in BOOLEAN
  BY BoundsAssumption DEF TypeOK
<1>2. CASE NetStart \/ CallStop
  <2>1. commands' = commands + 1 /\ check' = check
    BY <1>2, Zenon DEF NetStart, CallStop
  <2>2. QED
    BY <1>1, <2>1 DEF Calls
<1>3. CASE PortStart
  <2>1. commands' = commands /\ ~ check /\ check'
    BY <1>3, Zenon DEF PortStart
  <2>2. QED
    BY <1>1, <2>1 DEF Calls
<1>4. QED
  BY <1>2, <1>3, Zenon DEF CallStart

LEMMA StartUncounted ==
  ASSUME NEW t \in Threads, PrepareStart(t), ~ CallStart(t)
  PROVE  UNCHANGED <<commands, check>> /\ Calls' = Calls
<1>1. UNCHANGED <<commands, check>>
  BY DEF PrepareStart, WorkDir, Params, Mempool, Alloc, Close, Reset, StartDevice,
         Signal, Zero, hist
<1>2. QED
  BY <1>1 DEF Calls

LEMMA StopUncounted ==
  ASSUME PrepareStop, ~ CallStop
  PROVE  UNCHANGED <<commands, check>> /\ Calls' = Calls
<1>1. UNCHANGED <<commands, check>>
  BY DEF PrepareStop, StopClose, StopReset, Free, Memset, Ignore, hist
<1>2. QED
  BY <1>1 DEF Calls

LEMMA PortUncounted ==
  ASSUME Receive \/ Handler
  PROVE  UNCHANGED <<commands, check>> /\ Calls' = Calls
<1>1. UNCHANGED <<commands, check>>
  BY DEF Receive, Poll, Get, CheckBuffers, LoadFlag, Select, Store, LoadCount,
         StoreCount, Minute, Raise, ClearCount, Handler, HandlerFlag, Begin, Read,
         Rotate, Open, WriteHeader, WriteData, LoadMinutes, StoreMinutes, Restore, hist
<1>2. QED
  BY <1>1 DEF Calls

LEMMA CallsNat ==
  ASSUME TypeOK
  PROVE  Calls \in Nat
  BY BoundsAssumption DEF TypeOK, Calls

LEMMA CallsStep ==
  ASSUME TypeOK, [Next]_vars
  PROVE  Calls \in Nat /\ Calls' \in Nat /\ Calls <= Calls'
<1>1. Calls' = Calls \/ Calls' = Calls + 1
  <2>1. CASE UNCHANGED vars
    BY <2>1 DEF vars, hist, Calls
  <2>2. CASE Next
    BY <2>2, CallCounted, StartUncounted, StopUncounted, PortUncounted DEF Next
  <2>3. QED
    BY <2>1, <2>2
<1>2. QED
  BY <1>1, CallsNat

(* No block becomes longer: one that is empty stays empty.                 *)
LEMMA EmptyStays ==
  ASSUME TypeOK, [Next]_vars, NoneEmpty'
  PROVE  NoneEmpty
<1>1. CASE SameBlocks
  BY <1>1 DEF SameBlocks, NoneEmpty
<1>2. ASSUME NEW t \in Threads, Alloc(t) PROVE NoneEmpty
  <2>1. /\ Len(heap) \in Nat /\ Len(heap') \in Nat /\ Len(heap) <= Len(heap')
        /\ \A b \in 1 .. Len(heap) : heap'[b] = heap[b]
    BY <1>2, AllocHeap
  <2>2. QED
    BY <2>1 DEF NoneEmpty
<1>3. CASE Free
  BY <1>3, FreeHeap DEF NoneEmpty
<1>4. CASE UNCHANGED vars
  BY <1>4 DEF vars, buffers, NoneEmpty
<1>5. QED
  BY <1>1, <1>2, <1>3, <1>4, StartBlocks, StopBlocks, PortBlocks DEF Next

LEMMA OneStartBefore ==
  ASSUME TypeOK, [Next]_vars, OneStart'
  PROVE  OneStart
  BY CallsStep, EmptyStays DEF OneStart

(* The one start is either thread's, not both'.                            *)
LEMMA Alone ==
  ASSUME TypeOK, OneStarter, Calls <= 1
  PROVE  /\ pc["port"] \in Starting => pc["net"] = "idle"
         /\ Calls = 0 => pc["net"] = "idle" /\ pc["port"] \notin Starting
<1>1. commands \in Nat /\ check \in BOOLEAN
  BY BoundsAssumption DEF TypeOK
<1>2. QED
  BY <1>1 DEF OneStarter, Calls

(* The buffers are blocks of the heap, if there are any.                   *)
LEMMA RoomKept ==
  ASSUME TypeOK, Room, SameBlocks, dc'.pack_in_min = dc.pack_in_min,
         Ready =>
           /\ dc'.sig_num_count <= dc.pack_in_min
           /\ pc'["port"] \notin {"minute", "raise", "clear"} \cup Handling =>
                dc'.sig_num_count < dc.pack_in_min
           /\ pc'["port"] = "inc" => local'.count < dc.pack_in_min
  PROVE  Room'
<1> SUFFICES ASSUME Ready' PROVE Room'
  BY DEF Room
<1>1. Ready
  BY DEF SameBlocks, Ready
<1>2. ping \in 1 .. Len(heap) /\ pong \in 1 .. Len(heap)
  BY <1>1 DEF TypeOK, Ready, Null
<1>3. QED
  BY <1>1, <1>2 DEF Room, SameBlocks

(* Moves of a thread that change nothing else the buffers depend on.       *)
LEMMA SafeMove ==
  ASSUME TypeOK, SafeBody, SameBlocks, Calls' = Calls, undef' = undef,
         local' = local, dc' = dc, NEW t \in Threads, NEW l, Goto(t, l),
         l \in Preparing => NoBuffers,
         l \in Stopping => NoBuffers,
         t = "port" => l \notin Taking /\ (Ready => dc.sig_num_count < dc.pack_in_min)
  PROVE  SafeBody'
<1> USE DEF SafeBody
<1>1. /\ pc'[t] = l /\ \A u \in Threads : u # t => pc'[u] = pc[u]
      /\ (Ready' <=> Ready) /\ (NoBuffers' <=> NoBuffers)
  BY DEF Goto, TypeOK, SameBlocks, Ready, NoBuffers
<1>2. Room'
  BY <1>1, RoomKept DEF Room, Taking, Handling, Threads
<1>3. Before'
  BY <1>1 DEF Before, Threads
<1>4. pc'["port"] \in Using => local'.ptr \in {ping', pong'}
  BY <1>1 DEF Using, Taking, Handling, SameBlocks, Threads
<1>5. QED
  BY <1>2, <1>3, <1>4

LEMMA SafeReturn ==
  ASSUME TypeOK, SafeBody, SameBlocks, Calls' = Calls, undef' = undef,
         local' = local, dc' = dc, NEW t \in Threads, Return(t),
         t = "port" => (Ready => dc.sig_num_count < dc.pack_in_min)
  PROVE  SafeBody'
<1> DEFINE l == IF t = "port" THEN "get" ELSE "idle"
<1>1. Goto(t, l)
  BY DEF Return
<1>2. l \notin Preparing /\ l \notin Stopping /\ l \notin Taking
  BY DEF Preparing, Stopping, Taking, Handling
<1> HIDE DEF l
<1>3. QED
  BY <1>1, <1>2, SafeMove

(* A thread that starts or stops has counted less than a minute.           *)
LEMMA RoomLeft ==
  ASSUME SafeBody, pc["port"] \notin {"minute", "raise", "clear"} \cup Handling, Ready
  PROVE  dc.sig_num_count < dc.pack_in_min
  BY DEF SafeBody, Room

(* Room for a minute is room for a packet.                                 *)
LEMMA RoomPositive ==
  ASSUME TypeOK, Room, Ready
  PROVE  dc.pack_in_min \in Nat \ {0}
<1>1. ping \in 1 .. Len(heap) /\ heap \in Seq(HeapBlock)
  BY DEF TypeOK, Ready, Null, HeapBlock
<1>2. heap[ping].data \in Seq(Contents)
  <2>1. heap[ping] \in HeapBlock
    BY <1>1, ElementOfSeq
  <2>2. QED
    BY <2>1 DEF HeapBlock
<1>3. QED
  BY <1>2, LenProperties DEF Room

(* Both callocs succeed only for a number that is not negative.            *)
LEMMA AllocRate ==
  ASSUME NEW t \in Threads, Alloc(t), Ready', dc.pack_in_min \in Int
  PROVE  dc.pack_in_min \in Nat
  BY DEF Alloc, Ready

LEMMA SafeStart ==
  ASSUME TypeOK, OneStarter, OneStart, OneStart', SafeBody,
         NEW t \in Threads, PrepareStart(t)
  PROVE  SafeBody'
<1>0. Calls <= 1 /\ Calls' <= 1 /\ NoneEmpty'
  BY DEF OneStart
<1>1. CASE CallStart(t)
  <2>1. Calls = 0
    BY <1>0, <1>1, CallCounted, CallsNat
  <2>2. NoBuffers /\ ~ Ready
    BY <2>1 DEF SafeBody, Before, NoBuffers, Ready
  <2>5. UNCHANGED <<local, dc, ping, pong, undef>> /\ Goto(t, "dir")
    BY <1>1 DEF CallStart, NetStart, PortStart, StartWith, buffers, process
  <2>6. NoBuffers' /\ ~ Ready'
    BY <2>2, <2>5 DEF NoBuffers, Ready
  <2>7. pc'[t] = "dir" /\ \A u \in Threads : u # t => pc'[u] = pc[u]
    BY <2>5 DEF Goto, TypeOK
  <2>8. Before'
    BY <2>2, <2>5, <2>6, <2>7
       DEF SafeBody, Before, Preparing, Taking, Handling, Threads, Stopping
  <2>9. QED
    BY <2>2, <2>5, <2>6, <2>7, <2>8
       DEF SafeBody, Room, Using, Before, Taking, Handling, Threads
<1>2. CASE ~ CallStart(t)
  <2> USE DEF Taking, Handling, Preparing, Stopping, Starting
  <2>1. /\ Calls' = Calls
        /\ pc[t] \in Starting
        /\ \A u \in Threads : u # t => pc[u] \notin Starting
        /\ pc["net"] \notin Stopping
    <3>1. pc[t] \in Starting
      BY <1>2 DEF PrepareStart, WorkDir, Params, Mempool, Alloc, Close, Reset,
                  StartDevice, Signal, Zero, At
    <3>2. (\A u \in Threads : u # t => pc[u] \notin Starting) /\ pc["net"] \notin Stopping
      BY <1>0, <3>1, Alone DEF Threads
    <3>3. QED
      BY <1>2, <3>1, <3>2, StartUncounted
  <2>2. Ready /\ t = "port" => dc.sig_num_count < dc.pack_in_min
    BY <2>1, RoomLeft
  <2>3. ~ Alloc(t) => SameBlocks
    BY StartBlocks
  <2>4. CASE WorkDir(t)
    BY <2>1, <2>2, <2>3, <2>4, SafeMove, SafeReturn
       DEF WorkDir, Alloc, At, process, SafeBody, Before
  <2>5. CASE Params(t)
    <3>1. NoBuffers /\ ~ Ready
      BY <2>5 DEF Params, At, SafeBody, Before, NoBuffers, Ready
    <3>2. /\ UNCHANGED <<local, ping, pong, undef>> /\ Goto(t, "mempool")
          /\ dc'.sig_num_count = dc.sig_num_count
      BY <2>5 DEF Params, buffers, process, TypeOK, Counters
    <3>3. NoBuffers' /\ ~ Ready'
      BY <3>1, <3>2 DEF NoBuffers, Ready
    <3>4. /\ pc'[t] = "mempool"
          /\ \A u \in Threads : u # t => pc'[u] = pc[u]
      BY <3>2 DEF Goto, TypeOK
    <3>5. Before'
      <4>1. Before
        BY DEF SafeBody
      <4>3. ~ Ready' => dc'.sig_num_count = 0 /\ pc'["port"] \notin Taking
        BY <3>1, <3>2, <3>4, <4>1 DEF Before, Threads
      <4>4. QED
        BY <2>1, <3>3, <3>4, <4>1, <4>3 DEF Before, Threads
    <3>6. QED
      BY <3>1, <3>2, <3>3, <3>4, <3>5 DEF SafeBody, Room, Using, Before, Threads
  <2>6. CASE Mempool(t)
    BY <2>1, <2>2, <2>3, <2>6, SafeMove, SafeReturn
       DEF Mempool, Alloc, At, process, SafeBody, Before
  <2>7. CASE Alloc(t)
    <3>1. /\ NoBuffers /\ ~ Ready /\ dc.sig_num_count = 0
          /\ pc["port"] \notin Taking /\ dc.pack_in_min \in Int
      BY <2>7 DEF Alloc, At, SafeBody, Before, NoBuffers, Ready, TypeOK, Counters
    <3>2. UNCHANGED <<local, dc, undef>>
      BY <2>7 DEF Alloc, process
    <3>3. /\ pc'[t] \in {"close", "get", "idle"}
          /\ \A u \in Threads : u # t => pc'[u] = pc[u]
      BY <2>7 DEF Alloc, Goto, Return, TypeOK
    <3>4. pc'["port"] \notin Taking
      BY <3>1, <3>3 DEF Threads
    <3>5. (\A u \in Threads : pc'[u] \notin Preparing) /\ pc'["net"] \notin Stopping
      BY <2>1, <3>3 DEF Threads
    <3>6. Room'
      <4> SUFFICES ASSUME Ready' PROVE Room'
        BY DEF Room
      <4>1. \A b \in {ping', pong'} :
              heap'[b].live /\ heap'[b].data = [k \in 1 .. dc.pack_in_min |-> Blank]
        BY <2>7, AllocHeap DEF Ready
      <4>2. dc.pack_in_min \in Nat
        BY <2>7, <3>1, AllocRate DEF Ready
      <4>3. Len([k \in 1 .. dc.pack_in_min |-> Blank]) = dc.pack_in_min
        BY <4>2
      <4>4. ping' \in 1 .. Len(heap') /\ Len(heap'[ping'].data) > 0
        BY <1>0, <2>7, AllocHeap DEF Ready, NoneEmpty, Null
      <4>5. dc.pack_in_min > 0
        BY <4>1, <4>3, <4>4, Zenon
      <4>6. QED
        BY <3>1, <3>2, <3>4, <4>1, <4>3, <4>5 DEF Room
    <3>7. Calls # 0
      BY <1>0, <2>1, <2>7, Alone DEF Alloc, At, Threads
    <3>8. Before'
      BY <2>1, <3>1, <3>2, <3>4, <3>5, <3>7 DEF Before, Threads
    <3>9. QED
      BY <3>1, <3>2, <3>4, <3>6, <3>8 DEF SafeBody, Using
  <2>8. CASE Close(t)
    BY <2>1, <2>2, <2>3, <2>8, SafeMove
       DEF Close, TryClose, Alloc, At, process
  <2>9. CASE Reset(t)
    BY <2>1, <2>2, <2>3, <2>9, SafeMove DEF Reset, Alloc, At, process
  <2>10. CASE StartDevice(t)
    BY <2>1, <2>2, <2>3, <2>10, SafeMove, SafeReturn DEF StartDevice, Alloc, At, process
  <2>11. CASE Signal(t)
    BY <2>1, <2>2, <2>3, <2>11, SafeMove DEF Signal, Alloc, At, process
  <2>12. CASE Zero(t)
    <3>1. SameBlocks
      BY <2>3, <2>12 DEF Alloc, Zero, At
    <3>2. /\ UNCHANGED <<local, undef>> /\ Return(t)
          /\ dc'.pack_in_min = dc.pack_in_min /\ dc'.sig_num_count = 0
          /\ dc.pack_in_min \in Int
      BY <2>12 DEF Zero, process, TypeOK, Counters
    <3>3. /\ pc'[t] \in {"get", "idle"}
          /\ \A u \in Threads : u # t => pc'[u] = pc[u]
          /\ (Ready' <=> Ready) /\ (NoBuffers' <=> NoBuffers)
      BY <3>1, <3>2 DEF Return, Goto, TypeOK, SameBlocks, Ready, NoBuffers
    <3>4. Room'
      BY <2>2, <3>1, <3>2, <3>3, RoomKept, RoomPositive DEF SafeBody, Room, Threads
    <3>5. Before'
      BY <2>1, <3>2, <3>3 DEF SafeBody, Before, Threads
    <3>6. QED
      BY <3>1, <3>2, <3>3, <3>4, <3>5 DEF SafeBody, Using, SameBlocks, Threads
  <2>13. QED
    BY <1>2, <2>4, <2>5, <2>6, <2>7, <2>8, <2>9, <2>10, <2>11, <2>12 DEF PrepareStart
<1>3. QED
  BY <1>1, <1>2

(* With one start, a stop finds no buffers.                                *)
LEMMA StopBefore ==
  ASSUME TypeOK, OneStarter, OneStart, OneStart', SafeBody, PrepareStop
  PROVE  pc["port"] \notin Starting /\ NoBuffers /\ ~ Ready /\ NoBuffers' /\ ~ Ready'
<1>0. Calls <= 1 /\ Calls' <= 1
  BY DEF OneStart
<1>1. pc["port"] \notin Starting /\ NoBuffers /\ ~ Ready
  <2>1. CASE CallStop
    <3>1. Calls = 0
      BY <1>0, <2>1, CallCounted, CallsNat
    <3>2. QED
      BY <1>0, <3>1, Alone DEF SafeBody, Before, NoBuffers, Ready
  <2>2. CASE ~ CallStop
    BY <1>0, <2>2, Alone
       DEF PrepareStop, StopClose, StopReset, Free, Memset, Ignore, At, SafeBody, Before,
           NoBuffers, Ready, Starting, Stopping
  <2>3. QED
    BY <2>1, <2>2
<1>2. NoBuffers' /\ ~ Ready'
  BY <1>1 DEF PrepareStop, CallStop, StopClose, StopReset, Free, Memset, Ignore, buffers,
              NoBuffers, Ready
<1>3. QED
  BY <1>1, <1>2

LEMMA SafeStop ==
  ASSUME TypeOK, OneStarter, OneStart, OneStart', SafeBody, PrepareStop
  PROVE  SafeBody'
<1> USE DEF Taking, Handling, Preparing, Stopping, Starting
<1>1. pc["port"] \notin Starting /\ NoBuffers /\ ~ Ready /\ NoBuffers' /\ ~ Ready'
  BY StopBefore
<1>2. dc.sig_num_count = 0 /\ pc["port"] \notin Taking
  BY <1>1 DEF SafeBody, Before
<1>3. /\ UNCHANGED <<local, undef>> /\ dc'.sig_num_count = 0
  <2>1. CASE Memset
    BY <2>1 DEF Memset, process
  <2>2. CASE ~ Memset
    <3>1. UNCHANGED <<local, undef, dc>>
      BY <2>2 DEF PrepareStop, CallStop, StopClose, StopReset, Free, Ignore, process
    <3>2. QED
      BY <1>2, <3>1
  <2>3. QED
    BY <2>1, <2>2
<1>4. pc'["port"] = pc["port"] /\ pc'["net"] \notin Preparing
  BY DEF PrepareStop, CallStop, StopClose, StopReset, Free, Memset, Ignore, TryClose,
         Goto, At, TypeOK, Threads
<1>5. Before'
  BY <1>1, <1>2, <1>3, <1>4 DEF Before, Threads
<1>6. QED
  BY <1>1, <1>2, <1>3, <1>4, <1>5 DEF SafeBody, Room, Using

(* Steps of the port thread's packet loop and its handler.                 *)
LEMMA SafePort ==
  ASSUME TypeOK, SafeBody, Calls' = Calls, SameBlocks, undef' = undef,
         NEW l, Goto("port", l),
         l \notin Preparing \cup Stopping,
         dc'.pack_in_min = dc.pack_in_min,
         l \in Taking => Ready,
         ~ Ready => dc'.sig_num_count = 0,
         Ready =>
           /\ dc'.sig_num_count <= dc.pack_in_min
           /\ l \notin {"minute", "raise", "clear"} \cup Handling =>
                dc'.sig_num_count < dc.pack_in_min
           /\ l = "inc" => local'.count < dc.pack_in_min,
         l \in Using => local'.ptr \in {ping, pong}
  PROVE  SafeBody'
<1> USE DEF SafeBody
<1>1. /\ pc'["port"] = l /\ \A u \in Threads : u # "port" => pc'[u] = pc[u]
      /\ (Ready' <=> Ready) /\ (NoBuffers' <=> NoBuffers)
  BY DEF Goto, TypeOK, SameBlocks, Ready, NoBuffers, Threads
<1>2. Room'
  BY <1>1, RoomKept
<1>3. Before'
  BY <1>1 DEF Before, Threads, Preparing
<1>4. QED
  BY <1>1, <1>2, <1>3 DEF SameBlocks

(* The slot a thread goes to is in a buffer that is there.                 *)
LEMMA SlotMapped ==
  ASSUME TypeOK, SafeBody, pc["port"] \in Using, NEW k, k < dc.pack_in_min
  PROVE  Mapped(k)
<1>1. Ready /\ local.ptr \in {ping, pong}
  BY DEF SafeBody, Before, Using, Taking, Handling
<1>2. QED
  BY <1>1 DEF SafeBody, Room, Mapped, Ready

LEMMA SafeReceive ==
  ASSUME TypeOK, Calls' = Calls, SafeBody, Receive
  PROVE  SafeBody'
<1> USE DEF Taking, Handling, Preparing, Stopping, Using
<1>1. SameBlocks /\ dc \in Counters
  BY PortBlocks DEF TypeOK
<1>2. /\ ~ Ready => dc.sig_num_count = 0 /\ pc["port"] \notin Taking
      /\ Room
  BY DEF SafeBody, Before
<1> USE DEF At, process
<1>3. CASE Poll
  BY <1>1, <1>2, <1>3, SafePort DEF Poll, Room
<1>4. CASE Get
  BY <1>1, <1>2, <1>4, SafePort DEF Get, Room
<1>5. CASE CheckBuffers
  BY <1>1, <1>2, <1>5, SafePort DEF CheckBuffers, Room, Ready
<1>6. CASE LoadFlag
  BY <1>1, <1>2, <1>6, SafePort DEF LoadFlag, Room
<1>7. CASE Select
  <2>1. local'.ptr \in {ping, pong}
    BY <1>7 DEF Select, TypeOK
  <2>2. QED
    BY <1>1, <1>2, <1>7, <2>1, SafePort DEF Select, Room
<1>8. CASE Store
  <2>1. dc.sig_num_count < dc.pack_in_min
    BY <1>2, <1>8 DEF Store, Room
  <2>2. Mapped(dc.sig_num_count)
    BY <1>8, <2>1, SlotMapped DEF Store
  <2>3. QED
    BY <1>1, <1>2, <1>8, <2>2, SafePort DEF Store, Room
<1>9. CASE LoadCount
  <2>1. local'.count = dc.sig_num_count
    BY <1>9 DEF LoadCount, TypeOK
  <2>2. QED
    BY <1>1, <1>2, <1>9, <2>1, SafePort DEF LoadCount, Room
<1>10. CASE StoreCount
  <2>1. /\ dc'.sig_num_count = local.count + 1 /\ dc'.pack_in_min = dc.pack_in_min
        /\ local.count \in Nat /\ dc.pack_in_min \in Int
    BY <1>1, <1>10 DEF StoreCount, Counters, TypeOK
  <2>2. Ready => dc'.sig_num_count <= dc.pack_in_min
    BY <1>2, <1>10, <2>1 DEF StoreCount, Room
  <2>3. Goto("port", "minute") /\ UNCHANGED undef /\ Ready
    BY <1>2, <1>10 DEF StoreCount
  <2>4. QED
    BY <1>1, <2>1, <2>2, <2>3, SafePort
<1>11. CASE Minute
  <2>1. /\ dc'.sig_num_count = dc.sig_num_count /\ dc'.pack_in_min = dc.pack_in_min
        /\ dc.sig_num_count \in Nat /\ dc.pack_in_min \in Int
    BY <1>1, <1>11 DEF Minute, Counters
  <2>2. UNCHANGED undef /\ Ready /\ dc.sig_num_count <= dc.pack_in_min
    BY <1>2, <1>11 DEF Minute, Room
  <2>3. CASE Goto("port", "raise")
    BY <1>1, <2>1, <2>2, <2>3, SafePort
  <2>4. CASE Goto("port", "get") /\ dc.sig_num_count < dc.pack_in_min
    BY <1>1, <2>1, <2>2, <2>4, SafePort
  <2>5. QED
    BY <1>11, <2>1, <2>3, <2>4 DEF Minute
<1>12. CASE Raise
  BY <1>1, <1>2, <1>12, SafePort DEF Raise, Room
<1>13. CASE ClearCount
  <2>1. /\ dc'.sig_num_count = 0 /\ dc'.pack_in_min = dc.pack_in_min
        /\ Ready /\ dc.pack_in_min \in Nat \ {0}
    BY <1>1, <1>2, <1>13, RoomPositive DEF ClearCount, Counters
  <2>2. /\ Goto("port", "get") /\ UNCHANGED undef /\ Ready
        /\ dc'.sig_num_count < dc.pack_in_min /\ dc'.sig_num_count <= dc.pack_in_min
    BY <1>2, <1>13, <2>1 DEF ClearCount, Room
  <2>3. QED
    BY <1>1, <2>1, <2>2, SafePort
<1>14. QED
  BY <1>3, <1>4, <1>5, <1>6, <1>7, <1>8, <1>9, <1>10, <1>11, <1>12, <1>13 DEF Receive

LEMMA SafeHandler ==
  ASSUME TypeOK, Calls' = Calls, SafeBody, Handler
  PROVE  SafeBody'
<1> USE DEF Taking, Handling, Preparing, Stopping, Using
<1>1. SameBlocks /\ dc \in Counters
  BY PortBlocks DEF TypeOK
<1>2. /\ ~ Ready => dc.sig_num_count = 0 /\ pc["port"] \notin Taking
      /\ Room
      /\ pc["port"] \in Using => local.ptr \in {ping, pong}
  BY DEF SafeBody, Before
<1> USE DEF At, process
<1>3. CASE HandlerFlag
  BY <1>1, <1>2, <1>3, SafePort DEF HandlerFlag, Room
<1>4. CASE Begin
  <2>1. local'.ptr \in {ping, pong}
    BY <1>4 DEF Begin, TypeOK
  <2>2. QED
    BY <1>1, <1>2, <1>4, <2>1, SafePort DEF Begin, Room
<1>5. CASE Read
  <2>1. Mapped(local.i)
    BY <1>5, SlotMapped DEF Read
  <2>2. local'.ptr = local.ptr /\ undef' = undef
    BY <1>5, <2>1 DEF Read, TypeOK
  <2>3. QED
    BY <1>1, <1>2, <1>5, <2>2, SafePort DEF Read, Room
<1>6. CASE Rotate
  BY <1>1, <1>2, <1>6, SafePort DEF Rotate, TryClose, Room
<1>7. CASE Open
  BY <1>1, <1>2, <1>7, SafePort DEF Open, Room
<1>8. CASE WriteHeader
  BY <1>1, <1>2, <1>8, SafePort DEF WriteHeader, Room
<1>9. CASE WriteData
  <2>1. local'.ptr = local.ptr
    BY <1>9 DEF WriteData, TypeOK
  <2>2. QED
    BY <1>1, <1>2, <1>9, <2>1, SafePort DEF WriteData, Room
<1>10. CASE LoadMinutes
  BY <1>1, <1>2, <1>10, SafePort DEF LoadMinutes, Room
<1>11. CASE StoreMinutes
  <2>1. dc'.sig_num_count = dc.sig_num_count /\ dc'.pack_in_min = dc.pack_in_min
    BY <1>1, <1>11 DEF StoreMinutes, Counters
  <2>2. QED
    BY <1>1, <1>2, <1>11, <2>1, SafePort DEF StoreMinutes, Room
<1>12. CASE Restore
  BY <1>1, <1>2, <1>12, SafePort DEF Restore, Room
<1>13. QED
  BY <1>3, <1>4, <1>5, <1>6, <1>7, <1>8, <1>9, <1>10, <1>11, <1>12 DEF Handler

LEMMA SafeStep ==
  ASSUME TypeOK, OneStarter, SafeInv, [Next]_vars
  PROVE  SafeInv'
<1> SUFFICES ASSUME OneStart' PROVE SafeBody'
  BY DEF SafeInv
<1>1. OneStart
  BY OneStartBefore
<1>2. SafeBody
  BY <1>1 DEF SafeInv
<1>3. CASE Receive \/ Handler
  <2>1. Calls' = Calls
    BY <1>3, PortUncounted
  <2>2. QED
    BY <1>2, <1>3, <2>1, SafeReceive, SafeHandler
<1>4. CASE UNCHANGED vars
  BY <1>2, <1>4
     DEF vars, buffers, process, hist, SafeBody, Before, Room, Ready, NoBuffers, Calls
<1>5. QED
  BY <1>1, <1>2, <1>3, <1>4, SafeStart, SafeStop DEF Next

(* One start by itself, of either thread, whatever fails in it, be its      *)
(* frequency accepted or refused, and whichever packets arrive meanwhile,   *)
(* never makes the port thread or its handler touch a packet outside the    *)
(* buffers (mythreads.c:231-250, :308-337), as long as no calloc was asked  *)
(* for 0 packets: a frequency of 0 or 1 does that (:103, :118).  That is the*)
(* one assumption on what a client asks for; StoresInside shows what happens*)
(* without it.                                                              *)
THEOREM SafeWithOneStart == Spec => []OneStartIsSafe
<1>1. Init => TypeInv /\ OneStarter /\ SafeInv
  <2>1. Init => TypeInv
    BY InitType DEF TypeInv, PackLeft, Init, Threads
  <2>2. Init => OneStarter
    BY DEF Init, OneStarter, Starting, Threads
  <2>3. Init => SafeInv
    BY DEF Init, SafeInv, SafeBody, Before, Room, Ready, NoBuffers, Threads, Preparing,
           Stopping, Taking, Handling, Using
  <2>4. QED
    BY <2>1, <2>2, <2>3
<1>2. TypeInv /\ OneStarter /\ SafeInv /\ [Next]_vars
        => TypeInv' /\ OneStarter' /\ SafeInv'
  BY TypeStep, OneStarterStep, SafeStep DEF TypeInv
<1>3. SafeInv => OneStartIsSafe
  BY DEF SafeInv, SafeBody, OneStartIsSafe
<1>4. QED
  BY <1>1, <1>2, <1>3, PTL DEF Spec

-----------------------------------------------------------------------------
(* The order of what is recorded.                                          *)

(* adc_fd never comes to name any file but the last.                       *)
LastFile == adc_fd \in {NoFile, Len(files)}

Filling == IF dc.flag = Pong THEN pong ELSE ping
Full    == IF dc.flag = Pong THEN ping ELSE pong
FillingData == heap[Filling].data
FullData    == heap[Full].data

(* x is later than all packets recorded in the files fs.                   *)
Later(x, fs) ==
  \A f \in 1 .. Len(fs) : \A k \in 1 .. Len(fs[f]) :
    fs[f][k] \notin {Header, Part} => fs[f][k] < x

(* The packets from place a to place z of d are in order, came before or   *)
(* with packet last, and are yet to be recorded.                           *)
Ahead(d, a, z, last, fs) ==
  \A j \in a .. z :
    /\ d[j] \in 1 .. last
    /\ \A k \in a .. z : j < k => d[j] < d[k]
    /\ Later(d[j], fs)

(* What is recorded is in order, and came before or with packet last.      *)
InOrder(fs, last) ==
  \A f, g \in 1 .. Len(fs) : \A k \in 1 .. Len(fs[f]), l \in 1 .. Len(fs[g]) :
    fs[f][k] \notin {Header, Part} /\ fs[g][l] \notin {Header, Part} =>
      /\ fs[f][k] \in 1 .. last
      /\ f < g \/ (f = g /\ k < l) => fs[f][k] < fs[g][l]

(* The packet just taken in is neither counted nor recorded.               *)
Newest ==
  /\ \A j \in 1 .. dc.sig_num_count : FillingData[j] # lastPack
  /\ Later(lastPack, files)

Arriving ==
  /\ pc["port"] \notin {"load", "inc", "raise", "clear"} \cup Handling =>
       Ahead(FillingData, 1, dc.sig_num_count, lastPack, files)
  /\ pc["port"] \in {"flag", "select", "store"} => Newest /\ lastPack \in Nat \ {0}
  /\ pc["port"] = "select" => local.flag = dc.flag
  /\ pc["port"] = "store" => local.ptr = Filling
  /\ pc["port"] = "load" =>
       Ahead(FillingData, 1, dc.sig_num_count + 1, lastPack, files)
  /\ pc["port"] = "inc" => Ahead(FillingData, 1, local.count + 1, lastPack, files)

Writing ==
  /\ pc["port"] \in {"raise", "handler", "begin"} =>
       Ahead(FullData, 1, dc.pack_in_min, lastPack, files)
  /\ pc["port"] = "begin" => local.flag = dc.flag
  /\ pc["port"] \in {"read", "rotate", "open", "header", "write"} =>
       /\ local.ptr = Full
       /\ Ahead(FullData, local.i + 1, dc.pack_in_min, lastPack, files)
  /\ pc["port"] \in {"rotate", "open", "header", "write"} =>
       local.i < dc.pack_in_min /\ local.pack = FullData[local.i + 1]

OrderBody ==
  /\ InOrder(files, lastPack)
  /\ Ready => Arriving /\ Writing

OrderInv == OneStart => OrderBody

(* Fewer packets, and packets taken in since.                              *)
LEMMA AheadPart ==
  ASSUME NEW d, NEW fs, NEW a \in Nat, NEW z \in Int, NEW last \in Nat,
         Ahead(d, a, z, last, fs),
         NEW a2 \in Nat, NEW z2 \in Int, NEW last2 \in Nat,
         a <= a2, z2 <= z, last <= last2
  PROVE  Ahead(d, a2, z2, last2, fs)
<1>1. \A j \in a2 .. z2 : j \in a .. z
  OBVIOUS
<1>2. 1 .. last \subseteq 1 .. last2
  OBVIOUS
<1>3. QED
  BY <1>1, <1>2, Zenon DEF Ahead

LEMMA AheadNone ==
  ASSUME NEW d, NEW fs, NEW last
  PROVE  Ahead(d, 1, 0, last, fs)
  BY DEF Ahead

(* A packet is stored behind those counted.                                *)
LEMMA AheadStored ==
  ASSUME NEW d, NEW e, NEW fs, NEW c \in Nat, NEW last \in Nat \ {0},
         Ahead(d, 1, c, last, fs), Later(last, fs),
         \A j \in 1 .. c : d[j] # last /\ e[j] = d[j],
         e[c + 1] = last
  PROVE  Ahead(e, 1, c + 1, last, fs)
<1>1. \A j \in 1 .. c + 1 : j \in 1 .. c \/ j = c + 1
  OBVIOUS
<1>2. \A j \in 1 .. c + 1 : e[j] \in 1 .. last /\ Later(e[j], fs)
  BY <1>1 DEF Ahead
<1>3. \A j \in 1 .. c : e[j] < last
  BY <1>2 DEF Ahead
<1>4. \A j, k \in 1 .. c + 1 : j < k => e[j] < e[k]
  BY <1>1, <1>3 DEF Ahead
<1>5. QED
  BY <1>2, <1>4 DEF Ahead

-----------------------------------------------------------------------------
(* What a write and an open do to the files.                               *)

DataFiles == Seq(Seq(Entries))

LEMMA EntryInt == Entries \subseteq Int
  BY BoundsAssumption DEF Entries, Contents, Packets, Blank, Junk, Header, Part

(* gs are the files fs with x behind the last of them.                     *)
Written(fs, gs, x) ==
  /\ Len(fs) \in Nat \ {0} /\ Len(gs) = Len(fs)
  /\ \A f \in 1 .. Len(fs) :
       /\ Len(fs[f]) \in Nat
       /\ \A k \in 1 .. Len(fs[f]) : fs[f][k] \in Int /\ gs[f][k] = fs[f][k]
       /\ IF f = Len(fs) THEN Len(gs[f]) = Len(fs[f]) + 1 /\ gs[f][Len(fs[f]) + 1] = x
                         ELSE gs[f] = fs[f]

LEMMA WriteIsWritten ==
  ASSUME NEW fs \in DataFiles, NEW F \in 1 .. Len(fs), F = Len(fs), NEW x \in Entries
  PROVE  Written(fs, [fs EXCEPT ![F] = Append(@, x)], x)
<1> DEFINE old == fs[F]
           new == Append(old, x)
           gs == [fs EXCEPT ![F] = new]
<1>1. Len(fs) \in Nat /\ \A f \in 1 .. Len(fs) : fs[f] \in Seq(Entries)
  BY ElementOfSeq, LenProperties DEF DataFiles
<1>2. \A f \in 1 .. Len(fs) : \A k \in 1 .. Len(fs[f]) : fs[f][k] \in Int
  BY <1>1, ElementOfSeq, EntryInt
<1>3. Len(gs) = Len(fs) /\ \A f \in 1 .. Len(fs) : gs[f] = IF f = F THEN new ELSE fs[f]
  <2> HIDE DEF new
  <2>1. QED
    BY DEF DataFiles
<1>4. \A f \in 1 .. Len(fs) : Len(fs[f]) \in Nat
  BY <1>1, LenProperties
<1>5. /\ Len(new) = Len(old) + 1 /\ new[Len(old) + 1] = x
      /\ \A k \in 1 .. Len(old) : new[k] = old[k]
  BY <1>1, AppendProperties
<1> HIDE DEF new, gs
<1>6. Written(fs, gs, x)
  BY <1>1, <1>2, <1>3, <1>4, <1>5 DEF Written
<1>7. QED
  BY <1>6 DEF gs, new

(* A record that is not a packet, or an earlier packet.                    *)
LEMMA LaterWritten ==
  ASSUME NEW fs, NEW gs, NEW x, NEW y, Written(fs, gs, x), Later(y, fs),
         x \notin {Header, Part} => x < y
  PROVE  Later(y, gs)
<1>1. ASSUME NEW f \in 1 .. Len(gs), NEW k \in 1 .. Len(gs[f]),
             gs[f][k] \notin {Header, Part}
      PROVE  gs[f][k] < y
  <2>1. f \in 1 .. Len(fs)
    BY DEF Written
  <2>2. k \in 1 .. Len(fs[f]) \/ (f = Len(fs) /\ k = Len(fs[f]) + 1)
    BY <1>1, <2>1 DEF Written
  <2>3. CASE k \in 1 .. Len(fs[f])
    BY <1>1, <2>1, <2>3 DEF Written, Later
  <2>4. CASE f = Len(fs) /\ k = Len(fs[f]) + 1
    BY <1>1, <2>1, <2>4 DEF Written
  <2>5. QED
    BY <2>2, <2>3, <2>4
<1>2. QED
  BY <1>1 DEF Later

LEMMA InOrderWritten ==
  ASSUME NEW fs, NEW gs, NEW x, NEW last, Written(fs, gs, x), InOrder(fs, last),
         x \notin {Header, Part} => x \in 1 .. last /\ Later(x, fs)
  PROVE  InOrder(gs, last)
<1> DEFINE Old(f, k) == k \in 1 .. Len(fs[f])
           New(f, k) == f = Len(fs) /\ k = Len(fs[f]) + 1
<1>1. ASSUME NEW f \in 1 .. Len(gs), NEW k \in 1 .. Len(gs[f])
      PROVE  /\ f \in 1 .. Len(fs) /\ Len(fs) \in Nat /\ Len(fs[f]) \in Nat
             /\ \/ Old(f, k) /\ gs[f][k] = fs[f][k]
                \/ New(f, k) /\ gs[f][k] = x
  <2>1. f \in 1 .. Len(fs) /\ Len(fs) \in Nat
    BY DEF Written
  <2>2. QED
    BY <1>1, <2>1 DEF Written
<1>2. ASSUME NEW f \in 1 .. Len(gs), NEW k \in 1 .. Len(gs[f]),
             NEW g \in 1 .. Len(gs), NEW l \in 1 .. Len(gs[g]),
             gs[f][k] \notin {Header, Part}, gs[g][l] \notin {Header, Part}
      PROVE  /\ gs[f][k] \in 1 .. last
             /\ f < g \/ (f = g /\ k < l) => gs[f][k] < gs[g][l]
  <2>1. gs[f][k] \in 1 .. last
    <3>1. CASE Old(f, k) /\ gs[f][k] = fs[f][k]
      <4>1. f \in 1 .. Len(fs)
        BY <1>1
      <4>2. QED
        BY <1>2, <3>1, <4>1 DEF InOrder
    <3>2. QED
      BY <1>1, <1>2, <3>1
  <2>2. ASSUME f < g \/ (f = g /\ k < l) PROVE gs[f][k] < gs[g][l]
    <3>1. Old(f, k) /\ gs[f][k] = fs[f][k]
      <4>1. /\ g \in 1 .. Len(fs) /\ Len(fs) \in Nat
            /\ l \in 1 .. Len(fs[g]) \/ (g = Len(fs) /\ l = Len(fs[g]) + 1)
        BY <1>1
      <4>2. ~ New(f, k)
        BY <2>2, <4>1, <1>1
      <4>3. QED
        BY <1>1, <4>2
    <3>2. CASE Old(g, l) /\ gs[g][l] = fs[g][l]
      BY <1>1, <1>2, <2>2, <3>1, <3>2 DEF InOrder
    <3>3. CASE New(g, l) /\ gs[g][l] = x
      BY <1>1, <1>2, <3>1, <3>3 DEF Later
    <3>4. QED
      BY <1>1, <3>2, <3>3
  <2>3. QED
    BY <2>1, <2>2
<1>3. QED
  BY <1>2 DEF InOrder

(* A new file is empty.                                                    *)
LEMMA OpenedFiles ==
  ASSUME NEW fs \in DataFiles
  PROVE  /\ \A y : Later(y, fs) => Later(y, Append(fs, << >>))
         /\ \A last : InOrder(fs, last) => InOrder(Append(fs, << >>), last)
<1> DEFINE gs == Append(fs, << >>)
<1>1. /\ Len(fs) \in Nat /\ Len(gs) = Len(fs) + 1 /\ gs[Len(fs) + 1] = << >>
      /\ \A f \in 1 .. Len(fs) : gs[f] = fs[f]
  BY AppendProperties, LenProperties DEF DataFiles
<1> HIDE DEF gs
<1>2. ASSUME NEW f \in 1 .. Len(gs), NEW k \in 1 .. Len(gs[f])
      PROVE  f \in 1 .. Len(fs) /\ gs[f] = fs[f]
  <2>1. f \in 1 .. Len(fs) \/ f = Len(fs) + 1
    BY <1>1
  <2>2. Len(<< >>) = 0
    OBVIOUS
  <2>3. QED
    BY <1>1, <1>2, <2>1, <2>2
<1>3. \A y : Later(y, fs) => Later(y, gs)
  BY <1>2 DEF Later
<1>4. \A last : InOrder(fs, last) => InOrder(gs, last)
  <2> SUFFICES ASSUME NEW last, InOrder(fs, last),
                      NEW f \in 1 .. Len(gs), NEW g \in 1 .. Len(gs),
                      NEW k \in 1 .. Len(gs[f]), NEW l \in 1 .. Len(gs[g])
               PROVE  gs[f][k] \notin {Header, Part} /\ gs[g][l] \notin {Header, Part} =>
                        /\ gs[f][k] \in 1 .. last
                        /\ f < g \/ (f = g /\ k < l) => gs[f][k] < gs[g][l]
    BY DEF InOrder
  <2>1. /\ f \in 1 .. Len(fs) /\ gs[f] = fs[f]
        /\ g \in 1 .. Len(fs) /\ gs[g] = fs[g]
    BY <1>2
  <2>2. QED
    BY <2>1 DEF InOrder
<1>5. QED
  BY <1>3, <1>4 DEF gs

(* Whatever is open under adc_fd is the last file.                         *)
LEMMA FileWritten ==
  ASSUME TypeOK, LastFile, NEW x \in Entries, WriteFile(x)
  PROVE  /\ \/ files' = files
            \/ /\ adc_fd \in open
               /\ Written(files, files', x) \/ Written(files, files', Part)
         /\ Len(files') = Len(files)
<1>1. ASSUME NEW y \in Entries, adc_fd \in open, Adds(y)
      PROVE  Written(files, files', y)
  <2>1. files \in DataFiles /\ adc_fd \in 1 .. Len(files) /\ adc_fd = Len(files)
    BY <1>1, NoFileNotOpen DEF TypeOK, DataFiles, Entries, LastFile
  <2>2. QED
    BY <1>1, <2>1, WriteIsWritten DEF Adds
<1>2. \/ files' = files
      \/ adc_fd \in open /\ (Adds(x) \/ Adds(Part))
  BY WriteCases
<1>3. Part \in Entries
  BY DEF Entries
<1>4. Len(files') = Len(files)
  BY WriteType
<1>5. QED
  BY <1>1, <1>2, <1>3, <1>4

LEMMA LastFileStep ==
  ASSUME TypeOK, LastFile, [Next]_vars
  PROVE  LastFile'
<1>1. CASE Open
  <2>1. \/ files' = Append(files, << >>) /\ adc_fd' = Len(files) + 1
        \/ files' = files /\ adc_fd' = NoFile
    BY <1>1 DEF Open
  <2>2. Len(Append(files, << >>)) = Len(files) + 1
    BY AppendProperties, EmptySeq DEF TypeOK
  <2>3. QED
    BY <2>1, <2>2 DEF LastFile
<1>2. CASE WriteHeader \/ WriteData
  <2>1. Len(files') = Len(files)
    BY <1>2, FileWritten DEF WriteHeader, WriteData, Entries, TypeOK
  <2>2. adc_fd' = adc_fd
    BY <1>2 DEF WriteHeader, WriteData
  <2>3. QED
    BY <2>1, <2>2 DEF LastFile
<1>3. CASE ~ (Open \/ WriteHeader \/ WriteData)
  <2>1. UNCHANGED files /\ adc_fd' \in {adc_fd, NoFile}
    BY <1>3
       DEF Next, PrepareStart, CallStart, NetStart, PortStart, StartWith, WorkDir, Params,
           Mempool, Alloc, Close, Reset, StartDevice, Signal, Zero, PrepareStop, CallStop,
           StopClose, StopReset, Free, Memset, Ignore, Receive, Poll, Get, CheckBuffers,
           LoadFlag, Select, Store, LoadCount, StoreCount, Minute, Raise, ClearCount,
           Handler, HandlerFlag, Begin, Read, Rotate, LoadMinutes, StoreMinutes,
           Restore, vars, file
  <2>2. QED
    BY <2>1 DEF LastFile
<1>4. QED
  BY <1>1, <1>2, <1>3

-----------------------------------------------------------------------------
(* Steps that record nothing.                                              *)

LEMMA OrderUnready ==
  ASSUME OrderBody, UNCHANGED <<files, lastPack>>, ~ Ready'
  PROVE  OrderBody'
  BY DEF OrderBody, InOrder

LEMMA OrderNat ==
  ASSUME TypeOK
  PROVE  /\ lastPack \in Nat /\ dc.sig_num_count \in Nat /\ dc.pack_in_min \in Int
         /\ local.i \in Nat /\ local.count \in Nat
  BY BoundsAssumption DEF TypeOK, Counters

(* A start that clears sig_num_count may drop packets of a minute.         *)
LEMMA OrderQuiet ==
  ASSUME TypeOK, OrderBody, UNCHANGED <<files, lastPack, local, buffers>>,
         UNCHANGED <<dc.flag, dc.pack_in_min>>,
         dc'.sig_num_count \in {dc.sig_num_count, 0},
         \/ pc'["port"] = pc["port"]
         \/ pc["port"] \notin Taking /\ pc'["port"] \notin Taking
  PROVE  OrderBody'
<1> SUFFICES ASSUME Ready PROVE Arriving' /\ Writing'
  BY OrderUnready DEF OrderBody, InOrder, buffers, Ready
<1> USE DEF Taking, Handling
<1>0. /\ files' = files /\ lastPack' = lastPack /\ local' = local
      /\ dc'.sig_num_count = dc.sig_num_count \/ dc'.sig_num_count = 0
      /\ dc'.flag = dc.flag /\ dc'.pack_in_min = dc.pack_in_min
  OBVIOUS
<1>1. Arriving /\ Writing
  BY DEF OrderBody
<1>2. /\ UNCHANGED <<Filling, Full, FillingData, FullData>>
  BY DEF Filling, Full, FillingData, FullData, buffers
<1>3. Writing'
  BY <1>1, <1>2 DEF Writing
<1>4. \A last : Ahead(FillingData, 1, 0, last, files)
  BY AheadNone
<1>5. Ahead(FillingData, 1, dc.sig_num_count + 1, lastPack, files)
        => Ahead(FillingData, 1, 0 + 1, lastPack, files)
  BY AheadPart, OrderNat
<1>6. Newest /\ pc'["port"] = pc["port"] => Newest'
  <2>1. \A j \in 1 .. dc'.sig_num_count : j \in 1 .. dc.sig_num_count
    BY OrderNat
  <2>2. QED
    BY <1>2, <2>1 DEF Newest
<1>7. CASE pc'["port"] = pc["port"]
  <2>1. Arriving'
    BY <1>0, <1>1, <1>2, <1>4, <1>5, <1>6, <1>7 DEF Arriving
  <2>2. QED
    BY <2>1, <1>3
<1>8. CASE pc["port"] \notin Taking /\ pc'["port"] \notin Taking
  <2>1. Arriving'
    BY <1>0, <1>1, <1>2, <1>4, <1>8 DEF Arriving
  <2>2. QED
    BY <2>1, <1>3
<1>9. QED
  BY <1>3, <1>7, <1>8

LEMMA OrderStart ==
  ASSUME TypeOK, OneStart, OneStart', SafeBody, OrderBody,
         NEW t \in Threads, PrepareStart(t)
  PROVE  OrderBody'
<1> USE DEF Taking, Handling
<1>1. UNCHANGED <<files, lastPack, local>>
  BY DEF PrepareStart, CallStart, NetStart, PortStart, StartWith, WorkDir, Params,
         Mempool, Alloc, Close, Reset, StartDevice, Signal, Zero, file, hist
<1>2. pc["port"] = pc'["port"] \/ (pc["port"] \notin Taking /\ pc'["port"] \notin Taking)
  <2>1. pc \in [Threads -> Labels] /\ "port" \in Threads
    BY DEF TypeOK, Threads
  <2>2. QED
    BY <2>1 DEF PrepareStart, CallStart, NetStart, PortStart, StartWith, WorkDir, Params,
           Mempool, Alloc, Close, Reset, StartDevice, Signal, Zero, TryClose, Goto,
           Return, At
<1>3. CASE CallStart(t) \/ Params(t)
  <2>1. CallStart(t) => Calls = 0
    BY CallCounted, CallsNat DEF OneStart
  <2>2. ~ Ready
    BY <1>3, <2>1 DEF Params, At, SafeBody, Before, NoBuffers, Ready, Preparing
  <2>3. UNCHANGED <<ping, pong>>
    BY <1>3 DEF CallStart, NetStart, PortStart, StartWith, Params, buffers
  <2>4. QED
    BY <1>1, <2>2, <2>3, OrderUnready DEF Ready
<1>4. CASE Alloc(t)
  <2>1. /\ dc.sig_num_count = 0 /\ pc["port"] \notin Taking /\ dc' = dc
    BY <1>4 DEF Alloc, At, SafeBody, Before, NoBuffers, Ready, Preparing
  <2>2. Ahead(FillingData', 1, dc'.sig_num_count, lastPack', files')
    BY <2>1, AheadNone
  <2>3. pc'["port"] \notin Taking
    BY <1>2, <2>1
  <2>4. Arriving' /\ Writing'
    BY <2>2, <2>3 DEF Arriving, Writing
  <2>5. QED
    BY <1>1, <2>4 DEF OrderBody, InOrder
<1>5. CASE WorkDir(t) \/ Mempool(t) \/ Close(t) \/ Reset(t) \/ StartDevice(t) \/ Signal(t)
  <2>1. dc' = dc /\ UNCHANGED buffers
    BY <1>5 DEF WorkDir, Mempool, Close, Reset, StartDevice, Signal
  <2>2. QED
    BY <1>1, <1>2, <2>1, OrderQuiet
<1>6. CASE Zero(t)
  <2>1. /\ dc'.sig_num_count = 0 /\ UNCHANGED <<dc.flag, dc.pack_in_min>>
        /\ UNCHANGED buffers
    BY <1>6 DEF Zero, TypeOK, Counters
  <2>2. QED
    BY <1>1, <1>2, <2>1, OrderQuiet
<1>7. QED
  BY <1>3, <1>4, <1>5, <1>6 DEF PrepareStart

LEMMA OrderStop ==
  ASSUME TypeOK, OneStarter, OneStart, OneStart', SafeBody, OrderBody, PrepareStop
  PROVE  OrderBody'
<1>1. UNCHANGED <<files, lastPack>>
  BY DEF PrepareStop, CallStop, StopClose, StopReset, Free, Memset, Ignore, file, hist
<1>2. QED
  BY <1>1, StopBefore, OrderUnready

-----------------------------------------------------------------------------
(* Steps of the port thread.                                               *)

(* Taking a packet in: the step leaves the files alone.                    *)
LEMMA OrderReceive ==
  ASSUME TypeOK, SafeBody, SafeBody', OrderBody, Receive
  PROVE  OrderBody'
<1> USE DEF At, process, Goto
<1>1. files' = files /\ ping' = ping /\ pong' = pong
  BY DEF Receive, Poll, Get, CheckBuffers, LoadFlag, Select, Store, LoadCount,
         StoreCount, Minute, Raise, ClearCount, file, buffers
<1>2. CASE ~ Ready
  <2>1. lastPack' = lastPack
    BY <1>2 DEF SafeBody, Before, Taking, Handling, Receive, Poll, Get, CheckBuffers,
                LoadFlag, Select, Store, LoadCount, StoreCount, Minute, Raise,
                ClearCount, hist, Ready
  <2>2. QED
    BY <1>1, <1>2, <2>1, OrderUnready DEF Ready
<1>3. CASE Ready
  <2>1. Arriving /\ Writing /\ Room /\ InOrder(files, lastPack)
    BY <1>3 DEF OrderBody, SafeBody
  <2>2. pc \in [Threads -> Labels] /\ "port" \in Threads /\ dc \in Counters
    BY DEF TypeOK, Threads
  <2> USE DEF Handling
  <2>3. CASE Poll
    <3>1. pc["port"] \notin Taking /\ pc'["port"] \notin Taking
      BY <2>2, <2>3 DEF Poll, Taking
    <3>2. QED
      BY <2>3, <3>1, OrderQuiet DEF Poll, hist, file
  <2>4. CASE Get
    <3>1. pc["port"] \notin Taking /\ pc'["port"] \notin Taking
      BY <2>2, <2>4 DEF Get, Taking
    <3>2. QED
      BY <2>4, <3>1, OrderQuiet DEF Get, hist, file
  <2>5. CASE CheckBuffers
    <3>1. /\ lastPack' = lastPack + 1 /\ pc["port"] = "check" /\ pc'["port"] = "flag"
          /\ UNCHANGED <<dc, local, FillingData, FullData>>
      BY <1>3, <2>2, <2>5
         DEF CheckBuffers, Ready, FillingData, FullData, Filling, Full, buffers
    <3>2. Ahead(FillingData, 1, dc.sig_num_count, lastPack, files)
      BY <2>1, <3>1 DEF Arriving
    <3>3. \A j \in 1 .. dc.sig_num_count : FillingData[j] # lastPack'
      BY <3>1, <3>2, OrderNat DEF Ahead
    <3>4. Later(lastPack', files)
      BY <2>1, <3>1, OrderNat DEF InOrder, Later
    <3>5. Newest'
      BY <1>1, <3>1, <3>3, <3>4 DEF Newest
    <3>6. Ahead(FillingData, 1, dc.sig_num_count, lastPack', files)
      BY <3>1, <3>2, AheadPart, OrderNat
    <3>7. InOrder(files, lastPack')
      <4>1. 1 .. lastPack \subseteq 1 .. lastPack'
        BY <3>1, OrderNat
      <4>2. QED
        BY <2>1, <4>1 DEF InOrder
    <3>8. Arriving'
      BY <1>1, <3>1, <3>5, <3>6, OrderNat DEF Arriving
    <3>9. Writing'
      BY <3>1 DEF Writing
    <3>10. QED
      BY <1>1, <3>7, <3>8, <3>9 DEF OrderBody
  <2>6. CASE LoadFlag
    <3>1. /\ pc["port"] = "flag" /\ pc'["port"] = "select" /\ local'.flag = dc'.flag
          /\ UNCHANGED <<dc, lastPack, FillingData>>
      BY <2>2, <2>6 DEF LoadFlag, TypeOK, FillingData, Filling, buffers, hist
    <3>2. Newest => Newest'
      BY <1>1, <3>1 DEF Newest
    <3>3. Arriving' /\ Writing'
      BY <1>1, <2>1, <3>1, <3>2 DEF Arriving, Writing
    <3>4. QED
      BY <1>1, <2>1, <3>1, <3>3 DEF OrderBody
  <2>7. CASE Select
    <3>1. /\ pc["port"] = "select" /\ pc'["port"] = "store"
          /\ UNCHANGED <<dc, lastPack, FillingData, Filling>>
      BY <2>2, <2>7 DEF Select, FillingData, Filling, buffers, hist
    <3>2. local'.ptr = Filling
      BY <2>1, <2>7, <3>1 DEF Select, TypeOK, Filling, Arriving
    <3>3. Newest => Newest'
      BY <1>1, <3>1 DEF Newest
    <3>4. Arriving' /\ Writing'
      BY <1>1, <2>1, <3>1, <3>2, <3>3 DEF Arriving, Writing
    <3>5. QED
      BY <1>1, <2>1, <3>1, <3>4 DEF OrderBody
  <2>8. CASE Store
    <3> DEFINE c == dc.sig_num_count
               p == local.ptr
    <3>1. /\ pc["port"] = "store" /\ pc'["port"] = "load" /\ p = Filling
          /\ UNCHANGED <<dc, lastPack, Filling>>
      BY <2>1, <2>2, <2>8 DEF Store, Filling, hist, Arriving
    <3>2. c < dc.pack_in_min /\ p \in {ping, pong}
      BY <1>3, <2>1, <3>1 DEF Room, SafeBody, Using
    <3>3. Mapped(c)
      BY <3>1, <3>2, SlotMapped DEF Using
    <3>4. heap' = [heap EXCEPT ![p].data[c + 1] = lastPack]
      BY <2>8, <3>3 DEF Store
    <3>5. p \in 1 .. Len(heap) /\ heap \in Seq(HeapBlock)
      BY <3>3 DEF TypeOK, Mapped, Null, HeapBlock
    <3>6. heap[p].data \in Seq(Contents) /\ heap[p] \in HeapBlock
      <4>1. heap[p] \in HeapBlock
        BY <3>5, ElementOfSeq
      <4>2. QED
        BY <4>1 DEF HeapBlock
    <3>7. c + 1 \in 1 .. Len(heap[p].data)
      <4>1. c \in Nat /\ c < Len(heap[p].data)
        BY <3>3, OrderNat DEF Mapped
      <4>2. Len(heap[p].data) \in Nat
        BY <3>6, LenProperties
      <4>3. QED
        BY <4>1, <4>2
    <3>8. heap'[p].data = [heap[p].data EXCEPT ![c + 1] = lastPack]
      BY <3>4, <3>5, <3>6 DEF HeapBlock
    <3>9. /\ heap'[p].data[c + 1] = lastPack
          /\ \A j \in 1 .. c : heap'[p].data[j] = heap[p].data[j]
      BY <3>6, <3>7, <3>8, OrderNat
    <3>10. Ahead(FillingData, 1, c, lastPack, files) /\ Newest /\ lastPack \in Nat \ {0}
      BY <2>1, <3>1 DEF Arriving
    <3>11. Ahead(FillingData', 1, c + 1, lastPack, files)
      <4>1. \A j \in 1 .. c : FillingData[j] # lastPack /\ FillingData'[j] = FillingData[j]
        BY <3>1, <3>9, <3>10 DEF Newest, FillingData
      <4>2. FillingData'[c + 1] = lastPack /\ Later(lastPack, files)
        BY <3>1, <3>9, <3>10 DEF Newest, FillingData
      <4>3. QED
        BY <3>10, <4>1, <4>2, AheadStored, OrderNat
    <3>12. Arriving' /\ Writing'
      BY <1>1, <3>1, <3>11 DEF Arriving, Writing
    <3>13. QED
      BY <1>1, <2>1, <3>1, <3>12 DEF OrderBody
  <2>9. CASE LoadCount
    <3>1. /\ pc["port"] = "load" /\ pc'["port"] = "inc" /\ local'.count = dc.sig_num_count
          /\ UNCHANGED <<dc, lastPack, FillingData>>
      BY <2>2, <2>9 DEF LoadCount, TypeOK, FillingData, Filling, buffers, hist
    <3>2. Arriving' /\ Writing'
      BY <1>1, <2>1, <3>1 DEF Arriving, Writing
    <3>3. QED
      BY <1>1, <2>1, <3>1, <3>2 DEF OrderBody
  <2>10. CASE StoreCount
    <3>1. /\ pc["port"] = "inc" /\ pc'["port"] = "minute"
          /\ dc'.sig_num_count = local.count + 1 /\ UNCHANGED <<lastPack, FillingData>>
      BY <2>2, <2>10 DEF StoreCount, Counters, FillingData, Filling, buffers, hist
    <3>2. Arriving' /\ Writing'
      BY <1>1, <2>1, <3>1 DEF Arriving, Writing
    <3>3. QED
      BY <1>1, <2>1, <3>1, <3>2 DEF OrderBody
  <2>11. CASE Minute
    <3>1. /\ pc["port"] = "minute" /\ UNCHANGED <<lastPack, local>>
          /\ UNCHANGED <<dc.sig_num_count, dc.pack_in_min, buffers>>
          /\ Ahead(FillingData, 1, dc.sig_num_count, lastPack, files)
      BY <2>1, <2>2, <2>11 DEF Minute, Counters, hist, Arriving
    <3>2. CASE pc'["port"] = "raise" /\ dc.sig_num_count >= dc.pack_in_min
      <4>1. dc'.flag = 1 - dc.flag
        BY <2>2, <2>11, <3>2 DEF Minute, Counters, Pong, Ping
      <4>2. FullData' = FillingData
        BY <2>2, <3>1, <4>1
           DEF FullData, FillingData, Full, Filling, Pong, Ping, buffers, Counters
      <4>3. Ahead(FillingData, 1, dc.pack_in_min, lastPack, files)
        BY <3>1, <3>2, AheadPart, OrderNat
      <4>4. Arriving' /\ Writing'
        BY <1>1, <3>1, <3>2, <4>2, <4>3 DEF Arriving, Writing
      <4>5. QED
        BY <1>1, <2>1, <3>1, <4>4 DEF OrderBody
    <3>3. CASE pc'["port"] = "get" /\ dc' = dc
      <4>1. FillingData' = FillingData
        BY <3>1, <3>3 DEF FillingData, Filling, buffers
      <4>2. Arriving' /\ Writing'
        BY <1>1, <3>1, <3>3, <4>1 DEF Arriving, Writing
      <4>3. QED
        BY <1>1, <2>1, <3>1, <4>2 DEF OrderBody
    <3>4. QED
      BY <2>2, <2>11, <3>2, <3>3 DEF Minute
  <2>12. CASE Raise
    <3>1. /\ pc["port"] = "raise" /\ pc'["port"] \in {"handler", "clear"}
          /\ UNCHANGED <<dc, lastPack, FullData>>
      BY <2>2, <2>12 DEF Raise, FullData, Full, buffers, hist
    <3>2. Arriving' /\ Writing'
      BY <1>1, <2>1, <3>1 DEF Arriving, Writing
    <3>3. QED
      BY <1>1, <2>1, <3>1, <3>2 DEF OrderBody
  <2>13. CASE ClearCount
    <3>1. pc'["port"] = "get" /\ dc'.sig_num_count = 0 /\ lastPack' = lastPack
      BY <2>2, <2>13 DEF ClearCount, Counters, hist
    <3>2. Ahead(FillingData', 1, dc'.sig_num_count, lastPack', files')
      BY <3>1, AheadNone
    <3>3. Arriving' /\ Writing'
      BY <3>1, <3>2 DEF Arriving, Writing
    <3>4. QED
      BY <1>1, <2>1, <3>1, <3>3 DEF OrderBody
  <2>14. QED
    BY <2>3, <2>4, <2>5, <2>6, <2>7, <2>8, <2>9, <2>10, <2>11, <2>12, <2>13 DEF Receive
<1>4. QED
  BY <1>2, <1>3

(* The packet is written, and the rest of the minute is still ahead.       *)
LEMMA AheadWritten ==
  ASSUME NEW fs, NEW gs, NEW d, NEW a \in Nat, NEW z \in Int, NEW last \in Nat,
         a <= z, Ahead(d, a, z, last, fs), InOrder(fs, last),
         Written(fs, gs, d[a]) \/ Written(fs, gs, Part) \/ gs = fs
  PROVE  Ahead(d, a + 1, z, last, gs) /\ InOrder(gs, last)
<1>1. d[a] \in 1 .. last /\ Later(d[a], fs)
  BY DEF Ahead
<1>2. \A j \in a + 1 .. z : j \in a .. z /\ a < j
  OBVIOUS
<1>3. \A j \in a + 1 .. z : d[a] < d[j] /\ Later(d[j], fs)
  BY <1>2 DEF Ahead
<1>4. \A j \in a + 1 .. z : Later(d[j], gs)
  BY <1>3, LaterWritten
<1>5. Ahead(d, a + 1, z, last, gs)
  BY <1>2, <1>4 DEF Ahead
<1>6. InOrder(gs, last)
  BY <1>1, InOrderWritten
<1>7. QED
  BY <1>5, <1>6

LEMMA OrderHandler ==
  ASSUME TypeOK, LastFile, SafeBody, OrderBody, Handler
  PROVE  OrderBody'
<1> USE DEF At, process, Goto, Handling
<1>1. /\ lastPack' = lastPack /\ dc'.pack_in_min = dc.pack_in_min
      /\ UNCHANGED <<Full, FullData, ping, pong>>
  <2>1. UNCHANGED <<lastPack, buffers, dc.flag, dc.pack_in_min>>
    BY DEF Handler, HandlerFlag, Begin, Read, Rotate, Open, WriteHeader, WriteData,
           LoadMinutes, StoreMinutes, Restore, hist, TypeOK, Counters
  <2>2. QED
    BY <2>1 DEF Full, FullData, buffers
<1>2. pc["port"] \in Handling
  BY DEF Handler, HandlerFlag, Begin, Read, Rotate, Open, WriteHeader, WriteData,
         LoadMinutes, StoreMinutes, Restore
<1>3. Ready
  BY <1>2 DEF SafeBody, Before, Taking
<1>4. Writing /\ InOrder(files, lastPack)
  BY <1>3 DEF OrderBody
<1>5. pc \in [Threads -> Labels] /\ "port" \in Threads
  BY DEF TypeOK, Threads
<1>6. pc'["port"] \in Handling \cup {"clear"}
  BY <1>5 DEF Handler, HandlerFlag, Begin, Read, Rotate, Open, WriteHeader, WriteData,
              LoadMinutes, StoreMinutes, Restore, TryClose
<1>7. Arriving'
  BY <1>6 DEF Arriving
<1>8. SUFFICES Writing' /\ InOrder(files', lastPack)
  BY <1>1, <1>7 DEF OrderBody
<1>9. CASE HandlerFlag
  <2>1. /\ pc["port"] = "handler" /\ pc'["port"] = "begin" /\ local'.flag = dc'.flag
        /\ files' = files
    BY <1>5, <1>9 DEF HandlerFlag, file, TypeOK
  <2>2. QED
    BY <1>1, <1>4, <2>1 DEF Writing
<1>10. CASE Begin
  <2>1. pc["port"] = "begin" /\ pc'["port"] = "read" /\ files' = files /\ local'.i = 0
    BY <1>5, <1>10 DEF Begin, file, TypeOK
  <2>2. local'.ptr = Full
    BY <1>4, <1>10, <2>1 DEF Begin, Writing, TypeOK, Counters, Full, Pong, Ping
  <2>3. QED
    BY <1>1, <1>4, <2>1, <2>2 DEF Writing
<1>11. CASE Read
  <2>1. /\ pc["port"] = "read" /\ pc'["port"] \in {"rotate", "write"} /\ files' = files
        /\ local.i < dc.pack_in_min
    BY <1>5, <1>11 DEF Read, file
  <2>2. Mapped(local.i)
    BY <2>1, SlotMapped DEF Using
  <2>3. local' = [local EXCEPT !.pack = heap[local.ptr].data[local.i + 1]]
    BY <1>11, <2>2 DEF Read
  <2>4. /\ local'.i = local.i /\ local'.ptr = local.ptr
        /\ local'.pack = heap[local.ptr].data[local.i + 1]
    BY <2>3 DEF TypeOK
  <2>5. local.ptr = Full
    BY <1>4, <2>1 DEF Writing
  <2>6. QED
    BY <1>1, <1>4, <2>1, <2>4, <2>5 DEF Writing, FullData
<1>12. CASE Rotate
  <2>1. /\ pc["port"] = "rotate" /\ pc'["port"] \in {"header", "open"}
        /\ files' = files /\ local' = local
    BY <1>5, <1>12 DEF Rotate, TryClose
  <2>2. QED
    BY <1>1, <1>4, <2>1 DEF Writing
<1>13. CASE Open \/ WriteHeader
  <2>1. /\ pc["port"] \in {"open", "header"} /\ pc'["port"] \in {"header", "write"}
        /\ local' = local
    BY <1>5, <1>13 DEF Open, WriteHeader
  <2>2. /\ InOrder(files', lastPack)
        /\ \A y : Later(y, files) => Later(y, files')
    <3>1. CASE files' = files
      BY <1>4, <3>1
    <3>2. CASE files' = Append(files, << >>)
      BY <1>4, <3>2, OpenedFiles DEF TypeOK, DataFiles, Entries
    <3>3. ASSUME NEW x \in {Header, Part}, Written(files, files', x)
          PROVE  /\ InOrder(files', lastPack)
                 /\ \A y : Later(y, files) => Later(y, files')
      BY <1>4, <3>3, InOrderWritten, LaterWritten
    <3>4. WriteHeader => \/ files' = files
                         \/ \E x \in {Header, Part} : Written(files, files', x)
      BY FileWritten DEF WriteHeader, Entries
    <3>5. QED
      BY <1>13, <3>1, <3>2, <3>3, <3>4 DEF Open
  <2>3. Ahead(FullData, local.i + 1, dc.pack_in_min, lastPack, files)
          => Ahead(FullData, local.i + 1, dc.pack_in_min, lastPack, files')
    BY <2>2 DEF Ahead
  <2>4. QED
    BY <1>1, <1>4, <2>1, <2>2, <2>3 DEF Writing
<1>14. CASE WriteData
  <2>1. /\ pc["port"] = "write" /\ pc'["port"] = "read" /\ WriteFile(local.pack)
        /\ local'.i = local.i + 1 /\ local'.ptr = local.ptr
    BY <1>5, <1>14 DEF WriteData, TypeOK
  <2>2. /\ local.i + 1 \in Nat /\ local.i + 1 <= dc.pack_in_min
        /\ local.pack = FullData[local.i + 1]
        /\ Ahead(FullData, local.i + 1, dc.pack_in_min, lastPack, files)
    BY <1>4, <2>1, OrderNat DEF Writing
  <2>3. \/ files' = files
        \/ Written(files, files', FullData[local.i + 1])
        \/ Written(files, files', Part)
    <3>1. local.pack \in Entries
      BY DEF TypeOK, Entries
    <3>2. QED
      BY <2>1, <2>2, <3>1, FileWritten
  <2>4. /\ Ahead(FullData, (local.i + 1) + 1, dc.pack_in_min, lastPack, files')
        /\ InOrder(files', lastPack)
    <3> DEFINE a == local.i + 1
               d == FullData
               gs == files'
    <3>1. /\ a \in Nat /\ a <= dc.pack_in_min /\ lastPack \in Nat /\ dc.pack_in_min \in Int
          /\ Ahead(d, a, dc.pack_in_min, lastPack, files) /\ InOrder(files, lastPack)
          /\ Written(files, gs, d[a]) \/ Written(files, gs, Part) \/ gs = files
      BY <1>4, <2>2, <2>3, OrderNat
    <3> HIDE DEF a, d, gs
    <3>2. Ahead(d, a + 1, dc.pack_in_min, lastPack, gs) /\ InOrder(gs, lastPack)
      BY <3>1, AheadWritten
    <3>3. QED
      BY <3>2 DEF a, d, gs
  <2>5. QED
    BY <1>1, <1>4, <2>1, <2>4 DEF Writing
<1>15. CASE LoadMinutes \/ StoreMinutes \/ Restore
  <2>1. pc'["port"] \in {"minutes", "restore", "clear"} /\ files' = files
    BY <1>5, <1>15 DEF LoadMinutes, StoreMinutes, Restore, file
  <2>2. QED
    BY <1>4, <2>1 DEF Writing
<1>16. QED
  BY <1>9, <1>10, <1>11, <1>12, <1>13, <1>14, <1>15 DEF Handler

LEMMA OrderStep ==
  ASSUME TypeOK, OneStarter, LastFile, SafeInv, SafeInv', OrderInv, [Next]_vars
  PROVE  OrderInv'
<1> SUFFICES ASSUME OneStart' PROVE OrderBody'
  BY DEF OrderInv
<1>1. OneStart
  BY OneStartBefore
<1>2. SafeBody /\ SafeBody' /\ OrderBody
  BY <1>1 DEF SafeInv, OrderInv
<1>3. CASE UNCHANGED vars
  BY <1>2, <1>3, OrderQuiet DEF vars, buffers, file, hist
<1>4. QED
  BY <1>1, <1>2, <1>3, OrderStart, OrderStop, OrderReceive, OrderHandler DEF Next

(* What is recorded is what was taken in.                                  *)
LEMMA OrderedFiles ==
  ASSUME TypeOK, OrderBody
  PROVE  \A f, g \in 1 .. Len(files) : \A k \in Recorded(f), l \in Recorded(g) :
           /\ files[f][k] \in Packets
           /\ f < g \/ (f = g /\ k < l) => files[f][k] < files[g][l]
<1>1. 1 .. lastPack \subseteq Packets
  BY BoundsAssumption DEF TypeOK, Packets
<1>2. \A f \in 1 .. Len(files) : \A k \in Recorded(f) :
        k \in 1 .. Len(files[f]) /\ files[f][k] \notin {Header, Part}
  BY DEF Recorded
<1>3. InOrder(files, lastPack)
  BY DEF OrderBody
<1>4. QED
  BY <1>1, <1>2, <1>3 DEF InOrder

OrderedInv == TypeInv /\ OneStarter /\ SafeInv /\ LastFile /\ OrderInv

LEMMA OrderedAlways == Spec => []OrderedInv
<1>1. Init => LastFile /\ OrderInv
  <2>1. Init => Len(files) = 0 /\ LastFile
    BY EmptySeq DEF Init, LastFile
  <2>2. Init => OrderInv
    BY <2>1 DEF Init, OrderInv, OrderBody, InOrder, Ready
  <2>3. QED
    BY <2>1, <2>2
<1>2. Init => OrderedInv
  <2>1. Init => TypeInv
    BY InitType DEF TypeInv, PackLeft, Init, Threads
  <2>2. Init => OneStarter
    BY DEF Init, OneStarter, Starting, Threads
  <2>3. Init => SafeInv
    BY DEF Init, SafeInv, SafeBody, Before, Room, Ready, NoBuffers, Threads, Preparing,
           Stopping, Taking, Handling, Using
  <2>4. QED
    BY <1>1, <2>1, <2>2, <2>3 DEF OrderedInv
<1>3. OrderedInv /\ [Next]_vars => OrderedInv'
  <2>1. TypeInv /\ OneStarter /\ SafeInv /\ [Next]_vars
          => TypeInv' /\ OneStarter' /\ SafeInv'
    BY TypeStep, OneStarterStep, SafeStep DEF TypeInv
  <2>2. TypeInv /\ LastFile /\ [Next]_vars => LastFile'
    BY LastFileStep DEF TypeInv
  <2>3. OrderedInv /\ SafeInv' /\ [Next]_vars => OrderInv'
    BY OrderStep DEF OrderedInv, TypeInv
  <2>4. QED
    BY <2>1, <2>2, <2>3 DEF OrderedInv
<1>4. QED
  BY <1>2, <1>3, PTL DEF Spec

(* One start by itself, of either thread, and not for less than a packet a  *)
(* minute: what is in the data files are packets that came, each once, in   *)
(* the order they came, although the start clears sig_num_count while       *)
(* packets may already arrive (mythreads.c:131, :240-267, :308-337), and    *)
(* although a write may fail or leave a part of a record (log.c:452-455,    *)
(* :475-478).                                                               *)
THEOREM KeepsOrderWithOneStart == Spec => []OneStartKeepsOrder
<1>1. OrderedInv => OneStartKeepsOrder
  BY OrderedFiles DEF OrderedInv, TypeInv, OrderInv, OneStartKeepsOrder
<1>2. QED
  BY <1>1, OrderedAlways, PTL

=============================================================================
