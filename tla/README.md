# segy_sender: specification, model checking and proofs

`sender` reads packets of samples from a seismic recorder ("Геонод разведка")
on a serial line, writes them to minute-structured data files, keeps the last
packets in a ring for a network client, and feeds the recorder GPS time. This
directory holds TLA+ modules of its logic, TLC configurations that check them
on small instances, and proofs checked by TLAPS.

    tlc -config CircBuf.cfg CircBuf.tla        # one run per .cfg
    tlapm CircBuf_proofs.tla                   # one per *_proofs module

## 1. Inventory

### Threads

| thread | code | loop |
|---|---|---|
| main | `sender.c:29`, `mythreads.c:387` | opens the log and the line, asks for one status, creates the others, joins them, closes the line and the log |
| port (P) | `mythreads.c:172` | once per second of GPS time: TimeSync, StatusGet, automatic start; then DataGet until no packet comes |
| network (N) | `mythreads.c:457` | one UDP datagram, one command, one answer |
| NMEA (G) | `nmea.c:67` | one gpsd report into `rtc_data` |

SIGINT runs `halt_all_threads` in main, which is what the kernel prefers; `raise(SIGUSR1)` runs
`sig_write_data_handler` inside P, which waits for it.

### Components

| component | state | operations | shared by | what makes it correct |
|---|---|---|---|---|
| ring (`circbuf.c`) | `start`, `end`, `elems` | write, read, is_empty, clear | P writes, N reads and clears, no lock | a queue that drops its oldest when full; order and wholeness of what N serves |
| recorder (`mythreads.c:81-342`) | `data_count_struct`, ping, pong, SIGUSR1's disposition | prepare_start_dev, prepare_stop_dev, the packet loop, the handler | P and N, no lock | every minute written once, whole, in order; accesses inside the buffers; nothing leaked |
| data file (`log.c:353-482`) | `adc_fd`, `dir_name` | rotate, close, header, data | P's handler, and P and N when they start or stop | one open file; a header before its minute; whole minutes; rotation every 240 minutes |
| serial line (`proto.c`) | the descriptor, what is still in the line, mutex `cs` | one exchange per command | P, N, main | an answer belongs to its command; the mutex is always given back |
| frames (`utils.c:52-166`, `proto.c:263-303`) | none | add_crc16, test_crc16, data_port_read_any_data | whoever holds `cs` | a wrong frame is refused, a right one is not changed |
| network server (`mythreads.c:457-560`) | socket, last datagram | 7 commands | N | each datagram executed once; what it answers |
| lifecycle (`start.c`, `sender.c`) | `b_end_threads`, cancellation | open, create, halt, cancel, join, close | all | SIGINT ends the process; no thread waits for ever; the line is closed behind the threads |
| GPS time (`nmea.c`, `mythreads.c:190-221`) | `rtc_data`, `status`, `t1`, `check` | read, TimeSync, StatusGet, automatic start | G, P, N | time and status keep coming, each of one moment; only a device that is set up is started |
| file header (`log.c:241-345`) | `adc_hdr` | create, change | P and N | it holds the drift of the last status |
| log text, arguments, conversions, `rtc.c`, `link.c`, `sintab.c` | | | | not modelled: see section 7 |

### How they interact

P is the hub. A packet from `DataGet` goes into one minute buffer
(`mythreads.c:241`) and, after the minute test, into the ring (`:252`). A full
minute flips `flag` and raises SIGUSR1; the handler writes the buffer just
filled to the data file. N, meanwhile, takes packets out of the ring for
GET_DATA, clears it for CLR_BUF, and for START and STOP changes everything the
recorder works on. Only exchanges on the serial line exclude each other.

### What is hard here

Nothing but the serial line is locked, so the interesting behaviour is the
interleaving of single memory accesses of P (with its handler), N and G. The other
hard parts are commands and answers lost on the line, late, damaged or shifted
answers, failing `calloc`, `mkdir` and `open` half way through a start, writes
that fail or are short while nobody looks, a frequency that is used before it is
checked, and the shutdown.
`PROJECT.json` lists the hazards, each at its line, with the properties that
would catch it, or why none does.

## 2. Modules and the code

| module | models | extends |
|---|---|---|
| `OverwriteQueue` | what a ring promises: a bounded FIFO that drops its oldest element | |
| `CircBuf` | `circbuf.c`, a call per step, shown to implement `OverwriteQueue` | |
| `CircBuf_proofs` | proofs for every capacity | `CircBuf` |
| `RingThreads` | the ring as P and N use it, an access per step | |
| `RingThreads_proofs` | proofs for every capacity | `RingThreads` |
| `Recorder` | starts, stops, minute buffers, handler, data files | |
| `Recorder_proofs` | proofs for every rate, file length, set of commands and faults: types, descriptors, headers, and the minute buffers (leaks, accesses, order) | `Recorder` |
| `RecorderFiles_proofs` | the same for what the data files hold | `Recorder_proofs` |
| `Exchange` | what an exchange with the recorder promises the thread that asks for it | |
| `SerialPort` | the exchanges on the serial line, with late and lost answers, shown to implement `Exchange` | |
| `SerialPort_proofs` | proofs for answers of any length and any number of commands | `SerialPort` |
| `Lifecycle` | the threads from their creation to the end of the process, and what they wait for | |
| `Lifecycle_proofs` | proofs for any number of SIGINTs and every outcome of the cancellation | `Lifecycle` |
| `Frames` | the CRC with its table, `test_crc16` with its patch, `data_port_read_any_data`, on bytes | |
| `Frames_proofs` | proofs about the CRC, for messages of any bytes and any length | `Frames` |
| `Telemetry` | `rtc_data`, `status` and the drift in the file header, an access per step; what StatusGet makes of damaged answers | `Frames` |
| `Telemetry_proofs` | proofs for any number of reports, statuses and requests; what the CRC and the patch make of damaged statuses of any length the CRC is made for | `Telemetry`, `Frames_proofs` |

Definitions keep the names of the code where they can; `PROJECT.json` "map"
gives the lines each one stands for. Definitions called `Bug...` are the code
with one plausible mistake: each shows that a property would notice it.

**CircBuf.** `start`, `end`, `elems` and `size` are the struct's; `out` is the
element the last `cb_read` copied. `cb_read` is guarded by `~ cb_is_empty`
because its only caller asks first (`mythreads.c:540`). `Contents` is the
refinement mapping: the elements from `start` up to `end`, going round.

**RingThreads.** `wpc` and `npc` are the program counters of P in `cb_write`
and of N in one command, `slot` and `index` the registers they have loaded. Each load and each
store of `start` and `end` is a step; the copy of a 1212-byte packet begins
and ends, and what is read during a write is one packet, the other, or a
mixture (`Torn`). Two accesses are merged only where a comment says why.
The steps follow program order, with stores seen by the other thread in that
order: the build does not optimise (no `-O` in the Makefile, whose `-o0` is
not one) and the target keeps stores in order. History variables (`served`,
`floor`, `clean`, `full`, `overrun`) are written and not read by the threads.

**Recorder.** `pc` has one entry per thread; the handler runs in P's. Packets
are numbered as P takes them in. `dc` is `data_count_struct`. `heap` is what
`calloc` handed out, `ping` and `pong` index it, and an access outside a live
block sets `undef`: it ends the process for a null pointer, and for freed or
foreign memory ends it or not. A packet read there is `Junk`. `files` holds
every data file as the sequence of headers and packets written to it, `open`
the descriptors not closed; `adc_fd` may name one that is closed, as in the
code, and then `write` and `close` fail. `Faults` says what may fail: the
command on its way to the device ("lost"), its answer ("ack"), `mkdir` ("dir"),
`calloc` ("alloc"), `open` of the data file ("open"), a `write` to it ("write",
which leaves nothing or a `Part` of the header or packet, and the handler goes on
either way; `damaged` are the files that happened to). An exchange on the serial
line is one step because it holds the mutex; whether the device got the command
and what the program was told are independent: with "stale" an earlier answer is
taken for that of a lost start or stop, or an earlier packet is read from a
device that has stopped, which `SerialPort` shows to be possible. `Rates` are
packets per minute, `freq * 60 / 100` in the code (`NUM_ADS1282_PACK`), of the
frequencies `StartDevice` accepts, which make it 150 and more; `Refused` are those
of the others a client may ask for: 0 for a frequency of 0 or 1, negative for one
that does not fit an int. Nobody looks at the frequency before `StartDevice`: of 0
packets `calloc` hands out blocks of no size, of a negative number none.

`Next` of `Recorder` is `PrepareStart` in either thread, `PrepareStop` in N, `Receive` (P's
inner loop) or `Handler`. A thread is in at most one of them.

**SerialPort.** `cs` is the mutex of proto.c, held from `Send` to `Check`;
`pc` says which command a thread sends next, in the order of
`read_port_thread_func` for P and as the client asks for N. The line is the
sequence `sent` of all units the device ever sent, with two marks, `arrived` and
`taken`; the buffer of an exchange is what lies between `begin` and `taken`. A
unit stands for five bytes: a short status is one unit, and the ten bytes in which
`test_crc16` looks for a header are the first two. `Take` is one round of
`data_port_read`; `Timeout` is `select` giving up after 2 ms, with the answer
still under way only if `Faults` has "late" (for a start, after the `sleep(1)`
as well). `Good`, `Salvaged` and `Packet` are the decisions of
`data_port_read_any_data`, `test_crc16` and `DataGet` on the buffer. The device
answers every command it gets, with what was asked for or with a short status;
StatusGet may lead P to the start once, as the status may say that the device is
set up. `late`, `early` and `lastUsed` are history.

**Exchange** is `SerialPort` as its caller sees it: a command is asked for, the
recorder carries it out or not (`carried`) and changes accordingly, and the
exchange succeeds or fails. It may succeed without `carried` only when no longer
`trusted`. `Phase`, `Command`, `Carried` and `Trusted` in `SerialPort` are the
refinement mapping: an exchange waits while it reads, has succeeded when `Ok`
holds of its buffer, its command was carried out if the device has sent an
answer to it, and trust ends with the first read that leaves an answer behind.

**Lifecycle.** `main`, `handler` and `pc` say where main, the SIGINT handler and
each thread are. The handler runs in main, which does nothing else meanwhile.
What a thread does is reduced to what it waits for: a label that names a command
("sync", "data", "start" ...) is a thread waiting for the mutex, and in its
exchange once `cs` names it (`Enter`, `Leave`). `shutdown` of the socket makes
`recvfrom` return 0 and `close` makes a later one fail; both leave `rd_buf` as it
was, and before the first datagram it is "junk", which may be any command.
`halt_all_threads` gives `pthread_cancel` a variable nobody set: `Outcomes` lists
what may come of it: nothing, a fault, or the end of one of the threads at a
point where it can be cancelled (`Cancelled`: any wait in an exchange or on the
socket, and for P only while `enabled`); the mutex then stays with it. `fresh`
is `t0 != t1`, for a `t1` that is not set before the first test. `told` and
`extra` are history; `told` is what the device was last told to do, whether or
not it heard, which is `SerialPort`'s matter. gpsd is taken to answer:
`gps_open`, `gps_waiting` and `gps_read` return. The steps of main before and
after the threads are in it because SIGINT's handler is set before all of them.

**Frames.** Definitions only. `Crc16Table` is the table of `utils.c`, `Xor`
works on nibbles because TLA+ has no exclusive or, `Crc` is the table-driven loop
and `Remainder` the same by polynomial division, bit by bit; both loops are
recursive functions. `test_crc16` returns
the CRC it reports and the buffer as it leaves it, moved or not; `read_any_data`
is `data_port_read_any_data`: which bytes, cut and damaged, pass for an answer,
and what is then in the buffer.

**Telemetry.** `pc` says where P, N and G are. `rtc_data`, `status` and
`adc_hdr` are the variables of the code; a step is one store to a field of
`rtc_data` (in the order of `nmea.c:97-111`), the copy of one field by `memcpy`
(in any order: `left` is what is not copied yet), one load or store of half the
drift. A report of gpsd is a number, a time and whether it has a fix; a status is
represented by the number of the answer it came from, in two parts, its head with
`st_main` and its `drift`: `status`, `wr_buf` and `adc_hdr` say of which answer each part
is. `adc_hdr`'s drift stands for what `log_change_adc_header` and
`log_create_adc_header` take from `status`; the store by halves is `log.c:302-303`.
Which answers there can be is computed on bytes: `Line` is what may come from a
device whose status is `set` or not (whole, short, with bits changed, cut, behind
other bytes), `Outcome` what StatusGet makes of it, `Accepted` those that reach
`status`. `t1` is not initialised in the code and is any of two values here, one
of which is a time. TimeSync's own outcome is `SerialPort`'s matter and ignored by
the code. `sent`, `whole`, `floor`, `got` and `mixed` are history; `mixed` says
which of the copies met a write of another thread.

## 3. Runs

| run | module, cfg | question | bounds |
|---|---|---|---|
| circbuf | `CircBuf` | is the ring a lossy queue, over wraps and overflow | 3 elements of 3 kinds; every state, no bound on steps |
| ring_threads | `RingThreads` | what does the client get without a lock | 2 elements, 4 packets: two overruns and a full turn of both indices within any step of N |
| recorder | `Recorder` | is every minute recorded, in which file; what do starts and stops break | P by itself: up to 3 packets a minute, 2 minutes a file, 9 packets, so that a file is filled and the next begun at every rate. With a client: 3 commands (start, stop and start again), 3 packets at up to 2 a minute; one command if P starts the device too. Once a write has failed, one start or stop at most, and without it 4 packets, which at one a minute fill two files. START at a refused frequency of 0 or of -1 packets. Every fault. `Bounded` (a CONSTRAINT) says just that |
| serial_port | `SerialPort` | whose answer does an exchange get | a status of 3 units, a packet of 4: a late short status shifts what follows by one unit, which the repair finds, a late status by more than it looks at; 3 commands, so that an answer can be two exchanges late; every fault |
| lifecycle | `Lifecycle` | how does the process end, and what keeps it from ending | one SIGINT at any moment, every failure and every outcome of the cancellation; no other bound: the commands of the client and the packets do not end |
| telemetry | `Telemetry` | which time the device gets, which damage passes, of which status header and client get parts | a status of 14 bytes with every 1 or 2 bits changed, a short one with up to 3, cut at every length, behind 1 to 9 bytes; 3 reports, or 1 report, 2 statuses and a request (`Bounded`: reports and statuses meet nowhere but in P) |

Checks that are expected to fail show where the code and its own comments
disagree (each is a finding in `PROJECT.json`):

| run | property | what happens |
|---|---|---|
| ring_spurious_full | `OverwritesOnlyWhenFull` | N takes the last packet between P's store of `end` and its comparison: `cb_write` takes the empty ring for a full one and pushes `start` past `end`; N then serves the whole vector, blank or old packets included |
| recorder_ack | `RaiseHandled` | the answer to the start is lost, the device runs: the first full minute kills the process |
| recorder_rate | `StoresInside` | a START at a frequency of 0 or 1 has empty buffers allocated before it is refused; a packet of a device that already sends is stored behind one. With `Refused` empty TLC finds the other way: a START at a higher frequency than that of the recording under way, refused as well, but only after it has changed how many packets a minute holds |
| recorder_stop | `StoresIntoBuffer` | STOP frees the buffers between P's test and its `memcpy` |
| telemetry_check | `CheckValue` | the CRC of `utils.c` starts with 0 and does not revert: its check value is FEE8 and not the 4B37 of its comment (`utils.c:55-58`) |
| serial_stop | `StopReported` | a late acknowledgement is taken for that of a stop that was lost: success is logged, and the device goes on measuring |

`CHECK_DEADLOCK FALSE` is set where the bound on packets or commands, or the
end of the process, stops a behaviour. `CircBuf` is checked for deadlock.

A status is 14 bytes and not 11, the shortest the patch reads, so that `st_main`
(8 when the device is set up) does not look like a length; the real length does
not either. Two changed bits in a long message and three in a short one are what
can be enumerated; for statuses of 12 to 4095 bytes and three changed bits in either
the same is proved (section 4).

What the passing properties say:

- `ImplementsQueue`: whatever the sequence of calls, a read hands out the
  oldest element and a write into a full ring loses only it.
- `FifoUntilOverrun`: from the start, and from each CLR_BUF that met no write
  half way, the client gets the packets one after the other, none lost,
  repeated, torn or old, until a write first pushes `start`. Neither condition
  can be dropped: the first write to push `start` may do so wrongly (the finding
  `ring_spurious_full`), and a CLR_BUF between P's load and store of `end`
  (`circbuf.c:65`) is undone, so that packets from before it are served again.
- `MinutesRecorded`: if only the port thread has started the device and every
  file could be opened, then each time P is back for a packet the files hold
  exactly the packets of the complete minutes, in order. A file in which a write
  failed is left out, but the files before and after it begin and end where they
  should: the failure costs no other file anything.
- `FileLayout`: even if files could not be opened, or writes to other files
  failed, each file holds whole minutes, each behind its header, and exactly 240 of them (the constant
  `MinutesPerFile`) unless it is the one being written.
- `NoStrayFile`, `HeaderFirst`: with starts and stops of N at any moment, no
  open file is left that `adc_fd` does not name, and no file begins with data
  unless a write to it failed; a file can then begin with data: nobody looks
  at what `write` returned (`mythreads.c:325, 336`), although `log.c:422` has a header
  dropped onto the card every minute.
- `FileBounded`: a START, even one that is refused, and a STOP set `num_pack` to 0;
  between the handler's look at it and `num_pack++` that prolongs the file being
  written. Each start or stop prolongs it by less than another file, however it
  meets the handler.
- `OneStartKeepsOrder`: `prepare_start_dev` clears `sig_num_count` after the
  device already sends. The first start may lose packets by that, but what is
  recorded are packets in the order in which they came, each once.
- `NoLeak`: while only one of the threads has started the device, a block of
  memory not freed is ping or pong. When both have, one pair of buffers can leak.
- `OneStartIsSafe`: one start, whatever fails in it, also one whose frequency is
  refused, and packets that were already arriving, make no thread access memory
  outside the buffers. A second start, a stop, or a frequency of 0 or 1 (`NoneEmpty`:
  no buffer was allocated empty) is needed for that: the findings
  `recorder_rate` and `recorder_stop`.
- `InStep`: until the first answer later than 2 ms (or the end of the program
  breaks a read off), an exchange reads only the answer to its own command and
  leaves the line empty, whatever commands were lost. The two conditions are
  those under which it stops being true.
- `UsedOnce`: also after that, no answer is taken for good by two exchanges or
  after a later one, and what `DataGet` calls a packet begins with the header of
  one. The repairs of `test_crc16` and of `data_port_read_any_data` keep this;
  that a packet is whole they do not: once out of step, a packet may lack its
  last bytes, and stays so while packets keep coming, because nothing empties
  the line (the `tcflush` at `proto.c:212` is commented out).
- `ImplementsExchange`: whatever the line loses or delays, exchanges come one at
  a time, the device changes only when and as one asks, and none succeeds
  without its command carried out until an earlier one has left an answer behind:
  not even the exchange that leaves it. The finding on `StopDevice` is what
  happens after that.
- `OnceMore`: the shutdown of the socket has N execute the command in its
  buffer again, or one that nobody sent, but no second time.
- `StoppedAtEnd`: when the process ends in order and P was not cancelled, the
  device was told to stop after P took its last packet; only a start in N's buffer
  can have started it again. The exception is real: a client that last sent
  START makes N start the device during the shutdown.
- `QuietAtClose`: `data_port_close` closes the line and destroys `cs` when all
  threads have ended. The exception, a thread that could not be created
  (`mythreads.c:411-423`), is the only one: then the others go on, on a closed
  descriptor and a destroyed mutex, until the process has ended.
- `Ends`: SIGINT ends the process wherever the threads are, except if a thread
  was cancelled in an exchange (`Abandoned`), as then nobody gets the mutex.
- `KeepsTime`: until then a new time brings TimeSync to its exchange sooner or
  later, whatever comes from the client. Whether the device hears it is
  `SerialPort`'s matter, and whether gpsd brings a new time is its own.
- `TimesInOrder`: TimeSync takes no second to the device twice and none after a
  later one, although time and position are copied while they are written. (That
  gpsd's own time does not go back is assumed.)
- `OneReport`, `NoOldReport`: what goes to the device is one report unless G wrote
  while P copied; and even then time and position are no older than the last
  report that was complete when the copy began. A position can be newer than its
  time, or missing, and that is the only way.
- `CrcIsRemainder`: the table-driven CRC is the remainder by
  x^16 + x^15 + x^2 + 1; the run compares every entry of the table and every
  status with one bit changed, the proof every message. It is the CRC of
  `utils.c:54` and of the code, begun with 0 and highest bit first; the start value,
  the reversal and the check value of `utils.c:55-58` are another's (`CheckValue`).
- `DamageDetected`: "detects single, double, triple errors" (`utils.c:59`), with
  the patch in place: what StatusGet takes is what the device sent unless its
  header was patched, for which no CRC is looked at.
- `ShiftRepaired`: a status behind one to nine other bytes is found, and what is
  then read of the device is right.
- `StartJustified`: a device that is not set up is started by itself only if the
  patch let a damaged status pass.
- `ServedWhole`, `DriftOfLastStatus`: the client gets one status, and the file
  header both halves of the last status's drift, unless a copy of the one thread
  met a store of the other. Without `mixed` both are false; with a lock round the
  copies they would hold as they are.

**Fairness.** Only `Lifecycle` assumes any. `WF` of main, of the handler and of
each thread: they are scheduled. A datagram and a SIGINT need never come. `SF` of
`Enter("port")`: the mutex is not fair, but N gives it back and then waits for a
datagram, so P gets it again and again. `SF` of `NoPacket`: the line takes 26 ms
for a packet (1212 bytes at 460800 baud) and the recorder makes one every 50 ms at
2000 samples a second (400 ms at 250), the rates main accepts, so that `DataGet`
sooner or later finds none. At 4000, which a client may ask for, it makes one
every 25 ms, and this assumption has no ground: the inner loop of
`mythreads.c:224` may then never end, and neither `Ends` nor `KeepsTime` is
claimed. Without it TLC shows just that loop. No other run needs fairness: its
properties are safety.

## 4. Proofs

The proofs need only the assumptions of the modules: `Capacity` positive,
`MaxPack` and `MaxCommands` natural numbers, `Rates` a non-empty set of positive
numbers, `Refused` any integers, `MinutesPerFile` positive; `2 < StatusLen < DataLen` and the commands the network thread knows;
`Outcomes` of the kinds above and `MaxSignals` a natural number; two different
answer lengths from 11 to 65535 bytes and natural numbers as bounds for
`Telemetry`. What is proved of damaged statuses has a hypothesis of its own,
`ShortEnough`: a status has from 12 to 4095 bytes, the second being the "MaxLen 4095
bytes (32767 bits)" of `utils.c:59`; and `Detectable` adds that at most three of its
bits are changed, the "single, double, triple" errors of that line. The recorder's
status has 128 bytes (`globdefs.h:320`), the run's 14 with two and three
bits changed: both satisfy them. With four changed bits the statement is false: the
polynomial itself has four terms.

| theorem | statement | argument |
|---|---|---|
| `CircBuf_proofs!TypeCorrect` | `Spec => []TypeOK` | inductive by itself |
| `CircBuf_proofs!Implements` | `Spec => ImplementsQueue` | `TypeOK` as invariant; each call mapped to its action of the queue, by cases on whether `start` or `end` wraps and whether the ring is full |
| `RingThreads_proofs!TypeCorrect` | `Spec => []TypeOK` | inductive by itself |
| `RingThreads_proofs!Fifo` | `Spec => []FifoUntilOverrun` | `IInv == TypeOK /\ HasPacket /\ CalmInv`, below |
| `Recorder_proofs!TypeCorrect` | `Spec => []TypeOK` | with `PackLeft`: P looks at the bound before it takes a packet |
| `Recorder_proofs!NoStray` | `Spec => []NoStrayFile` | with `OneOwner`, below |
| `Recorder_proofs!HeaderIsFirst` | `Spec => []HeaderFirst` | with `HeaderDue`, below |
| `Recorder_proofs!NothingLeaks` | `Spec => []NoLeak` | with `OneStarter` and `LeakInv`, below |
| `Recorder_proofs!SafeWithOneStart` | `Spec => []OneStartIsSafe` | from `SafeInv`, below |
| `Recorder_proofs!KeepsOrderWithOneStart` | `Spec => []OneStartKeepsOrder` | from `OrderInv` (with `SafeInv`, `LastFile`), below |
| `RecorderFiles_proofs!FilesStayBounded` | `Spec => []FileBounded` | from `BoundInv` (with `FileInv`, `LastFile`), below |
| `RecorderFiles_proofs!LayoutOfFiles` | `Spec => []FileLayout` | from `SoloInv` and `NoStrayFile`, below |
| `RecorderFiles_proofs!EveryMinuteRecorded` | `Spec => []MinutesRecorded` | from `SoloInv` and `NoStrayFile`, below |
| `SerialPort_proofs!TypeCorrect` | `Spec => []TypeOK` | from `IInv`, below |
| `SerialPort_proofs!InStepUntilLate` | `Spec => []InStep` | from `OneAnswer` |
| `SerialPort_proofs!NothingUsedTwice` | `Spec => []UsedOnce` | from `Ordered` and `Fresh` |
| `SerialPort_proofs!Implements` | `Spec => ImplementsExchange` | from `IInv`: `StepRefines` maps each step to one of `Exchange` or to none |
| `SerialPort_proofs!StopUntilLate` | `Spec => [](Trusted => StopReported)` | from `Exchange` alone, by `Obeyed` |
| `Lifecycle_proofs!TypeCorrect` | `Spec => []TypeOK` | with `PortJoined` (a thread not yet created has no mutex) |
| `Lifecycle_proofs!AtMostOnce` | `Spec => []OnceMore` | from `LastCommand` |
| `Lifecycle_proofs!StoppedInOrder` | `Spec => []StoppedAtEnd` | from `PortStopped` and `PortJoined` |
| `Lifecycle_proofs!ClosedInQuiet` | `Spec => []QuietAtClose` | from `PortJoined` |
| `Telemetry_proofs!TypeCorrect` | `Spec => []TypeOK` | inductive by itself |
| `Telemetry_proofs!InOrder` | `Spec => TimesInOrder` | from `TimesGrow` |
| `Telemetry_proofs!OneAtATime` | `Spec => []OneReport` | from `Written` and `Copied` |
| `Telemetry_proofs!NoneOlder` | `Spec => []NoOldReport` | from `Written` and `Copied` |
| `Telemetry_proofs!Served` | `Spec => []ServedWhole` | from `OneStatus` |
| `Telemetry_proofs!LastDrift` | `Spec => []DriftOfLastStatus` | from `OneDrift` |
| `Telemetry_proofs!Justified` | `Spec => []StartJustified`, given `Detectable` | from `Taken` and `CrcDetects` |
| `Frames_proofs!CrcRemainder` | `Crc(mes) = Remainder(mes)` for every message | from `TableRule`, below |
| `Frames_proofs!CrcAdded` | the CRC of what `add_crc16` returns is 0 | from `CrcRemainder` |
| `Frames_proofs!PowerOrder` | x^k mod the polynomial is 1 for no k between 0 and 32767 | by the prime divisors of 32767, below |
| `Telemetry_proofs!FlipsDetected` | one to three changed bits in up to 32767 change the CRC | from `CrcChanged`, `PowerOrder`, `PowerParity` |
| `Telemetry_proofs!OddDetected` | any odd number of them does | from `CrcChanged`, `PowerParity` |
| `Telemetry_proofs!CrcDefined` | `Spec => []CrcIsRemainder` | from `CrcRemainder` |
| `Telemetry_proofs!DamageIsDetected` | `Spec => []DamageDetected`, given `Detectable` | from `Damage`, below |
| `Telemetry_proofs!ShiftIsRepaired` | `Spec => []ShiftRepaired`, given `ShortEnough` | from `Shifted`, below |

*Fifo.* What N has served says nothing of the next step; the invariant must
say what is in the ring. `CalmInv` states, as long as no clear met a write and
no write pushed `start`, where the packet with each number lies between `start`
and `end`, allowing for each place P and N can be at inside their calls: a
packet being copied in, an `end` about to be stored, a packet copied out whose
`start` is not advanced yet. `HasPacket` says that a N past its test has
something to read.

*NoStray.* `NoStrayFile` is not inductive: a thread that has closed the file and
is about to overwrite `adc_fd` must not find a file another one opened
meanwhile. `OneOwner` says so: whoever has closed the file, or is about to open
one, has the descriptor to itself, because only one `close` succeeds and the
handler goes on to `open` only after its own.

*HeaderIsFirst.* `HeaderDue` says that an open empty file named by `adc_fd`, no
write to which failed, is only ever the one for which P is about to write the
header.

*NothingLeaks.* `LeakInv` adds to `NoLeak` that a thread about to allocate finds
ping and pong null: `prepare_start_dev` has tested both, and while only one thread
starts and stops nobody sets them in between. `OneStarter` is what "only one" means
at each place: who has not been asked is not inside a start or stop.

*SafeWithOneStart.* `SafeInv` says of a single start, as long as no buffer was
allocated empty (`OneStart`), that before it has its buffers nobody has any and no
packet is taken in (`Before`), and that from then on each buffer is alive, has room
for `pack_in_min` packets, and no more are counted (`Room`). Nothing is asked of the
frequency itself: a negative one gets no buffers, and 0 only empty ones. `Params` changes `pack_in_min` only while there are no buffers; the
second start, for which that is false, is one way to the finding `recorder_rate`.

*KeepsOrderWithOneStart.* The invariant follows a packet from `check` to the file:
`Ahead` says of a stretch of a buffer that its packets are in order and later than
all that is recorded. It holds of what is counted in the buffer being filled, one
further while the count lags behind the store, and, once the flag is inverted, of
what the handler has not written yet; `Newest`, of the packet not yet counted. A
count cleared by the start shortens the stretch, which loses packets but keeps it
in order. `LastFile` says that what is written goes to the last file.

*FilesStayBounded.* The headers in the open file and those it may still get
without another start or stop (`HeadersDue`: what `num_pack` leaves of the file, with
allowance for each place in the handler) never exceed a budget of one and
`MinutesPerFile - 1` per start or stop. Each adds that much to the budget when it
clears `num_pack`, and no more than that to what is due; a header moves from due
to written. The count of a closed file stays.

*LayoutOfFiles, EveryMinuteRecorded.* Both speak of the moment when P is back for
a packet; `SoloInv` says what holds between. Minutes are counted by `num_pack`:
the packets taken in are `num_pack * pack_in_min` and what the buffer holds
(`Counting`); the buffer holds exactly those (`Buffered`); the open file holds,
record by record (`Cell`), the minutes since its first and what the handler has
written of the current one (`Holding`), and each closed one `MinutesPerFile`
minutes (`Filed`). The first packet of a file follows from the quotient of
`num_pack`, the place in it from the remainder; the lemmas `NextMinute`,
`HoldingNext` and `HoldingAppended` are that arithmetic. Which minute a closed file
begins with is known only if no file was lost, hence the two statements. `OwnRate`
says that the rate is that of P's own start, one of `Rates`, which is why a minute
is at least a packet; a file a write failed in has its minutes counted and its
records left out.

*The serial line.* `IInv == TypeOK /\ Ordered /\ Fresh /\ OneAnswer`. `UsedOnce`
looks at one exchange; what makes the next one safe is that a header is the first
unit of its answer, so that headers behind it on the line belong to later
answers (`Ordered`), and that none in front of the program is of an answer
already taken (`Fresh`). The lemma `UsesHeader` says that whatever passes the
checks is a header among the units read, by cases on which check let it pass.
`InStep` needs to know during a read what it states at the end of one: the line
holds one answer, and no more than is asked for (`OneAnswer`).

*The promise.* For `Implements` an exchange that ends its read must know that
what it read is its own as long as nothing was late before: that is `OneAnswer`
in the state before, which is why the exchange that loses the trust still keeps
the promise. `Ok` asks for at least one unit, and a unit of one's own answer means
that the device got the command. `StopUntilLate` then uses nothing of the line:
it is an invariant of `Exchange`.

*The shutdown.* `IInv == TypeOK /\ LastCommand /\ PortStopped /\ PortJoined`.
`OnceMore` needs that a N that has executed a command since SIGINT can only come
to its test of `b_end_threads` (`LastCommand`). `StoppedAtEnd` speaks of the end
of main; the invariant must say it from the moment P is dead (`PortStopped`: the
device is stopped, or N has just done its last start and is at its test), and
that main closes the port only behind all three or with P never created
(`PortJoined`, from which `QuietAtClose` follows as well). P gets to "stop" and N to
its last command in either order, which is why the command in the buffer is part
of it.

*Time and status.* `TimesGrow` orders the time from gpsd's report over
`rtc_data` and P's copy to what was sent; `t1` is the time last sent, if any was.
For a copy in parts the invariant has to say, at each place of the writer and
for each set of parts not yet copied, of which report a part is: `Written` for
G, `SoFar` for P. `OneStatus` and `OneDrift` do the same for `status`, the answer
to the client and the header. `Taken` follows a status from the line to the
decision to start the device; what the bytes can do enters there by `CrcDetects`:
of a device that is not set up no damaged status says so and passes unpatched.

*The CRC.* `XorDoubles` gives exclusive or on numbers of 16 bits by their halves,
from which its laws follow bit by bit (`XorLaws`). `Push` is one step of the
division; it is linear (`PushLinear`), and so are eight of them (`PushesLinear`).
`TableRule` says of each entry of `Crc16Table` that it is what eight steps make of
its index: entries 2g and 2g + 1 come from entry g by one step more (`TableGrows`),
as its definition does. Then one round of the loop is eight steps of the
division (`StepRule`), and the rest is induction over the message. The library's
induction theorems cannot be used here, so every induction takes the least
counterexample instead (`LeastNat`, which stands on the well-foundedness of finite
subsets), and every recursive function is first shown to exist (`ByBytesExists`,
`ByBitsExists`, `PowersExist`).

*Changed bits.* Changing the bit d places before the end of a message adds x^d to
its CRC (`CrcChanged`: `Power[d]`). A step of the division keeps the parity of the
remainder, since x + 1 divides the polynomial (`PushParity`); every power has the
parity 1, hence `OddDetected`, which one and three changed bits are cases of. Two
leave the sum of two powers, which is 0 only if they are equal, and a step can be
undone (`PushInjective`), so that equal powers would make a lower one 1. `PowerOrder`
excludes that: the 32767th power is 1, and were a lower one 1, so would be the
4681st, the 1057th or the 217th, as 32767 = 7 * 31 * 151. These are computed by
steps and by squaring (`SquarePower`), which is linear as well.

*What StatusGet takes.* `Damage` goes through what may come: a whole answer is
taken as it was sent; of one with changed bits the CRC is not 0, or it goes through the
patch; a cut one of five bytes would have to pass for a short status (`CutAtFive`: the
CRC of a status' first five bytes is not 0, because the division undone leads
elsewhere), and one of any other length is refused. `Shifted`: no two bytes
before those of the length look like it (`NotTheLength`), so
the patch moves the right bytes, and what is read of the device is `st_main`.

`IInv` and the other strengthened invariants were checked with TLC before they
were proved (`SoloInv` with the first packet of a file sought in `0 .. MaxPack`).

Every safety property of the passing runs is proved. Only model-checked: `Ends`
and `KeepsTime`, which are liveness under fairness and out of reach of TLAPS.

## 5. What the models leave out on purpose

- The contents of packets and headers: a packet is its number, a header is
  `Header`. `parse_adc_pack` drops one byte of each sample and keeps the order
  of samples, so a packet written to a file is still that packet.
- Names: which directory and which minute a file is named after. Whether the
  directory exists is kept (`dirOk`).
- `syncfs` (`log.c:458`): what is written is in the file, and what a power failure
  would leave of it is not looked at.
- Reuse of a descriptor's number between `close` and `adc_fd = -1` by a
  directory another thread opens for a moment (`log.c:55`).
- `adc_freq`, `file_in_hour`, `num_data`, `num_err`: written, never read for a
  decision.
- On the serial line: in `SerialPort`, bytes that are changed or lost within an
  answer (`Telemetry` has them for StatusGet), and what is in the line before P and N begin (from an
  earlier run, or a late answer to main's StatusGet; opening the port does not
  empty it): the exchanges are then out of step as after a late answer.
- In `Frames` and `Telemetry`: bytes in front of a status that themselves look
  like its length (the patch then moves the wrong bytes); packets that DataGet
  salvages with a wrong CRC (`SerialPort` has the salvage, on units); what a short
  status leaves zero in `status`.
- Before gpsd's first report, time 0: `rtc_data` is zero and `t1` on the stack,
  so that P may take 0 to the device; it is in the model, and in no property.
- At the end of the program: a SIGINT before its handler is set or while it runs
  (another thread would take it), and the second `close` of the socket's descriptor
  number, which may have been given to another file.
- The `sleep(1)` inside `StartDevice`'s exchange is there as time for an answer to
  arrive. The comment above it (`proto.c:691-692`: the critical section is entered
  twice so that other threads need not wait) is not what the code does: it holds
  the mutex throughout, as the models do. For how long others wait is not in them.
- The five-byte answers to START, STOP and CLR_BUF (`mythreads.c:491-555`): they
  are the head of `status`, as copied in `Telemetry`, and carry no computed CRC.
- `gmtime`'s static buffer (`utils.c:286`): a file name, and the `SampleTime` of a
  header, can be made of two times.

## 6. Plan

In order; each item with the statements worth checking and proving.

1. **Done**: `OverwriteQueue`, `CircBuf`, `RingThreads`, `Recorder`.
2. **Done**: `SerialPort`.
3. **Done**: `Lifecycle`.
4. **Done**: `Frames`, `Telemetry` (GPS time, statuses, the header's drift).
5. **Done**: `Exchange`; the start and the end of main in `Lifecycle`.
6. **Composition**: `RingThreads` driven by `Recorder`'s loop, to relate what is
   recorded and what is served; `Recorder` over
   `Exchange` instead of its own one-step exchanges, whose faults "lost", "ack"
   and "stale" are that module's outcomes.
7. **Done**: every invariant of `Recorder` proved for every value of its constants.
   The statements of the files count headers and compare places, so that no
   sequence need be filtered or joined.
8. **Done**: the CRC proved for every message, and what passes of damaged statuses
   for every length the CRC is made for.
9. **Proofs** about the composition, once it is there: that a packet recorded and
   a packet served with the same number are the same.

Runs are kept to one per question; a new module's run takes in, or replaces, one
that it makes unnecessary.

## 7. Not modelled

The log file's text (its descriptor is opened before and closed after all
threads: `Lifecycle`); `main`'s arguments; time and string conversions
(`utils.c:185-298`); the layout of data file headers (`log.c:241-345`) except the
drift; commands nothing calls (`SetConst`,
`GetConst`, `SetId`, `PowerOff`, `SetTimesToZero`, `ClearBuf`), one of which
would recurse for ever (`proto.c:317`); `rtc.c` and `link.c`, which are not
part of the build; `sintab.c`, a table nothing refers to.
