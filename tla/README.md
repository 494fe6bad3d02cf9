# A TLA+ development of xge-ptpv2

xge-ptpv2 is an IEEE 1588-2008 (PTP version 2) node: a daemon derived from ptpd2 (`src/esl/sw`), the
SystemC/Verilog co-simulation it runs in (`src/esl/sc`, `src/esl/vl`), and the hardware that timestamps
frames on a 10G Ethernet interface and keeps the real-time clock (`src/rtl`). The modules here describe the
daemon - its protocol engine, management, messages and servo - and the hardware it relies on: the receive
mailbox, the interrupt controller, the real-time clock and the timestamp unit. TLC checks them on small
instances and TLAPS proves facts that hold for every instance.

All line numbers below refer to files under `src/`. `PROJECT.json` maps every definition to its lines.

## 1. Inventory

### The parts and how they interact

One SystemC thread runs the daemon: `ptpd` starts `protocol::protocolExec`, which loops over `doState`.
A pass of `doState` asks the *best master clock algorithm* for a state decision, asks the *timers* what has
expired, sends messages through *msg*, *net* and *transport*, fetches at most one frame from the *receive
mailbox* and hands it to a handler, which may feed the *servo*. All hardware is behind 32-bit registers, read
and written one at a time under the bus mutex of the *controller*. The controller also runs the interrupt
service: the timer interrupt only counts a tick (`catch_alarm`), the transmit and receive interrupts notify
SystemC events. So the daemon's concurrency is that of one thread with the clock, the wire and the MAC:
between any two register accesses a tick may be counted, a frame may overwrite the receive buffer, a
transmission may end.

| part | source | state | operations | what makes it correct |
|---|---|---|---|---|
| Protocol engine | `esl/sw/protocol.cpp` | `ptpClock` (data sets, sequence ids, waiting flags, foreign masters) | `toState`, `doInit`, `doState`, `handle`, a handler per message, an issue function per message, `addForeign` | the watchdog always runs; each role sends only its messages; responses are paired with requests |
| Best master clock | `esl/sw/bmc.cpp` | data sets, table, parent | comparison, `bmcStateDecision`, `bmcExec`, `m1`, `s1`, `initData` | a total verdict that agrees with the standard's order; the best record wins |
| Interval timers | `esl/sw/dep/ptp_timer.cpp` | `itimer[]`, `elapsed` | start, stop, update, expired, `catch_alarm` | no expiry early, none lost |
| Management | `esl/sw/management.cpp` | configurable fields of the data sets | GET/SET/COMMAND per TLV | state changes respect `toState` |
| Servo | `esl/sw/dep/servo.cpp` | filters, drift, offset | `updateOffset`, `updateDelay`, `updatePeerDelay`, `updateClock` | no overflow; step or slew |
| Arithmetic | `esl/sw/arith.cpp` | none | add, sub, normalise, fixed-point conversions | normal form, sign, rounding |
| System access | `esl/sw/dep/sys.cpp` | none | RTC read/adjust, timestamp lookup and completion | a time is read whole; a timestamp belongs to its message |
| Packing | `esl/sw/dep/msg.cpp` | message buffers | pack/unpack of each message | unpack inverts pack |
| Network, transport | `esl/sw/dep/net.cpp`, `transport.cpp` | frame buffers | `netSelect`, `netRecv`, `netSend*`, parse/assemble | the right frame is fetched once |
| Mailboxes | `esl/vl/rx_ptp_buf.v`, `tx_ptp_buf.v` | one frame each, `data_rdy` | write, read, read-clear | no frame is marked read unread |
| Interrupt controller | `esl/vl/ptp_int_ctl.v` | status, mask | edge capture, read-clear | no edge is lost |
| Controller | `esl/sc/controller.cpp` | mutex, events | register access, interrupt thread | no lost wake-up that hangs the daemon |
| Bus | `esl/sc/MyBus.h`, targets, initiators | in-flight transaction | blocking transport | one access at a time |
| RTC | `rtl/rtc/*.v` | seconds, ns, fraction, period, offset | count, adjust, correct, latch | monotone but for corrections; carries |
| Timestamp unit | `rtl/tsu/*.v` | parser state, captured timestamps, CRC | parse, capture, embed, checksum | the timestamp of the right frame |
| Conversion, top | `rtl/cvt`, `rtl/top` | pipelines | width/rate conversion | frame preserved |
| Start-up, display, loop-back, testbenches | `startup.cpp`, `display.cpp`, `loop_back.cpp`, `tb`, `tc` | none of the protocol's | options, printing, tests | - |

### What is hard here

* **Time between steps.** A timer latches its expiry when *any* timer is asked (`timerExpired` calls
  `timerUpdate` for all), and stopping it does not clear the latch.
* **One receive buffer.** A frame overwrites the last one, read or unread; after a change of state `handle`
  fetches without looking at the flag.
* **Roles changed in the middle of a pass.** The state decision, a handler, the announce receipt timeout and the
  end of the master branch may each call `toState` in one pass; the code after them goes on regardless.
* **Matching by counters.** Requests, responses and follow-ups are paired by 16-bit ids and flags that
  outlive the times they stand for.
* **A bounded table** with three cursors (`number_foreign_records`, `foreign_record_i`, `foreign_record_best`)
  that different operations reset differently.
* **A comparison that is not transitive** (it is undecided about the present parent one step farther away),
  used by a scan that keeps a running best.
* **Commands behind the state machine.** A management message writes `portState` itself, in the middle of a pass.
* **One output buffer** that no message clears, and hardware that rewrites octets of the frame on its way, told where
  by a parser of its own.
* **Reads that clear.** The length and status registers are cleared by the end of their read, some edges after the
  value was taken.
* **A counter nobody stops.** Corrections meet the turn of a second in a pipeline of several cycles, and the time is
  read in three accesses.
* **Integers that must not overflow** in a filter whose state survives the restarts, and a step that must be
  measured from offsets of one kind.

`PROJECT.json` lists each hazard at its line with the properties aimed at it.

## 2. The modules

| module | what it is |
|---|---|
| `PtpTimer` | the operators of the timers: `timerStart`, `timerStop`, `timerUpdate`, `timerExpired`; ticks pending, latch, cast to `int` |
| `TimerService` | the timers under any order of calls and ticks, with history variables that say how long a timer has really run |
| `Bmc` | comparison, scan, `m1`, `s1`, pure |
| `BmcTable` | a harness that fills and refreshes a table in every way, around `Bmc` |
| `Protocol` | the port: `EXTENDS Bmc, PtpTimer`; `toState`, every handler, every issue function, the pass of `doState` step by step, and the hardware around the thread |
| `PortRole` | the abstract contract of a port: roles, the grandmaster it stands for, what it may send in which role |
| `ProtocolProperties` | everything claimed of `Protocol`, and the refinement mapping to `PortRole` |
| `ProtocolHistory` | `Protocol` with a history variable that says how often the message in the buffer is still to be handled |
| `Management` | every management handler as a pure operator: data sets and message in, data sets and reply out |
| `ManagedPort` | `Protocol` under management messages: DISABLED, the commands that write `portState`, settings that change the protocol in force |
| `Transport` | headers of a frame for each encoding, and the parser that finds the message behind them |
| `Messages` | which octets each pack function writes, which each receiver acts on |
| `Tse` | the parser and the rewriting units of the timestamp engine, one clock edge at a time |
| `Wire` | a port's output buffer, the frame it goes out in, what the hardware does to it, what the receiver reads; `EXTENDS Messages, Transport` |
| `WireTse` | the frames of `Wire` as characters of a line that runs through the parser of the timestamp unit; `EXTENDS Wire, Tse` |
| `Rtc` | the real-time clock cycle by cycle, and the software that corrects and reads it |
| `Nic` | receive mailbox, interrupt controller, bus and the two threads, cycle by cycle |
| `Arith` | times as pairs of seconds and nanoseconds, and their conversions |
| `Servo` | the servo in a loop with the clock it adjusts; `EXTENDS Arith` |
| `MC*` | values for the constants |
| `TimerServiceProofs`, `BmcProofs`, `BmcTableProofs` and `ProtocolProofs` (both extend `BmcProofs`; `ProtocolProofs` is about `Protocol` and `ManagedPort`), `WireProofs` (with `Messages` and `Transport`), `NicProofs`, `RtcProofs`, `ServoProofs` (with `Arith`) | the theorems |

Composition: `Protocol` is built on `Bmc` and `PtpTimer` and extended by `ManagedPort`; `Wire` composes packing and
transport with what the timestamp unit does to a message, `WireTse` adds how the unit does it; `Rtc` composes the
clock with `sys.cpp`'s accesses to it; `Nic` composes mailbox, interrupt controller, bus, the interrupt thread and
`netSelect`/`receive`; `Servo` composes the servo with the clock error it causes. Where two modules show the same
thing the coarser one rests on what the finer one shows: `Protocol` handles one whole frame, that of before or after a
frame breaks in, and `Nic` says of what frames the words of a copy can be (`ReceivedInOrder`); `Protocol` gets the
message that was sent and `Wire` shows that packing, framing and parsing deliver it; `Protocol` counts ticks and `Nic`
says which are lost; `Servo` uses timestamps that are exact and `Rtc` says when they are.

### `Protocol` and the code

`pc` is where the thread is in its pass; `branch` is the case of `doState`'s second switch. One action is the
code between two accesses to what the hardware also touches:

| action | code |
|---|---|
| `doInit` | `protocol.cpp` `doInit`, with `initData`, `m1`, `toState(PTP_LISTENING)` |
| `StateDecision` | first switch of `doState`: `bmcExec` on a pending `record_update`, then `toState` |
| `FaultCleared`, `SlaveBranch`, `MasterBranch` | second switch |
| `netSelect`, `netRecv`, `handle` | `handle()`: the poll, the read of the length (which clears `data_rdy`), the read of the buffer with the whole handler |
| `AnnounceReceiptTimeout`, `SlaveRequest`, `DelayReqSent`, `PDelayReqSent` | the rest of the slave branch |
| `FirstAnnounce`, `issueSync`, `SyncSent`, `issueAnnounce`, `MasterRequest`, `MasterEnd` | the master branch |
| `issuePDelayRespFollowUp` | the second half of `handlePDelayReq` for a two-step clock |
| `Tick`, `Arrive`, `Transmit` | the timer interrupt, the receive buffer, the MAC |

Every issue function waits for the MAC, so the thread is blocked while `tx` holds a frame (`At`). An issue
function that reads the transmit timestamp afterwards has a second action for that part (`...Sent`).
`toState` is two operators, on the timers (`ToStateTimers` = leave, then enter) and on the data (`toState`).

### Abstractions

* A time is represented by the message it is the timestamp of (`Stamp`), so properties can say *whose* time is
  used; what is computed from it is the subject of `Arith` and `Servo`.
* A data set is its five compared attributes, the grandmaster and the steps removed; UTC offset, leap flags and
  the rest of the time properties are left out. Identities are numbers in the order of `memcmp`.
* Message intervals are ticks (`interval` = 2^logMessageInterval), so the random re-arming of the delay
  request timer is a choice from `0..2*delayReqTicks`.
* Ticks may be counted between any two steps, also while the timers are being updated
  (`ptp_timer.cpp:117-120` says why that is allowed); `left` of a stopped timer is kept at 0, it is never read.
* `data_rdy` is cleared by the read of the length in `netSelect` and again in `receive`; the model clears it
  in `netRecv`, which the thread reaches without any other access in between.
* `handle` works on the one frame that is in the buffer when the length has been read. The code reads the words one by
  one, so a frame that arrives among them leaves a copy that is mixed of two, or cut to the length of the first;
  `Protocol` leaves that out, `Nic` has it (section 6).
* `netSelect`, `netSend*` and `netInit` never return an error in this build (`net.cpp`), so the branches that
  go to FAULTY for it are dead and left out. Truncated frames do go to FAULTY.
* A transmit timestamp can be missed (`TxTimestampMayMiss`): the wait for the transmit interrupt timed out, or
  the register holds another message's.
* Left out with their timers: OPERATOR_MESSAGES and LEAP. `ignore_delayreq_interval_master` has its default.
  The sequence id of Announces is not looked at by any receiver and is sent as 0.
* UNCALIBRATED is a state the code names and never enters.

### `Management` and `ManagedPort`

A handler of `management.cpp` is an operator on the data sets and the message; its result has the new data sets and
the reply. Dispatch (`handleMM`), the error TLVs, "not supported", replies that are built and not sent, and boundary
hops are all there; values are records of the data set members they carry. `ManagedPort` adds an action for
`handleManagement` and for a message of another domain or version, lets the settings in force replace `Protocol`'s
constants (`Engine`), and adds the pass of a disabled port. `DISABLE_PORT`, `ENABLE_PORT` and `INITIALIZE` write
`portState` in the middle of a pass, as the code does, without `toState`; what follows in the same pass follows in the
model too. Of the settings, the domain, `priority1` and the delay mechanism are state: each changes the protocol in
a way of its own.

### `Wire` and `WireTse`

The value of an octet is the name of the field it belongs to and whether this message put it there, so a forgotten
octet shows as one of an earlier message. A pack function of the code is an operator that gives each octet the field
written last into it, or `Kept`; an unpack function gives each octet what the handler takes it for, or `Ignored`. The
buffer of `PACKET_SIZE` octets (300 in the code) takes the longest reply, the clock description: 49 octets around the
user's text of at most `USER_DESCRIPTION_MAX` (128, which `handleMMUserDescription` checks before it stores one),
padded and behind the 54 of header and TLV, which makes 232. A message passes `transmit`'s headers, on a one-step
clock the units that embed the time of departure and correct the correction field, and on the way in the unit that
embeds the time of arrival. The octets those units rewrite are stated as sets (`RxEmbedded`, `TxEmbedded`) and
`WireTse` checks these sets against `Tse`, which runs the parser of `rx_parse.v` edge by edge over the characters of
the line. Its registers are cleared one after another, some a cycle early, as in the Verilog.

### `Rtc`

An action is one rising edge; every register takes the value of its always block from the registers before the edge,
so pipelines have their true length: `wrap`, `adjust_retain`, `offset_adjust` and the delays of the self-clearing
bits. Software's functions are sequences of register writes (`setRtcValue`, `initClock`) that appear on the bus for
as many edges as `MyTarget` holds them. `getRtcValue` is three reads, any number of edges apart within a second; the
carry between them is in the model. Ghosts keep the time as it would be if each correction were exact. A message is
read less than a second after its arrival, less three ticks (`Punctual`): that is how far a correction may have left the
nanoseconds beyond the second when the message arrived, and `getPreciseRxTime` can tell one turn of a second, not two.
A second need not be a whole number of ticks, nor need a period: the pulse and the interrupt come in the first tick
at or behind their time (`FirstTickOf`), and the interrupt counts its periods from the first tick of the second
(`SinceSecond`).

### `Nic`

Again one action is one edge, of hardware and at most one thread. A read on the bus keeps `rd_ce` up for the edges
`MyTarget` waits, and the end of a read of the length or status register clears it three edges later. The protocol
thread polls, reads the length, reads the words; the interrupt thread reads the status and calls `catch_alarm`.

### `Servo`

`err` is what the slave's clock is ahead of the master's; a message takes one of `Delays`, plus what a transparent
clock says in the correction field. An action is a Sync (with its FollowUp), a request, a response of either
mechanism, leaving or entering SLAVE (`initClock`), a change of the mechanism by management, and `Wander`, which
stands for what oscillator and tick do between messages. Times go through the conversions of `Arith` with the integer
divisions of the code. The line of past offsets, the three syntonisation flags, both filters, the PI controller with
its clamps, and the tuning of `maxDelay` are all state.

## 3. The runs

| run | question | shape |
|---|---|---|
| `Election` | Does the table stay consistent (`SlaveRecordIsParent`, `NoDuplicateRecords`), does every decision follow the best (`ElectionSound`), is the contract `PortRole` implemented (`RefinesPortRole`)? | 3 foreign senders, table of 2, default class |
| `SlaveClass` | Does a class-255 clock give up mastership in the same pass (`SlaveClassYields`), and does a slave go on sending requests (`RequestsGoOn`)? | fairness, missed timestamps |
| `Fault` | Do the watchdog and a master's data sets survive faults (`WatchdogArmed`, `MasterDataset`), and does the port end up MASTER when everyone falls silent (`SilenceResolves`)? | truncated, short, alien frames, echo of the own grandmaster; a clock of class 6 that becomes MASTER and PASSIVE; fairness |
| `Delay` | Are requests and responses, Syncs and FollowUps paired (`DelayRespPaired`, `FollowUpPaired`), does the request timer run (`RequestTimerArmed`), is a message handled as often as the reads of the buffer make it, and none passed over (`HandledAsDue`)? | `ProtocolHistory`; one- and two-step Syncs, late and repeated responses, ids modulo 3 |
| `Peer` | Does a two-step responder's FollowUp answer the request its response answered (`PeerFollowUpAnswers`)? Also the type invariant, `TypeOK` | missed timestamps |
| `TimerService` | Is an expiry early or lost (`ExpiresOnTime`)? | two timers, periods 0, 2, 3 and beyond `int`, up to 4 pending ticks |
| `BmcTable` | Does the comparison agree with the standard's order (`ComparisonAgrees`), and does the scan find the best grandmaster although it is not transitive (`BestNamesBestGrandmaster`)? | tables of up to 3 of 36 records, any parent |
| `Managed` | Does the watchdog survive commands (`WatchdogArmed`), is a disabled port quiet and does it stay disabled (`DisabledQuiet`, `DisabledHolds`), do exchanges of management messages end (`ConversationsEnd`)? | commands, settings, replies overheard, a master, truncated frames |
| `Wire` | Is what the receiver acts on what was packed for this message (`ReadAsPacked`), does the timestamp unit rewrite its own octets only and signal each message once (`OnlyItsOctets`, `OneSignalEach`), do messages fit the buffer and frames the limits (`FrameLegal`)? | every order of two messages in the buffer, every encoding, a buffer of just the longest reply |
| `Rtc` | Does every correction count once, exactly (`CorrectionsKept`), are times of receipt completed right (`ReceiptCompleted`), do the nanoseconds fit (`NanosecondsFit`), are seconds and periods announced on time (`SecondsAnnounced`)? | a second of seven ticks and a half, corrections and restarts at any phase |
| `Nic` | Is a tick lost only if it met a read (`TicksTaken`), of what frames are the words of a copy (`ReceivedInOrder`), is a frame fetched in the end (`FrameTaken`)? | two frames, two ticks, any phase; fairness |
| `Servo` | Do the filter's products fit their integers (`FilterFits`), do estimates stay between what they are made of (`EstimateBetween`), do steps land on the master (`StepLands`), and is there just one at syntonisation (`SteppedOnceWhenSyntonized`)? | three sets of options, both mechanisms, restarts |

**Bounds of the port's runs.** `MaxElapsed` = 1: at most one tick is pending in the port model; lumps are the subject
of `TimerService`, and the periods of 1 or 2 ticks make every order of expiries of two timers possible.
`MaxForeign` = 2 with three senders fills the table and evicts. `SeqMod` of 2 or 3 for 2^16: the ids wrap within
a few requests, and 3 tells "the last", "the one before" and "another" apart. `Managed` has `SeqMod` = 1, as none of
its properties looks at an id, and a table of one record, as its subject is the state, not the election. Frames
come from small sets (`MCProtocol`, `MCManaged`), chosen so that every role, every eviction and every wrong pairing can
happen; a frame may arrive at any time and any number of times, so loss, repetition and reordering need no action of
their own. `IntMax` = 100 is never reached by a tick count except where a run asks for a period beyond it.

**Bounds of the others.** `Wire`: texts have up to 128 octets, as in the code, and the buffer has the 232 that the
longest reply then takes, the tightest that `WireAssumption` allows (the 300 of the code are covered by the proofs);
framed, that reply has 316 octets at most, so the limit of 9 bits is kept with room; what an octet holds depends on
the messages before only through "put there by this message or not", so any order of messages is covered by the last
two; the set of encodings is complete; management replies are without data, with the parent data set, an error, the
user description, and the clock description with a text of even and of odd length, which takes padding or not. On the
line each frame is sent twice, starting in lane 0 or 4, 16 characters or more apart; tagged SNAP frames are left out
because there the unit goes wrong (section 6). `Rtc`: a second of 15 in ticks of 2 is longer than the pipeline of a
correction, so that a correction can be finished within a second or span its end, at each phase, and a second starts
now in one half of a tick and now in the other; a period of 5 is no whole number of ticks either; the low register
wraps every two ticks, so that every kind of torn read occurs; corrections of -14, -3, 0, 13 reach across a second
either way. `Nic`: two frames are what a poll can confuse, two ticks what one read-clear can swallow; a frame of 3 to
5 edges and a gap of 3, the shortest the hardware takes, are no longer than a read on the bus, so that everything can
meet everything. Rx and bus clock are one clock, as in the test bench. `Servo`: a second is 30 ns and an integer has 6
bits, so a second fits twice as it does in 31; the stiffness goes up to 3, the line of offsets has 5 places, and the
budgets of the scenarios (nine Syncs to become syntonised and step, with a response or a restart among them; eight
responses to make the filter as stiff as it gets) bound a run. The proofs of section 4 need no budget.

Deadlock is checked in every run but `Servo`, which stops when its budget is spent.

**Fairness.** `WF(PortStep)`: the scheduler runs the daemon's thread, which yields with `wait(SC_ZERO_TIME)`.
`WF(Tick)`: the tick generator is free-running. `WF(Transmit)`: the MAC drains its buffer. Nothing is assumed of
the network: a liveness property has to hold whatever arrives or fails to. `Nic`: the clock runs (`WF` of every
step), and a thread whose next access stays possible starts it: the mutex is held for one access only, and the
scheduler runs both threads.

**Mutants.** Each property of a passing run is broken by a seeded fault (operators marked "Seeded fault" next to the
definition they change): a scan that stops early, a search that starts late, a latch cleared for every timer, states
left after the next is entered, a forgotten reset, a guard without the sequence id, a header octet that is not
cleared, a correction applied while the nanoseconds wrap, a read-clear that takes both flags, a filter whose weights
add up to more than one, and so on.

## 4. The proofs

The theorems hold for every value of the constants that satisfies the named assumptions: any set of frames, table
size, periods within an `int`, both delay mechanisms, one- and two-step, slave-only or not (`BmcAssumption`,
`IntMaxAssumption`, `ProtocolAssumption`, `ServiceAssumption`); any number, length and spacing of frames of two edges
or more, a gap of three between them (`NicAssumption`); any buffer that the longest reply fits into, texts and
encodings (`WireAssumption`); any second of more than six ticks that holds a whole number of periods of two ticks or
more, and any corrections of less than a second (`RtcAssumption`; the code has 10^9 ns, a tick of a few, and periods
of 10^7 or 7812500); any width of integers in which a second fits twice, and any options, delays and errors
(`SecondAssumption`, `WordAssumption`, `FractionAssumption`, `WidthAssumption`, `ControllerAssumption`,
`EnvironmentAssumption`).

* **`ProtocolProofs`** proves `PortTypeCorrect` (`Spec => []TypeOK`), `WatchdogAlwaysArmed`
  (`[]WatchdogArmed`) and `MasterIsOwnGrandmaster` (`[]MasterDataset`) from one inductive invariant `IInv`.
  `TypeOK` alone is not inductive: a FollowUp of the peer responder repeats the header saved in
  `PdelayReqHeader`, whose cleared value is not a sequence id, so `HeaderSaved` says that the header has been
  saved whenever the thread is about to send it. `ClockOK` couples a MASTER's role with its data sets and
  `TimersOK` couples each role with the timers it needs. The proof follows the code: one lemma for each operator
  on the data and the timers (`ToStateOK`, `EnterType`, `AddForeignOK`, `BmcExecOK`, ...), one for each handler,
  one for each action. That `foreign_record_best` stays in the table rests on `BestInUse`.

  Its third part is about what one pass of `doState` hands on to the next. It proves the properties of the `Election`,
  `SlaveClass`, `Delay` and `Peer` runs that rest on the order of steps in a pass. None is inductive. The invariant
  `PassInv` is `IInv` with `ControlOK` and `DataOK`. `ControlOK` says where the thread can be when a state decision is
  due (`DecisionOK`: never before the next pass handles its frame, for a pass handles one frame only), in which role
  it runs which branch (`RoleOK`, `BranchOK`, `YieldOK`), what kind of frame a pending decision was made for
  (`RereadOK`), and whose request a peer response answers (`AnswerOK`). `DataOK` says to whom a record belongs
  (`RecordsOK`, `ParentOK`) and for which message a wait is (`FollowOK`, `RespOK`). One lemma says what handling any
  frame comes to (`DispatchResult`): an Announce recorded, a fault, or an exchange touched. From `PassInv` follow, for
  any frames, `SlaveFollowsItsRecord`, `SlaveOnlyClassYields`, `PeerGetsItsFollowUp` and `FollowUpMeetsItsSync`, and
  with `DueOK` (how often a message is due follows from its flag and the place of the thread) `MessagesHandledAsDue`,
  of `HistorySpec`. The others need a condition each, which is where the code is exposed (section 6), and most of them
  a part of the invariant of their own:
  * `DelayRespMeetsItsRequest`: no transmit timestamp is missed.
  * `PortImplementsRole` (refinement of `PortRole`): frames come complete (`CompleteFrames`), so that `RunningOK`
    holds: past the switch the port is in a running state.
  * `OneRecordPerPort`: besides, nobody else announces the local clock (`OtherGrandmasters`). `TableOK` says that the
    table fills before it wraps and that the search starts from a record in use.
  * `ElectionIsSound`: besides, ports that announce the same grandmaster describe it alike (`OneQuality`). `ElectionOK` is
    established by each decision with `BestIsBest` and kept until the next.
  * `RequestTimerAlwaysArmed`: twice each period fits into an `int` (`PeriodsFit`).
* **`BmcProofs`** proves `BestInUse`: the scan of `bmcExec`, a recursive function, picks a slot of the table, and
  one in use if there is any. As the function's defining recursion must first be shown to have a solution, the
  module contains a small induction on sets (`InductionOnSets`) and the existence lemma `ScanExists`. `ComparisonIsFair`
  (swapping the records swaps the verdict) and `BestIsBest` are what the `BmcTable` run checks of a table of three,
  for any table. `BestIsBest` needs an argument, as the comparison of records is not transitive: that of the
  grandmasters' ranks is (`LexTransitive`), and within one grandmaster a record that replaces the best is no
  farther away (`StepsDecide`). Its condition `Consistent`: the records agree on what they say of a grandmaster.
  `PreferredIsFirst`: whoever is preferred comes first in the standard's order.
* **`BmcTableProofs`** proves the properties of the `BmcTable` run from these facts, for a table of any size and any
  senders: `TableIsComparedFairly` (`[]ComparisonAgrees`) and `TableNamesBest` (`[]BestNamesBestGrandmaster`). Their
  hypothesis `SameDescriptions` is met by the records of the run, and by any senders that pass on what a grandmaster
  says of itself; without it the claim is false: of two descriptions of one grandmaster the comparison takes the
  nearer one, not the better.
* **`TimerServiceProofs`** proves `TypeCorrect` and `OnTime` (`[]ExpiresOnTime`), from the invariant `Countdown`:
  what is left of a period is what has not been handed out yet.
* **`ProtocolProofs`, last part,** is about the port under management. It first proves `RepliesDescend` of the pure
  handlers: a reply is of a lower kind than the message it answers, where GET, SET and COMMAND rank above RESPONSE and
  ACKNOWLEDGE, and these above an error. From it follows `ExchangesEnd` (`ConversationsEnd`), of what the port
  transmits. `WatchdogSurvivesManagement` (`[]WatchdogArmed`), `QuietWhileDisabled` (`[]DisabledQuiet`) and
  `DisabledUntilCommanded` (`DisabledHolds`) need the invariant `ManagedInv`: `Safe` (the timers a port state needs
  are running, though the commands do not pass through `toState`) and `QuietPass` (a disabled pass goes from the poll
  to the handler and ends, and once a message has moved the port it is over). The steps of the protocol are shown to
  keep `ManagedInv` for every mechanism and quality a manager may have put in force, as steps of `Engine(m, o)`.
  `PortTypeCorrect` does not apply here: `DISABLED` is no state of `Protocol`, so `Safe` speaks of the port state and
  the timers only.
* **`NicProofs`** proves `CopiesInOrder` (`[]ReceivedInOrder`). The invariant follows a frame through the mailbox:
  `LineOK` (frames on the line are in order and apart), `WrFinOK` and `BufferOK` (which frame the shift of `wr_fin`
  and the read buffer belong to), `BusOK` and `LengthOK` (what a read in progress will return), `ReadOK` (the thread's
  length and words are in the order in which their frames ended). That a frame which breaks into a read stays flagged
  needs `SeenInv`: the flag is set at the edge at which the read buffer is filled, the read of the length clears it
  three edges after it has taken the value, and no word is copied before that, so a flag set later survives the read
  (`FlagEdgeOK`, `ClearOK`, `FlagOK`, `SeenOK`). `TicksCounted` (`[]TicksTaken`) follows a tick instead (`TickInv`):
  `PulseOK` (its pulse is in one stage at a time), `ServeOK` (the status is not read again before the last read has
  cleared it), `TakenOK` (the value a read holds is the register's) and `CountOK` (a tick is coming, or shown and not
  yet counted, or taken, or blurred).
* **`RtcProofs`** proves all four properties of the clock. `InRange` (`[]NanosecondsFit`): `RangeOK` alone is not
  inductive, as a correction out of range would do if it met another. `WritesOK` says that what is on the bus or
  waiting in a function is a correction of less than a second, `WrapOK` that the wrap flags are those of the values
  before, which forbids two wraps in a row. The theorem is why the widths of 32 and 33 bits need no modelling. `Exact`
  (`[]CorrectionsKept`) needs to know where a function is. `ControlOK` walks through the writes of `setRtcValue` and
  `initClock` and the bits they set, each of which clears itself, so that one control write is one pulse and the next
  function starts behind it. `PipelineOK` and `CarryOK` say what the stages in front of the counter hold while a
  correction is pending, and `ExactOK` that the counters lack just that correction. The four make up `IInv` with the
  ranges. `Completed` (`[]ReceiptCompleted`) and `SecondsPulse` (`SecondsAnnounced`) rest on `CInv`, of undisturbed
  time: `RunsOK` (how the nanoseconds settle in the five edges after a correction, which may leave them up to a second
  too far), `ReadsOK` (every register read holds the time of its read, at most one second turned since the arrival)
  and `PulseOK` (the counter of the interrupt is right as soon as a second has started undisturbed).
* **`ServoProofs`** proves of `normalizeTime` that it keeps the value and makes the time normal, that normal times of
  one value are equal, that `div2Time` is exact to half a nanosecond, and that a time of less than 2^48 seconds
  survives a Timestamp. It proves all four properties of the `Servo` run, for all histories without a budget's help.
  `FilterNeverOverflows` rests on the existence of the largest shift in `Stiffness` and on the truncating divisions.
  `EstimatesStayBetween` rests on `MixedAtMost` and `MixedAtLeast`: the mix of two truncated quotients never leaves
  the interval of its operands. `StepsLand` and `OneStepWhenSyntonized` need the invariant `TypeOK`, `FlagsOrdered`
  (the three flags rise one after another, each a Sync later), `LastSmall` (without auto-tune the last averaged offset
  is at most `maxDelay`, so an average cannot turn a small offset into a large one), `SteppedOnceWhenSyntonized` and
  `StepLands`.
* **`WireProofs`** proves `EveryFieldReadAsPacked` (`[]ReadAsPacked`) and `EveryFrameLegal` (`[]FrameLegal`), for
  every data set and text, the clock description among them, a buffer of any size they fit into, and any of the
  encodings. `PackedAsRead` compares the pack and the unpack function of each message octet by octet; `AsPacked` takes
  the octets through the timestamp units, which insert what the receiver expects (`Turnaround`: a one-step response
  carries the time that `tx_rcst` subtracts). `MessageFound` is about transport alone: the parser finds a message of
  any length where the sender put it. It goes through the words of the headers part by part (`VlanWords`,
  `EncapWords`, `IpWords`, `UdpWords`; `HeadWords` puts them together) and shows that the type behind the tags is
  never taken for a tag (`TagsSkipped`), though a SNAP frame has a length there. `ReadAsPacked` alone is not
  inductive: receivers read `flagField1` of an Announce, and `flagField0` of a one-step Sync, which no pack function
  clears. `FlagsClear` says that they are as they were in the zeroed buffer.

Only model-checked:

* liveness (`SilenceResolves`, `RequestsGoOn`, `FrameTaken`): temporal proofs under fairness need `ENABLED`, which is out
  of this prover's reach;
* `OnlyItsOctets` and `OneSignalEach`, which rest on a parser that folds over the words of a line and combines octets
  with bit operations: what a fold computes for every line is an induction over data, and no prover here has the bit
  operations. The run goes through every frame that the unit supports.

## 5. What the contract says

`PortRole` has three variables: role, grandmaster, message being sent. A port starts as a clock of its own, follows,
leads or listens; it sends Announces, Syncs, FollowUps and DelayResps only as a master and of its own grandmaster; it
answers peer requests in any role but the first; faults are cleared by initialising. `Election` checks that `Protocol`
implements it while frames are complete, and `PortImplementsRole` proves it. (With truncated frames the last promise
is broken, see below.)

## 6. Where the code and its comments disagree, and where it is exposed

Read in the code while modelling it. None of these has a run of its own; where the models contain the behaviour, the
properties are stated so that they say how far it goes, and no further.

**Protocol engine.**

* A timer that had latched its expiry before it was stopped is still reported, so a port in LISTENING sends a delay
  request (`ptp_timer.cpp:150`, comment at `protocol.cpp:175`). `DisabledQuiet` shows that a disabled port does not.
* Any master's Announce restarts the announce receipt timer of a slave, so a slave follows a master that fell silent
  while a worse one goes on announcing (`protocol.cpp:737`, comment at 379). `SilenceResolves` is about all of them
  silent.
* `sentDelayReqSequenceId - 1` is an `int` and is -1 after the wrap, so the response to the request 65535 is
  dropped (`protocol.cpp:1118`, comment at 1767). `DelayRespPaired` shows that no wrong one is accepted.
* A class-255 clock that has read a worse clock's Announce flips between MASTER and LISTENING for ever on that one
  frame (`protocol.cpp:495`, comment at `rx_ptp_buf.v:113`). `HandledAsDue` shows that no other message is seen again for
  this reason, `SlaveClassYields` that the port is never a master for longer than the pass.
* A fault raised by a truncated frame is overwritten when the announce receipt timer expires in the same pass
  (`protocol.cpp:388`); after re-initialisation the old insertion cursor makes the first sender appear twice
  (`bmc.cpp:132`); a change of master leaves `waitingForFollow`, so the new master's FollowUp is combined with the old
  one's Sync (`protocol.cpp:986`); a missed transmit timestamp combines a response with an older request's send time
  (`protocol.cpp:1764`); a `logMessageInterval` out of range stops the request timer (`ptp_timer.cpp:168`); a peer
  FollowUp is accepted against cleared times (`protocol.cpp:1352`); a frame that arrives between the reads of length
  and buffer is handled twice (`transport.cpp:567`): `HandledAsDue` counts the two and shows that there is no third.

**Management.**

* `INITIALIZE` and `DISABLE_PORT` are acknowledged and then overwritten by an announce receipt timeout of the same
  pass (`management.cpp:383`). `DisabledHolds` therefore speaks of a port that has settled in DISABLED.
* A frame that cannot be parsed takes a disabled port to FAULTY, and from there back to LISTENING.
* `SET PRIORITY1` triggers no state decision and leaves `grandmasterPriority1`; `SET DELAY_MECHANISM` on a slave never
  starts the other request timer; after `SET DOMAIN` or `SET VERSION_NUMBER` the port is deaf to its manager, and the
  reply still carries the old domain; `SET SLAVE_ONLY` changes `ptpClock->slaveOnly`, while `bmcStateDecision` reads
  `rtOpts->slaveOnly`; the two-step flag of the default data set is answered from an option and packed as 0
  (`management.cpp:427`); the reply to `TIME` is given no data, and packing it reads through a null
  pointer (`management.cpp:1032-1036`, `msg.cpp:728-735`), so no run sends `TIME`; `handleManagement` checks no length.

**Messages and frames.**

* `msgObuf` is never cleared: octet 46 of an Announce and octets 16-19 after a one-step PDelayResp are left over from
  earlier messages, octets 5 and 7 are written by management messages only. `ReadAsPacked` shows that no receiver acts
  on what is left over; that octet 7, from which `s1` takes the time properties, stays clear is what `WireProofs`
  needs `FlagsClear` for. A one-step PDelayResp relies on the hardware for its times.
* PPPoE with IEEE 802.3 gives a frame of type 0 (`transport.cpp`, no such branch), and the length of a SNAP frame
  counts addresses and CRC. The model leaves the first out and has the second.

**Receive mailbox and interrupt controller.**

* `data_rdy` set at the second or third edge of a poll of the empty mailbox is cleared unread, though it is said to
  stay until the frame is read (`rx_ptp_buf.v:128`, comment at 113). `FrameTaken` excepts these frames (`struck`).
* The length is read in one access and the words in as many more, while the next frame may be copied into the same
  buffer (`transport.cpp:561-567`, `rx_ptp_buf.v:72`). The copy then has the length of the first frame and words of
  both, or it is cut. The code does not notice. `ReceivedInOrder` shows what is left of the promise: nothing older or
  unfinished is copied, and the frame that broke in stays flagged, so it is read again as a whole.
* An edge that comes between the sample and the clear of the status register is lost (`ptp_int_ctl.v:85`; the comment
  at `controller.cpp:111` says otherwise). `TicksTaken` counts these (`blurred`), and shows there are no others.
* The transmit mailbox has no busy check, and its octet counter of 9 bits would wrap from 505 octets on.

**Real-time clock.**

* A negative correction that takes the time back across a second in the very cycle in which it is applied loses that
  second (`ptp_rtc.v:155-166`), and a correction applied in the cycle in which `ns_wrap_around_flag_p1` rises loses
  its nanoseconds (comment at `ptp_rtc.v:63`; `sys.cpp:580`). `CorrectionsKept` excepts these (`struck`) and shows
  there are no others.
* `getRtcValue` reads three registers of a running counter; a torn read is turned into an error of up to a second by
  `getPreciseRxTime` (`sys.cpp:557`). `ReceiptCompleted` excepts torn reads and shows that the rest is right for a
  receipt less than a second ago.
* `initClock` says it stops the clock, but `adjTickRate(0)` is clamped to a running one. The nanoseconds pass 10^9 for a
  cycle every second. Messages received before a step and read after it are completed with the new time.

**Timestamp unit.**

* In event messages of tagged SNAP frames the registers of the header are cleared in different cycles at the end of
  the frame, so the base of the message jumps back by the tags for a cycle and octets of the correction field are
  rewritten (`rx_parse.v:286,364,437`; comment at `rx_emb_ts.v:2`).
* With the minimum gap of 12 and a frame that ends in lane 0, the next, which starts in lane 4, is not counted from its
  first octet (`get_efd_done` lasts one cycle). The line of `Wire` keeps 16 characters.
* `rx_parse.v` compares with 224.0.1.107 where the daemon sends to 224.0.0.107; the check is never enabled.

**Servo.**

* `initClock` is said to clear the one-way delay filter (`servo.cpp:143`) and clears its stiffness only; `y` and
  `nsec_prev` survive. `EstimateBetween` is stated for just that.
* After a step the delay from master to slave is still that from before it, so the next response gives a path delay
  wrong by half the step, if the step is less than a second.
* A peer path delay below zero is not rejected, and one of seconds is not reverted; a response to a request sent
  before the port entered SLAVE again is combined with a cleared send time.
* `maxDelay` of 0 is said to be off (`servo.cpp:426`), while the offset is compared with it in any case.
* With `noResetClock` a large offset is slewed in the direction of its nanoseconds only. With auto-tune `maxDelay` can
  double beyond its integer, and an average of offsets may exceed a `maxDelay` that was halved; `StepLands` excepts
  auto-tune.
* The daemon is started with fixed arguments (`-e -z`: peer delay), so other options are set by editing the start-up.

## 7. Not modelled

* **Interface conversion and top level** (`rtl/cvt`, `rtl/top`): width and rate conversion and wiring.
* **Transmit mailbox** as registers: to the protocol it is the transmission its thread waits for (`Transmit`).
* **Capture of timestamps** across the clock domains, CRC and UDP checksum in `rtl/tsu`: the checksum is arithmetic over
  octets that the models do not have. The checks of version and address are not enabled by the daemon. Transparent
  clock mode is not used by it.
* **Fractions of a nanosecond and changes of the tick** in `Rtc`: `CorrectionsKept` needs an exact time to compare with.
* **Bus**: the TLM calls have no state besides the access in progress, which is in `Nic` and `Rtc`.
* **Start-up** parses options once and keeps no state; what it leaves is `Init`. **Display** prints. **Loop-back**
  replaces the daemon by a register test. **Test benches** exercise the RTL.
* **Arithmetic** nobody calls (`gtTime`, `is_Time_close`, `check_timestamp_is_fresh`, the pause at midnight).

## 8. What could follow

1. `Network`: two or three `Protocol` ports on a segment, with the abstract specification of one master after the announce
   interval. A port alone has hundreds of thousands of states, so this needs a coarser port, refined by `Protocol`.
2. The transmit mailbox and the transfer of timestamps between clock domains.
3. Proofs that a managed port keeps the pass invariants of `ProtocolProofs`, each of whose lemmas is about a `PtpClock`
   and would have to be restated for a clock with DISABLED among its states.
