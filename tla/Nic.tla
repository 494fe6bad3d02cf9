-------------------------------- MODULE Nic ---------------------------------
(***************************************************************************)
(* The receive mailbox and the interrupt controller of the NIC, one step   *)
(* per clock edge, and the two software threads that read them over one    *)
(* bus: the protocol thread polls the mailbox (net::netSelect,             *)
(* transport::receive), the interrupt thread reads the status register     *)
(* (controller::isr_thread).  Reading the length register of the mailbox   *)
(* or the status register clears it - three edges after the value was      *)
(* taken.                                                                  *)
(*                                                                         *)
(* Every edge, each register takes the value its always block computes     *)
(* from the registers before the edge.  rx_clk and bus2ip_clk are one      *)
(* clock (testbench.cpp:31,37).  Of the four interrupt sources, which are  *)
(* alike, the frame and the periodic interrupt are modelled.               *)
(***************************************************************************)
EXTENDS Integers, Sequences

CONSTANTS
    MaxFrames,      \* bound: frames that arrive
    MaxTicks,       \* bound: periodic interrupts
    MinFrame,       \* edges a frame lasts at least ...
    MaxFrame,       \* ... and at most
    Gap             \* edges between two frames at least

ASSUME NicAssumption ==
    /\ MaxFrames \in Nat /\ MaxTicks \in Nat
    /\ MinFrame \in Nat /\ MinFrame >= 2 /\ MaxFrame \in Nat /\ MinFrame <= MaxFrame
    /\ Gap \in Nat /\ Gap >= 3

VARIABLES
    line,           \* the frames on the receive lane: [on, n, age]
    frm_len,        \* the frame whose length the mailbox shows, NoFrame for 0
    wr_fin,         \* wr_fin and its two delays
    rd_buf,         \* the frame in the read buffer
    wr_fin_bus,     \* wr_fin_bus_z1, _z2
    data_rdy,       \* data_rdy and its two delays
    int_rx_all,     \* int_rx_all_z1, _z2, _z3
    intxms,         \* intxms_i and its three delays
    int_status,     \* [rx, xms]
    int_ptp_o,
    bus,            \* the read on the bus: [by, reg, k], k edges of rd_ce so far
    ip2bus,         \* the value the bus shows
    read_clear,     \* the register whose read has just ended, the one to be cleared
    main,           \* the protocol thread: [pc, len, word]
    \* Ghosts
    ticks, alarms,  \* periodic interrupts raised, and calls of catch_alarm
    blurred,        \* periodic interrupts that met a read of the status register
    got,            \* the last frame handed to the protocol
    struck          \* the frame in the mailbox met a read of the length register

vars == <<line, frm_len, wr_fin, rd_buf, wr_fin_bus, data_rdy, int_rx_all, intxms,
          int_status, int_ptp_o, bus, ip2bus, read_clear, main,
          ticks, alarms, blurred, got, struck>>

NoFrame == 0
Idle == [by |-> "none", reg |-> "none", k |-> 0]
Low(n) == [i \in 1..n |-> FALSE]
Shift(in, z) == <<in>> \o SubSeq(z, 1, Len(z) - 1)
NoData == [rdy |-> FALSE, len |-> NoFrame, xms |-> FALSE]

Init ==
    /\ line = [on |-> FALSE, n |-> 0, age |-> Gap]
    /\ frm_len = NoFrame /\ rd_buf = NoFrame
    /\ wr_fin = Low(3) /\ wr_fin_bus = Low(2) /\ data_rdy = Low(3)
    /\ int_rx_all = Low(3) /\ intxms = Low(4)
    /\ int_status = [rx |-> FALSE, xms |-> FALSE] /\ int_ptp_o = FALSE
    /\ bus = Idle /\ ip2bus = NoData
    /\ read_clear = <<"none", "none">>
    /\ main = [pc |-> "idle", len |-> NoFrame, word |-> NoFrame]
    /\ ticks = 0 /\ alarms = 0 /\ blurred = 0 /\ got = NoFrame /\ struck = FALSE

-----------------------------------------------------------------------------
(* The line and the receive mailbox (rx_ptp_buf)                             *)

Older(age) == IF age < MaxFrame + Gap THEN age + 1 ELSE age

StartFrame ==
    /\ ~line.on /\ line.n < MaxFrames /\ line.age >= Gap
    /\ line' = [on |-> TRUE, n |-> line.n + 1, age |-> 0]
    /\ frm_len' = NoFrame
    /\ wr_fin' = Shift(FALSE, wr_fin)

EndFrame ==
    /\ line.on /\ line.age >= MinFrame
    /\ line' = [line EXCEPT !.on = FALSE, !.age = 0]
    /\ frm_len' = line.n
    /\ wr_fin' = Shift(TRUE, wr_fin)

LineGoesOn ==
    /\ line.on => line.age < MaxFrame
    /\ line' = [line EXCEPT !.age = Older(@)]
    /\ UNCHANGED frm_len
    /\ wr_fin' = Shift(wr_fin[1], wr_fin)

Copied == wr_fin[2] /\ ~wr_fin[3]

\* Mutant of ReadBuffer: the frame is written straight into the read buffer.
WrittenThrough == rd_buf' = IF line.on THEN line.n ELSE rd_buf

ReadBuffer == rd_buf' = IF Copied THEN frm_len ELSE rd_buf

DataSet == wr_fin_bus[1] /\ ~wr_fin_bus[2]
Clears(reg) == read_clear[2] = reg

\* Mutant of DataCleared: a flag that was set since the value was taken is
\* cleared as well.
ClearedAnyway == Clears("RX_FLEN")

DataCleared == Clears("RX_FLEN") /\ data_rdy[3]

DataReady ==
    /\ wr_fin_bus' = <<\E i \in 1..3 : wr_fin[i], wr_fin_bus[1]>>
    /\ data_rdy' = Shift(DataSet \/ (data_rdy[1] /\ ~DataCleared), data_rdy)

Mailbox == (StartFrame \/ EndFrame \/ LineGoesOn) /\ ReadBuffer /\ DataReady

-----------------------------------------------------------------------------
(* The interrupt controller (ptp_int_ctl)                                    *)

\* A pulse of the periodic interrupt, milliseconds after the last one.
RaiseTick ==
    /\ ticks < MaxTicks /\ intxms = Low(4) /\ ~int_status.xms
    /\ intxms' = Shift(TRUE, intxms)
    /\ ticks' = ticks + 1

NoTick == intxms' = Shift(FALSE, intxms) /\ UNCHANGED ticks

EdgeOf(z) == z[2] /\ ~z[3]
Delays == SubSeq(intxms, 2, 4)

\* Mutant of Status: reading the register does not clear it.
StatusKept ==
    int_status' = [rx |-> int_status.rx \/ EdgeOf(int_rx_all),
                   xms |-> int_status.xms \/ EdgeOf(Delays)]

Status ==
    int_status' = IF Clears("INT_STS") THEN [rx |-> FALSE, xms |-> FALSE]
                  ELSE [rx  |-> int_status.rx \/ EdgeOf(int_rx_all),
                        xms |-> int_status.xms \/ EdgeOf(Delays)]

Interrupts ==
    /\ RaiseTick \/ NoTick
    /\ int_rx_all' = Shift(wr_fin[2], int_rx_all)
    /\ Status
    /\ int_ptp_o' = (int_status.rx \/ int_status.xms)

-----------------------------------------------------------------------------
(* The bus.  rd_ce is high for four edges (MyTarget::read_reg), the value    *)
(* the software gets is the one the NIC registers at the second of them;     *)
(* the register is cleared at the second edge after rd_ce fell.  The mutex   *)
(* of the controller keeps the accesses apart.                               *)

Value(reg) ==
    CASE reg = "RX_FLEN" -> [NoData EXCEPT !.rdy = data_rdy[1], !.len = frm_len]
      [] reg = "RX_BUF"  -> [NoData EXCEPT !.len = rd_buf]
      [] reg = "INT_STS" -> [NoData EXCEPT !.xms = int_status.xms]

BusFree == bus.k = 0
Ends == bus.k = 4

Access(by, reg) == BusFree /\ bus' = [by |-> by, reg |-> reg, k |-> 1]

BusGoesOn ==
    bus' = CASE BusFree -> Idle
             [] Ends    -> Idle
             [] OTHER   -> [bus EXCEPT !.k = @ + 1]

Transfer ==
    /\ ip2bus' = CASE bus.k = 2 -> Value(bus.reg)
                   [] bus.k \in {1, 3} -> ip2bus
                   [] OTHER -> NoData
    /\ read_clear' = <<IF Ends THEN bus.reg ELSE "none", read_clear[1]>>

-----------------------------------------------------------------------------
(* The threads                                                               *)

\* isr_thread waits for an edge of int_ptp_o or a microsecond, which is longer
\* than a register takes to clear, and judges by the level.
Serve == int_ptp_o /\ "INT_STS" \notin {read_clear[1], read_clear[2]}
         /\ Access("isr", "INT_STS")

\* net::netSelect, after at most a microsecond.
Poll == main.pc = "idle" /\ Access("main", "RX_FLEN")

\* protocol::handle skips netSelect in the pass in which the state changed.
SkipPoll == main.pc = "idle" /\ main' = [main EXCEPT !.pc = "receive"]

ReadOn ==
    \/ main.pc = "receive" /\ Access("main", "RX_FLEN")
    \/ main.pc \in {"first", "last"} /\ Access("main", "RX_BUF")

Waiting == BusGoesOn

Done(by) == Ends /\ bus.by = by

\* netSelect's condition, and the steps of transport::receive: the length, the
\* first and the last word of the buffer.
netSelect == ip2bus.rdy /\ ip2bus.len # NoFrame

Took ==
    CASE main.pc = "idle" ->
            [main EXCEPT !.pc = IF netSelect THEN "receive" ELSE "idle"]
      [] main.pc = "receive" ->
            [main EXCEPT !.pc = IF ip2bus.len # NoFrame THEN "first" ELSE "idle",
                         !.len = ip2bus.len]
      [] main.pc = "first" -> [main EXCEPT !.pc = "last", !.word = ip2bus.len]
      [] main.pc = "last" -> [pc |-> "idle", len |-> NoFrame, word |-> NoFrame]

Received == Done("main") /\ main.pc = "last"

\* The periodic interrupt that comes while its status is read and not yet
\* cleared is cleared with it.
BlurredTick ==
    /\ EdgeOf(Delays)
    /\ \/ bus.reg = "INT_STS" /\ bus.k \in 2..4
       \/ "INT_STS" \in {read_clear[1], read_clear[2]}

\* The flag that is set just after the value was taken is old enough to be
\* cleared; so is the one that was set already for the frame before.
StruckFlag ==
    \/ bus.reg = "RX_FLEN" /\ bus.k \in {2, 3}
    \/ data_rdy[1] /\ ((bus.reg = "RX_FLEN" /\ bus.k = 4) \/ read_clear[1] = "RX_FLEN")

Ghosts ==
    /\ alarms' = IF Done("isr") /\ ip2bus.xms THEN alarms + 1 ELSE alarms
    /\ blurred' = IF BlurredTick THEN blurred + 1 ELSE blurred
    /\ got' = IF Received THEN main.len ELSE got
    /\ struck' = IF DataSet THEN StruckFlag ELSE struck

Hardware == Mailbox /\ Interrupts /\ Transfer /\ Ghosts

MainTakes == main' = IF Done("main") THEN Took ELSE main

Next ==
    \/ Hardware /\ Serve /\ UNCHANGED main
    \/ Hardware /\ Poll /\ UNCHANGED main
    \/ Hardware /\ BusFree /\ SkipPoll /\ BusGoesOn
    \/ Hardware /\ ReadOn /\ UNCHANGED main
    \/ Hardware /\ Waiting /\ MainTakes

\* The clock runs freely, the threads come to run again and again.
Spec == Init /\ [][Next]_vars
FairSpec ==
    /\ Spec
    /\ WF_vars(Next)
    /\ WF_vars(Hardware /\ Serve /\ UNCHANGED main)
    /\ WF_vars(Hardware /\ Poll /\ UNCHANGED main)
    /\ WF_vars(Hardware /\ ReadOn /\ UNCHANGED main)

-----------------------------------------------------------------------------
(* Properties                                                                *)

\* catch_alarm is called once for every periodic interrupt, except for those
\* that met a read of the status register (ptp_int_ctl.v:82-93,
\* controller.cpp:105-178): the software timers never run fast, and run slow by
\* no more than that.
Resting == intxms = Low(4) /\ ~int_status.xms /\ ~ip2bus.xms
TicksTaken ==
    /\ alarms + blurred <= ticks
    /\ Resting => alarms + blurred = ticks

\* A frame whose flag did not meet a read is received, or the next one
\* overwrites it (rx_ptp_buf.v:113-130, net.cpp:191-221, transport.cpp:549-576).
FrameTaken ==
    \A n \in 1..MaxFrames :
        data_rdy[1] /\ rd_buf = n /\ frm_len = n /\ ~struck
            ~> got = n \/ rd_buf # n \/ struck

\* The words that receive() copies are of the frame whose length it read, or of
\* later ones in the order in which they ended, never of an earlier frame or of
\* one that is still on the line; and a later frame that breaks into the read
\* leaves its flag set behind, so that it will be read once more as a whole
\* (rx_ptp_buf.v:67-130, transport.cpp:561-567).
LastEnded == IF line.on THEN line.n - 1 ELSE line.n
ReceivedInOrder ==
    Received =>
        /\ main.len <= main.word /\ main.word <= ip2bus.len /\ ip2bus.len <= LastEnded
        /\ main.len < ip2bus.len => data_rdy[1]
=============================================================================
