--------------------------- MODULE ProtocolProofs ---------------------------
(***************************************************************************)
(* The port keeps its types, its watchdog and its data sets right for any  *)
(* network, any table size, any periods and both delay mechanisms; and     *)
(* each pass of doState keeps what the next relies on, up to the contract  *)
(* PortRole.                                                               *)
(*                                                                         *)
(* The first part proves what each operator on the data sets and on the    *)
(* timers preserves; the second that each handler of a frame, and then     *)
(* each action, preserves the inductive invariant IInv.                    *)
(*                                                                         *)
(* The third part adds to it, in PassInv, where the thread is when a state *)
(* decision is due and in which role it runs a branch (ControlOK), and to  *)
(* which message each wait and each record belongs (DataOK).  How often a  *)
(* message is handled, the contract, the table, the election and the timer *)
(* of the requests each rest on one part more: DueOK, RunningOK, TableOK,  *)
(* ElectionOK, RequestsOK.                                                 *)
(*                                                                         *)
(* The last part is about the port under management (ManagedPort): it      *)
(* keeps the timers its state needs, stays quiet and disabled once it is   *)
(* disabled, and ends every exchange, whatever messages and settings the   *)
(* managers send.  First the pure handlers of module Management: a reply   *)
(* is of a lower kind than its message, and only commands write the port   *)
(* state.  Then the invariant ManagedInv, for the steps of the protocol,   *)
(* whatever mechanism and quality they run with (Engine(m, o)), and for    *)
(* those of the managed port.  The clock is a function with a port state   *)
(* there, no member of PtpClock: a disabled port is in none of PortStates. *)
(***************************************************************************)
EXTENDS ManagedPort, ProtocolHistory, BmcProofs

\* The data sets of a port that is its own grandmaster.
OwnDataset(c) ==
    /\ c.parentPortIdentity = [clock |-> Self, port |-> 0]
    /\ c.grandmaster = [quality |-> OwnQuality, gm |-> Self]
    /\ c.stepsRemoved = 0

ClockOK(c) ==
    /\ c \in PtpClock
    /\ c.portState = "MASTER" => OwnDataset(c)

\* The timers that must run in a port state.
Needed(state) ==
    IF state \in {"LISTENING", "SLAVE", "PASSIVE"} THEN {"ANNOUNCE_RECEIPT"}
    ELSE IF state = "MASTER" THEN {"SYNC_INTERVAL", "ANNOUNCE_INTERVAL"}
    ELSE {}

TimersOK(state, it) ==
    /\ it \in [Timers -> Timer]
    /\ \A t \in Needed(state) : it[t].interval > 0

\* A responder that still has to send its FollowUp has saved the request.
HeaderSaved == pc = "pdelayFollowUp" => ptpClock.PdelayReqHeader.seq \in SequenceIds

\* The invariant of the protocol thread's own state, and that of its inputs.
PortOK ==
    /\ pc \in Places
    /\ ClockOK(ptpClock)
    /\ TimersOK(ptpClock.portState, itimer)
    /\ tx \in Frame \cup {NoFrame}
    /\ HeaderSaved

InputOK ==
    /\ branch \in {"slave", "master"}
    /\ elapsed \in 0..MaxElapsed
    /\ rx \in [frame : Frames \cup {NoFrame}, ready : BOOLEAN]

IInv == PortOK /\ InputOK

-----------------------------------------------------------------------------
(* The timers *)

\* A period within an int is the interval of the timer it starts.
LEMMA StartType ==
    ASSUME NEW it \in [Timers -> Timer], NEW t \in Timers, NEW n \in Nat
    PROVE  /\ timerStart(it, t, n) \in [Timers -> Timer]
           /\ \A u \in Timers : u # t => timerStart(it, t, n)[u] = it[u]
           /\ n \in 1..IntMax => timerStart(it, t, n)[t].interval > 0
<1>1. Ticks(n) \in Int
  BY IntMaxAssumption DEF Ticks, ToInt
<1>2. n \in 1..IntMax => Ticks(n) > 0
  BY IntMaxAssumption DEF Ticks, ToInt
<1> QED BY <1>1, <1>2 DEF timerStart, Timer

LEMMA StopType ==
    ASSUME NEW it \in [Timers -> Timer], NEW S
    PROVE  /\ StopAll(it, S) \in [Timers -> Timer]
           /\ \A u \in Timers : u \notin S => StopAll(it, S)[u] = it[u]
<1>1. \A u \in Timers : timerStop(it, u)[u] \in Timer
  BY DEF timerStop, Timer
<1> QED BY <1>1 DEF StopAll

LEMMA LeaveType ==
    ASSUME NEW it \in [Timers -> Timer], NEW from
    PROVE  LeaveTimers(it, from) \in [Timers -> Timer]
BY StopType DEF LeaveTimers

\* Entering a state starts the timers that must run in it.
LEMMA EnterType ==
    ASSUME NEW it \in [Timers -> Timer], NEW to \in PortStates
    PROVE  TimersOK(to, EnterTimers(it, to))
<1> USE DEF TimersOK, Needed, PortStates
<1>p. /\ ListenTicks \in Nat /\ ListenTicks \in 1..IntMax
      /\ AnnounceReceiptTicks \in Nat /\ AnnounceReceiptTicks \in 1..IntMax
      /\ AnnounceTicks \in Nat /\ AnnounceTicks \in 1..IntMax
      /\ SyncTicks \in Nat /\ SyncTicks \in 1..IntMax
      /\ PdelayReqTicks \in Nat
  BY ProtocolAssumption, IntMaxAssumption
<1>t. {"PDELAYREQ_INTERVAL", "SYNC_INTERVAL", "ANNOUNCE_INTERVAL", "ANNOUNCE_RECEIPT"} \subseteq Timers
  BY DEF Timers
<1>1. CASE to = "LISTENING"
  <2> DEFINE it1 == StopAll(it, Timers \ {"ANNOUNCE_RECEIPT"})
             it2 == timerStart(it1, "ANNOUNCE_RECEIPT", ListenTicks)
  <2>1. it1 \in [Timers -> Timer]
    BY StopType
  <2> HIDE DEF it1
  <2>2. it2 \in [Timers -> Timer] /\ it2["ANNOUNCE_RECEIPT"].interval > 0
    BY <2>1, <1>p, <1>t, StartType
  <2>3. EnterTimers(it, to) = it2
    BY <1>1 DEF EnterTimers, it1
  <2> QED BY <1>1, <2>2, <2>3
<1>2. CASE to = "MASTER"
  <2> DEFINE it1 == timerStart(it, "SYNC_INTERVAL", SyncTicks)
             it2 == timerStart(it1, "ANNOUNCE_INTERVAL", AnnounceTicks)
             it3 == timerStart(it2, "PDELAYREQ_INTERVAL", PdelayReqTicks)
  <2>1. it1 \in [Timers -> Timer] /\ it1["SYNC_INTERVAL"].interval > 0
    BY <1>p, <1>t, StartType
  <2> HIDE DEF it1
  <2>2. /\ it2 \in [Timers -> Timer]
        /\ it2["SYNC_INTERVAL"].interval > 0
        /\ it2["ANNOUNCE_INTERVAL"].interval > 0
    <3>1. /\ it2 \in [Timers -> Timer]
          /\ \A u \in Timers : u # "ANNOUNCE_INTERVAL" => it2[u] = it1[u]
          /\ it2["ANNOUNCE_INTERVAL"].interval > 0
      BY <2>1, <1>p, <1>t, StartType
    <3> HIDE DEF it2
    <3> QED BY <3>1, <2>1, <1>t
  <2> HIDE DEF it2
  <2>3. /\ it3 \in [Timers -> Timer]
        /\ it3["SYNC_INTERVAL"].interval > 0
        /\ it3["ANNOUNCE_INTERVAL"].interval > 0
    <3>1. /\ it3 \in [Timers -> Timer]
          /\ \A u \in Timers : u # "PDELAYREQ_INTERVAL" => it3[u] = it2[u]
      BY <2>2, <1>p, <1>t, StartType
    <3> HIDE DEF it3
    <3> QED BY <3>1, <2>2, <1>t
  <2>4. EnterTimers(it, to) = it3
    BY <1>2, Zenon DEF EnterTimers, it1, it2, it3
  <2> HIDE DEF it3
  <2> QED BY <1>2, <2>3, <2>4
<1>3. CASE to = "PASSIVE"
  <2> DEFINE it1 == timerStart(it, "PDELAYREQ_INTERVAL", PdelayReqTicks)
             it2 == timerStart(it1, "ANNOUNCE_RECEIPT", AnnounceReceiptTicks)
  <2>1. it1 \in [Timers -> Timer]
    BY <1>p, <1>t, StartType
  <2> HIDE DEF it1
  <2>2. it2 \in [Timers -> Timer] /\ it2["ANNOUNCE_RECEIPT"].interval > 0
    BY <2>1, <1>p, <1>t, StartType
  <2> HIDE DEF it2
  <2>3. EnterTimers(it, to) = it2
    BY <1>3 DEF EnterTimers, it1, it2
  <2> QED BY <1>3, <2>2, <2>3
<1>4. CASE to = "SLAVE"
  <2>1. EnterTimers(it, to) = timerStart(it, "ANNOUNCE_RECEIPT", AnnounceReceiptTicks)
    BY <1>4 DEF EnterTimers
  <2> QED BY <1>4, <2>1, <1>p, <1>t, StartType
<1>5. CASE to \in {"INITIALIZING", "FAULTY"}
  <2>1. EnterTimers(it, to) = it
    BY <1>5 DEF EnterTimers
  <2> QED BY <1>5, <2>1
<1> QED BY <1>1, <1>2, <1>3, <1>4, <1>5

\* toState, on the timers, from whatever state.
LEMMA ToStateTimersOK ==
    ASSUME NEW it \in [Timers -> Timer], NEW from, NEW to \in PortStates
    PROVE  TimersOK(to, ToStateTimers(it, from, to))
BY LeaveType, EnterType DEF ToStateTimers

\* Asking a timer stops none.
LEMMA AfterExpiredOK ==
    ASSUME NEW state, TimersOK(state, itimer), elapsed \in Nat, NEW t \in Timers
    PROVE  TimersOK(state, AfterExpired(t))
<1>1. \A u \in Timers : /\ Advance(itimer[u], elapsed) \in Timer
                        /\ Advance(itimer[u], elapsed).interval = itimer[u].interval
  BY DEF Advance, Timer, TimersOK
<1>2. timerUpdate(itimer, elapsed) = [u \in Timers |-> Advance(itimer[u], elapsed)]
  BY DEF timerUpdate, TimersOK
<1>3. AfterExpired(t) \in [Timers -> Timer]
  BY <1>1, <1>2 DEF AfterExpired, Acknowledge, Timer
<1>4. \A u \in Timers : AfterExpired(t)[u].interval = itimer[u].interval
  BY <1>1, <1>2 DEF AfterExpired, Acknowledge, Timer
<1>5. Needed(state) \subseteq Timers
  BY DEF Needed, Timers
<1> QED BY <1>3, <1>4, <1>5 DEF TimersOK

-----------------------------------------------------------------------------
(* The data sets *)

LEMMA ModType ==
    ASSUME NEW x \in Nat
    PROVE  \A n \in Nat \ {0} : x % n \in 0..(n - 1) /\ x % n \in Nat
OBVIOUS

LEMMA ZeroTypes ==
    /\ SelfPort \in PortIdentity
    /\ ZeroPort \in PortIdentity
    /\ [clock |-> Self, port |-> 0] \in PortIdentity
    /\ NoStamp \in Stamp
    /\ ZeroRecord \in ForeignRecord
    /\ 0 \in SequenceIds
<1>1. 0 \in Nat /\ 1 \in Nat /\ -1 \in {-1}
  OBVIOUS
<1>2. /\ SelfPort \in PortIdentity
      /\ ZeroPort \in PortIdentity
      /\ [clock |-> Self, port |-> 0] \in PortIdentity
  BY <1>1, BmcAssumption DEF SelfPort, ZeroPort, PortIdentity, Clocks
<1>3. NoStamp \in Stamp
  BY <1>1, <1>2 DEF NoStamp, Stamp
<1>4. ZeroRecord \in ForeignRecord
  <2>1. [i \in 1..5 |-> 0] \in Quality
    BY DEF Quality
  <2> QED BY <2>1, <1>2 DEF ZeroRecord, ForeignRecord, DataSet, Clocks
<1>5. 0 \in SequenceIds
  BY ProtocolAssumption DEF SequenceIds
<1> QED BY <1>2, <1>3, <1>4, <1>5

\* toState keeps the data sets: only its entry flags change.
LEMMA ToStateOK ==
    ASSUME NEW c \in PtpClock, NEW to \in PortStates, to = "MASTER" => OwnDataset(c)
    PROVE  /\ ClockOK(toState(c, to))
           /\ toState(c, to).portState = to
           /\ toState(c, to).PdelayReqHeader = c.PdelayReqHeader
<1>1. InitialDelayReqTicks \in Nat \ {0}
  BY ProtocolAssumption, IntMaxAssumption
<1>2. /\ toState(c, to) \in PtpClock
      /\ toState(c, to).portState = to
      /\ toState(c, to).PdelayReqHeader = c.PdelayReqHeader
  <2>1. CASE to = "LISTENING"
    <3> DEFINE sent == c.master_has_sent_announce /\ c.portState = "LISTENING"
               d == [c EXCEPT !.portState = to, !.message_activity = TRUE,
                       !.delayReqTicks = InitialDelayReqTicks, !.master_has_sent_announce = sent]
    <3>1. toState(c, to) = d
      BY <2>1, Zenon DEF toState
    <3>2. sent \in BOOLEAN
      OBVIOUS
    <3> HIDE DEF sent
    <3>3. d \in PtpClock
      BY <1>1, <3>2 DEF PtpClock
    <3>4. d.portState = to /\ d.PdelayReqHeader = c.PdelayReqHeader
      BY DEF PtpClock
    <3> HIDE DEF d
    <3> QED BY <3>1, <3>3, <3>4
  <2>2. CASE to = "SLAVE"
    <3> DEFINE d == [c EXCEPT !.portState = to, !.message_activity = TRUE,
                       !.waitingForFollow = FALSE, !.waitingForDelayResp = FALSE,
                       !.delay_req_send_time = NoStamp, !.pdelay_req_send_time = NoStamp,
                       !.pdelay_resp_receive_time = NoStamp, !.pdelay_resp_send_time = NoStamp,
                       !.waiting_for_first_sync = TRUE]
    <3>1. toState(c, to) = d
      BY <2>2 DEF toState
    <3>2. NoStamp \in Stamp
      BY ZeroTypes
    <3>3. d \in PtpClock
      BY <3>2 DEF PtpClock
    <3>4. d.portState = to /\ d.PdelayReqHeader = c.PdelayReqHeader
      BY DEF PtpClock
    <3> HIDE DEF d
    <3> QED BY <3>1, <3>3, <3>4
  <2>3. CASE to \notin {"LISTENING", "SLAVE"}
    <3> DEFINE d == [c EXCEPT !.portState = to, !.message_activity = TRUE]
    <3>1. toState(c, to) = d
      BY <2>3 DEF toState
    <3>2. d \in PtpClock
      BY DEF PtpClock
    <3>3. d.portState = to /\ d.PdelayReqHeader = c.PdelayReqHeader
      BY DEF PtpClock
    <3> HIDE DEF d
    <3> QED BY <3>1, <3>2, <3>3
  <2> QED BY <2>1, <2>2, <2>3
<1>3. /\ toState(c, to).parentPortIdentity = c.parentPortIdentity
      /\ toState(c, to).grandmaster = c.grandmaster
      /\ toState(c, to).stepsRemoved = c.stepsRemoved
  BY DEF toState, PtpClock
<1> QED BY <1>2, <1>3 DEF ClockOK, OwnDataset

LEMMA M1OK ==
    ASSUME NEW c \in PtpClock
    PROVE  /\ m1(c) \in PtpClock
           /\ OwnDataset(m1(c))
           /\ m1(c).portState = c.portState
           /\ m1(c).PdelayReqHeader = c.PdelayReqHeader
<1>1. [quality |-> OwnQuality, gm |-> Self] \in [quality : Quality, gm : Clocks]
  BY BmcAssumption DEF Clocks
<1> QED BY <1>1, ZeroTypes DEF m1, OwnDataset, PtpClock

LEMMA S1OK ==
    ASSUME NEW c \in PtpClock, NEW src \in PortIdentity, NEW ds \in DataSet
    PROVE  /\ s1(c, src, ds) \in PtpClock
           /\ s1(c, src, ds).portState = c.portState
           /\ s1(c, src, ds).PdelayReqHeader = c.PdelayReqHeader
           /\ s1(c, src, ds).foreign = c.foreign
<1> DEFINE g == [quality |-> ds.quality, gm |-> ds.gm]
           n == (ds.stepsRemoved + 1) % 65536
<1>1. g \in [quality : Quality, gm : Clocks]
  BY DEF DataSet
<1>2. n \in Nat
  <2>1. ds.stepsRemoved + 1 \in Nat
    BY DEF DataSet
  <2> QED BY <2>1
<1> DEFINE d == [c EXCEPT !.parentPortIdentity = src, !.grandmaster = g, !.stepsRemoved = n]
<1>3. s1(c, src, ds) = d
  BY DEF s1
<1> HIDE DEF g, n
<1>4. d \in PtpClock
  BY <1>1, <1>2 DEF PtpClock
<1>5. d.portState = c.portState /\ d.PdelayReqHeader = c.PdelayReqHeader /\ d.foreign = c.foreign
  BY DEF PtpClock
<1> HIDE DEF d
<1> QED BY <1>3, <1>4, <1>5

\* Whatever state the decision recommends, a recommended master has been made
\* its own grandmaster.
LEMMA BmcExecOK ==
    ASSUME NEW c \in PtpClock
    PROVE  /\ bmcExec(c).state \in PortStates
           /\ bmcExec(c).clk \in PtpClock
           /\ bmcExec(c).state = "MASTER" => OwnDataset(bmcExec(c).clk)
           /\ bmcExec(c).clk.portState = c.portState
           /\ bmcExec(c).clk.PdelayReqHeader = c.PdelayReqHeader
<1> DEFINE b   == Best(c.foreign, c.number_foreign_records, c.parentPortIdentity.clock)
           r   == c.foreign[b]
           cb  == [c EXCEPT !.foreign_record_best = b]
           cmp == bmcDataSetComparison(D0, r, c.parentPortIdentity.clock)
<1>1. b \in 0..(MaxForeign - 1)
  <2>1. c.number_foreign_records \in Nat
    BY BmcAssumption DEF PtpClock
  <2> QED BY <2>1, BestInUse
<1> HIDE DEF b
<1>2. r \in ForeignRecord
  BY <1>1 DEF PtpClock
<1> HIDE DEF r
<1>3. /\ cb \in PtpClock
      /\ cb.portState = c.portState
      /\ cb.PdelayReqHeader = c.PdelayReqHeader
  BY <1>1 DEF PtpClock
<1> HIDE DEF cb, cmp
<1>4. /\ s1(cb, r.src, r.ds) \in PtpClock
      /\ s1(cb, r.src, r.ds).portState = c.portState
      /\ s1(cb, r.src, r.ds).PdelayReqHeader = c.PdelayReqHeader
  BY <1>2, <1>3, S1OK DEF ForeignRecord
<1>5. \/ bmcExec(c) = [state |-> "MASTER", clk |-> m1(c)]
      \/ bmcExec(c) = [state |-> "MASTER", clk |-> m1(cb)]
      \/ bmcExec(c) = [state |-> "LISTENING", clk |-> cb]
      \/ bmcExec(c) = [state |-> "FAULTY", clk |-> cb]
      \/ bmcExec(c) = [state |-> "SLAVE", clk |-> s1(cb, r.src, r.ds)]
      \/ bmcExec(c) = [state |-> "PASSIVE", clk |-> s1(cb, r.src, r.ds)]
  BY Zenon DEF bmcExec, b, r, cb, cmp
<1>6. /\ m1(c) \in PtpClock /\ OwnDataset(m1(c))
      /\ m1(c).portState = c.portState /\ m1(c).PdelayReqHeader = c.PdelayReqHeader
      /\ m1(cb) \in PtpClock /\ OwnDataset(m1(cb))
      /\ m1(cb).portState = c.portState /\ m1(cb).PdelayReqHeader = c.PdelayReqHeader
  BY <1>3, M1OK
<1> QED BY <1>3, <1>4, <1>5, <1>6 DEF PortStates

-----------------------------------------------------------------------------
(* The foreign master table *)

LEMMA FirstMatchInTable ==
    ASSUME NEW c \in PtpClock, NEW id, Matches(c, id) # {}
    PROVE  FirstMatch(c, id) \in 0..(MaxForeign - 1)
<1> DEFINE n == c.number_foreign_records
           M == Matches(c, id)
           i == CHOOSE j \in M : \A k \in M : j <= k
<1>1. n \in 0..MaxForeign /\ MaxForeign \in Nat \ {0}
  BY BmcAssumption DEF PtpClock
<1>2. M \in SUBSET Nat /\ M \subseteq 0..(n - 1)
  BY <1>1 DEF Matches
<1>3. i \in M
  <2>1. \E j \in M : \A k \in M : j <= k
    BY <1>2, LeastNat
  <2> QED BY <2>1
<1>4. FirstMatch(c, id) = Slot(c, i)
  BY DEF FirstMatch
<1> HIDE DEF i, M
<1>5. i \in Nat /\ n \in Nat \ {0} /\ n <= MaxForeign
  BY <1>1, <1>2, <1>3
<1>6. c.foreign_record_best \in 0..(MaxForeign - 1)
  BY DEF PtpClock
<1>7. c.foreign_record_best + i \in Nat
  BY <1>1, <1>5, <1>6
<1> HIDE DEF n
<1>8. (c.foreign_record_best + i) % n \in 0..(n - 1)
  BY <1>5, <1>7, ModType, Zenon
<1>9. (c.foreign_record_best + i) % n \in 0..(MaxForeign - 1)
  BY <1>1, <1>5, <1>8
<1> QED BY <1>4, <1>6, <1>9 DEF Slot, n

\* The cursors stay in the table.
LEMMA AddForeignOK ==
    ASSUME NEW c \in PtpClock, NEW f \in Frame
    PROVE  /\ addForeign(c, f) \in PtpClock
           /\ addForeign(c, f).portState = c.portState
           /\ addForeign(c, f).PdelayReqHeader = c.PdelayReqHeader
           /\ OwnDataset(c) => OwnDataset(addForeign(c, f))
<1>1. f.src \in PortIdentity /\ f.ds \in DataSet
  BY DEF Frame
<1>2. CASE Matches(c, f.src) # {}
  <2> DEFINE m == FirstMatch(c, f.src)
             r == [id |-> c.foreign[m].id, src |-> f.src, ds |-> f.ds]
  <2>1. m \in 0..(MaxForeign - 1)
    BY <1>2, FirstMatchInTable
  <2> HIDE DEF m
  <2>2. r \in ForeignRecord
    BY <1>1, <2>1 DEF ForeignRecord, PtpClock
  <2>3. [c.foreign EXCEPT ![m] = r] \in [0..(MaxForeign - 1) -> ForeignRecord]
    BY <2>1, <2>2 DEF PtpClock
  <2> DEFINE tab == [c.foreign EXCEPT ![m] = r]
             d == [c EXCEPT !.foreign = tab]
  <2>4. addForeign(c, f) = d
    BY <1>2 DEF addForeign, m
  <2> HIDE DEF r, tab
  <2>5. d \in PtpClock
    BY <2>3 DEF PtpClock, tab
  <2>6. /\ d.portState = c.portState /\ d.PdelayReqHeader = c.PdelayReqHeader
        /\ OwnDataset(c) => OwnDataset(d)
    BY DEF PtpClock, OwnDataset
  <2> HIDE DEF d
  <2> QED BY <2>4, <2>5, <2>6
<1>3. CASE Matches(c, f.src) = {}
  <2> DEFINE n == IF c.number_foreign_records < MaxForeign THEN c.number_foreign_records + 1
                  ELSE c.number_foreign_records
             tab == [c.foreign EXCEPT ![c.foreign_record_i] =
                       [id |-> f.src, src |-> f.src, ds |-> f.ds]]
             i == (c.foreign_record_i + 1) % MaxForeign
  <2>1. /\ MaxForeign \in Nat \ {0}
        /\ c.number_foreign_records \in 0..MaxForeign
        /\ c.foreign_record_i \in 0..(MaxForeign - 1)
        /\ c.foreign \in [0..(MaxForeign - 1) -> ForeignRecord]
    BY BmcAssumption DEF PtpClock
  <2>2. n \in 0..MaxForeign
    BY <2>1
  <2>3. i \in 0..(MaxForeign - 1)
    <3>1. c.foreign_record_i + 1 \in Nat
      BY <2>1
    <3> QED BY <2>1, <3>1, ModType, Zenon
  <2>4. tab \in [0..(MaxForeign - 1) -> ForeignRecord]
    BY <1>1, <2>1 DEF ForeignRecord
  <2> DEFINE d == [c EXCEPT !.number_foreign_records = n, !.foreign = tab,
                            !.foreign_record_i = i]
  <2>5. addForeign(c, f) = d
    BY <1>3 DEF addForeign
  <2> HIDE DEF n, tab, i
  <2>6. d \in PtpClock
    BY <2>2, <2>3, <2>4 DEF PtpClock
  <2>7. /\ d.portState = c.portState /\ d.PdelayReqHeader = c.PdelayReqHeader
        /\ OwnDataset(c) => OwnDataset(d)
    BY DEF PtpClock, OwnDataset
  <2> HIDE DEF d
  <2> QED BY <2>5, <2>6, <2>7
<1> QED BY <1>2, <1>3

LEMMA RecordAnnounceOK ==
    ASSUME NEW c \in PtpClock, NEW f \in Frame, ClockOK(c)
    PROVE  /\ ClockOK([RecordAnnounce(c, f) EXCEPT !.record_update = TRUE])
           /\ [RecordAnnounce(c, f) EXCEPT !.record_update = TRUE].portState = c.portState
<1> DEFINE d == RecordAnnounce(c, f)
<1>1. f.src \in PortIdentity /\ f.ds \in DataSet
  BY DEF Frame
<1>2. /\ d \in PtpClock
      /\ d.portState = c.portState
      /\ d.portState = "MASTER" => OwnDataset(d)
  <2>1. CASE c.portState = "SLAVE" /\ IsFromCurrentParent(c, f)
    <3> DEFINE e == s1(c, f.src, f.ds)
               b == c.foreign_record_best
               r == [id |-> e.foreign[b].id, src |-> f.src, ds |-> f.ds]
    <3>1. e \in PtpClock /\ e.portState = c.portState
      BY <1>1, S1OK
    <3>2. d = [e EXCEPT !.foreign = [e.foreign EXCEPT ![b] = r]]
      BY <2>1 DEF RecordAnnounce
    <3> HIDE DEF e
    <3>3. b \in 0..(MaxForeign - 1)
      BY DEF PtpClock
    <3> HIDE DEF b
    <3>4. r \in ForeignRecord
      BY <1>1, <3>1, <3>3 DEF ForeignRecord, PtpClock
    <3>5. [e.foreign EXCEPT ![b] = r] \in [0..(MaxForeign - 1) -> ForeignRecord]
      BY <3>1, <3>3, <3>4 DEF PtpClock
    <3> HIDE DEF r, d
    <3> QED BY <2>1, <3>1, <3>2, <3>5, ZenonT(30) DEF PtpClock
  <2>2. CASE c.portState = "PASSIVE" /\ IsFromCurrentParent(c, f)
    <3>1. d = s1(c, f.src, f.ds)
      BY <2>2 DEF RecordAnnounce
    <3> QED BY <1>1, <2>2, <3>1, S1OK
  <2>3. CASE ~(c.portState \in {"SLAVE", "PASSIVE"} /\ IsFromCurrentParent(c, f))
    <3>1. d = addForeign(c, f)
      BY <2>3 DEF RecordAnnounce
    <3> QED BY <3>1, AddForeignOK DEF ClockOK
  <2> QED BY <2>1, <2>2, <2>3
<1> HIDE DEF d
<1>3. /\ [d EXCEPT !.record_update = TRUE] \in PtpClock
      /\ [d EXCEPT !.record_update = TRUE].portState = d.portState
      /\ OwnDataset(d) => OwnDataset([d EXCEPT !.record_update = TRUE])
  BY <1>2 DEF PtpClock, OwnDataset
<1> QED BY <1>2, <1>3 DEF ClockOK, d

-----------------------------------------------------------------------------
(* What a handler leaves behind *)

LEMMA OutOK ==
    ASSUME NEW c \in PtpClock, NEW type \in MessageTypes, NEW seq \in SequenceIds,
           NEW req \in PortIdentity
    PROVE  Out(c, type, seq, req) \in Frame
<1> DEFINE ds == [quality |-> c.grandmaster.quality, gm |-> c.grandmaster.gm,
                  stepsRemoved |-> c.stepsRemoved]
           two == TwoStep /\ type \in {"SYNC", "PDELAY_RESP"}
<1>1. ds \in DataSet
  BY DEF DataSet, PtpClock
<1>2. two \in BOOLEAN
  OBVIOUS
<1>3. c.delayReqTicks \in Nat \ {0}
  BY DEF PtpClock
<1> HIDE DEF ds, two
<1>4. Out(c, type, seq, req) =
        [type |-> type, form |-> "full", src |-> SelfPort, seq |-> seq, twoStep |-> two,
         req |-> req, ds |-> ds, interval |-> c.delayReqTicks]
  BY DEF Out, ds, two
<1> QED BY <1>1, <1>2, <1>3, <1>4, ZeroTypes DEF Frame

LEMMA NextIdOK == ASSUME NEW n \in SequenceIds PROVE NextId(n) \in SequenceIds
<1>1. SeqMod \in Nat \ {0}
  BY ProtocolAssumption
<1>2. n + 1 \in Nat
  BY <1>1 DEF SequenceIds
<1>3. (n + 1) % SeqMod \in 0..(SeqMod - 1)
  BY <1>1, <1>2, ModType, Zenon
<1> QED BY <1>3 DEF NextId, SequenceIds

\* A timer is started that need not run, or with a period of at least a tick.
LEMMA StartOK ==
    ASSUME NEW state, NEW it, TimersOK(state, it), NEW t \in Timers, NEW n \in Nat,
           t \notin Needed(state) \/ n \in 1..IntMax
    PROVE  TimersOK(state, timerStart(it, t, n))
<1>1. it \in [Timers -> Timer] /\ Needed(state) \subseteq Timers
  BY DEF TimersOK, Needed, Timers
<1>2. /\ timerStart(it, t, n) \in [Timers -> Timer]
      /\ \A u \in Timers : u # t => timerStart(it, t, n)[u] = it[u]
      /\ n \in 1..IntMax => timerStart(it, t, n)[t].interval > 0
  BY <1>1, StartType
<1> QED BY <1>1, <1>2 DEF TimersOK

LEMMA UpdateOK ==
    ASSUME NEW c, NEW it, ClockOK(c), TimersOK(c.portState, it), tx = NoFrame, Update(c, it)
    PROVE  PortOK'
<1>1. pc' \in {"watchdog", "end"}
  BY DEF Update, GoTo, AfterHandle
<1>2. ptpClock' = c /\ itimer' = it /\ tx' = NoFrame
  BY DEF Update
<1> QED BY <1>1, <1>2 DEF PortOK, Places, HeaderSaved, ClockOK, TimersOK

LEMMA IgnoreOK ==
    ASSUME NEW c, ClockOK(c), TimersOK(c.portState, itimer), tx = NoFrame, Ignore(c)
    PROVE  PortOK'
<1>1. Update(c, itimer)
  BY DEF Ignore, Update
<1> QED BY <1>1, UpdateOK

LEMMA ReplyOK ==
    ASSUME NEW c, NEW m \in Frame, NEW next \in Places,
           ClockOK(c), TimersOK(c.portState, itimer),
           next = "pdelayFollowUp" => c.PdelayReqHeader.seq \in SequenceIds,
           Reply(c, m, next)
    PROVE  PortOK'
<1>1. ptpClock' = c /\ itimer' = itimer /\ tx' = m /\ pc' = next
  BY DEF Reply, GoTo
<1> QED BY <1>1 DEF PortOK, HeaderSaved, ClockOK, TimersOK

-----------------------------------------------------------------------------
(* The handlers *)

LEMMA ToFaultyOK ==
    ASSUME NEW c, ClockOK(c), TimersOK(c.portState, itimer), tx = NoFrame, ToFaulty(c)
    PROVE  PortOK'
<1>1. "FAULTY" \in PortStates
  BY DEF PortStates
<1>2. ClockOK(toState(c, "FAULTY")) /\ toState(c, "FAULTY").portState = "FAULTY"
  BY <1>1, ToStateOK DEF ClockOK
<1>3. TimersOK("FAULTY", ToStateTimers(itimer, c.portState, "FAULTY"))
  BY <1>1, ToStateTimersOK DEF TimersOK
<1> QED BY <1>2, <1>3, UpdateOK DEF ToFaulty

LEMMA AnnounceOK ==
    ASSUME NEW c, NEW f \in Frame, ClockOK(c), TimersOK(c.portState, itimer), tx = NoFrame,
           handleAnnounce(c, f)
    PROVE  PortOK'
<1>1. CASE Ignore(c)
  BY <1>1, IgnoreOK
<1>2. CASE Update([RecordAnnounce(c, f) EXCEPT !.record_update = TRUE],
                  IF Heard(c, f) THEN RestartWatchdog(itimer) ELSE itimer)
  <2> DEFINE d == [RecordAnnounce(c, f) EXCEPT !.record_update = TRUE]
             it == IF Heard(c, f) THEN RestartWatchdog(itimer) ELSE itimer
  <2>1. ClockOK(d) /\ d.portState = c.portState
    BY RecordAnnounceOK DEF ClockOK
  <2>2. TimersOK(c.portState, RestartWatchdog(itimer))
    <3>1. /\ "ANNOUNCE_RECEIPT" \in Timers
          /\ AnnounceReceiptTicks \in Nat
          /\ AnnounceReceiptTicks \in 1..IntMax
      BY ProtocolAssumption, IntMaxAssumption DEF Timers
    <3> QED BY <3>1, StartOK DEF RestartWatchdog
  <2>3. TimersOK(d.portState, it)
    BY <2>1, <2>2
  <2> HIDE DEF d, it
  <2>4. Update(d, it)
    BY <1>2 DEF d, it
  <2> QED BY <2>1, <2>3, <2>4, UpdateOK
<1> QED BY <1>1, <1>2 DEF handleAnnounce

LEMMA SyncOK ==
    ASSUME NEW c, NEW f \in Frame, ClockOK(c), TimersOK(c.portState, itimer), tx = NoFrame,
           handleSync(c, f)
    PROVE  PortOK'
<1>1. CASE Ignore(c)
  BY <1>1, IgnoreOK
<1>2. CASE SyncAccepted(c, f)
  <2> DEFINE stamp == [src |-> f.src, seq |-> f.seq]
             id == IF f.twoStep THEN f.seq ELSE c.recvSyncSequenceId
             d == [c EXCEPT !.waiting_for_first_sync = FALSE, !.sync_receive_time = stamp,
                            !.waitingForFollow = f.twoStep, !.recvSyncSequenceId = id]
             it == ArmRequestTimer(c, itimer)
  <2>1. CASE ~SyncAccepted(c, f) /\ Ignore(c)
    BY <2>1, IgnoreOK
  <2>2. CASE Update(d, it)
    <3>1. stamp \in Stamp /\ id \in SequenceIds /\ f.twoStep \in BOOLEAN
      BY DEF Frame, Stamp, ClockOK, PtpClock
    <3> HIDE DEF stamp, id
    <3>2. d \in PtpClock /\ d.portState = "SLAVE"
      BY <1>2, <3>1, ZenonT(30) DEF ClockOK, PtpClock, SyncAccepted
    <3>3. TimersOK("SLAVE", it)
      <4> DEFINE n == IF DelayMechanism = "E2E" THEN c.delayReqTicks ELSE PdelayReqTicks
      <4>1. TimersOK("SLAVE", itimer)
        BY <1>2 DEF SyncAccepted
      <4>2. RequestTimer \in Timers /\ RequestTimer \notin Needed("SLAVE")
        BY DEF RequestTimer, Timers, Needed
      <4>3. n \in Nat
        BY ProtocolAssumption, IntMaxAssumption DEF ClockOK, PtpClock
      <4> HIDE DEF n
      <4>4. TimersOK("SLAVE", timerStart(itimer, RequestTimer, n))
        BY <4>1, <4>2, <4>3, StartOK
      <4> QED BY <4>1, <4>4 DEF ArmRequestTimer, n
    <3> HIDE DEF d, it
    <3> QED BY <2>2, <3>2, <3>3, UpdateOK DEF ClockOK
  <2> QED BY <2>1, <2>2, Zenon DEF handleSync
<1> QED BY <1>1, <1>2 DEF handleSync

LEMMA FollowUpOK ==
    ASSUME NEW c, NEW f \in Frame, ClockOK(c), TimersOK(c.portState, itimer), tx = NoFrame,
           handleFollowUp(c, f)
    PROVE  PortOK'
<1> DEFINE d == [c EXCEPT !.waitingForFollow = FALSE]
<1>1. ClockOK(d) /\ d.portState = c.portState
  BY DEF ClockOK, OwnDataset, PtpClock
<1> HIDE DEF d
<1> QED BY <1>1, IgnoreOK DEF handleFollowUp, d

LEMMA DelayReqOK ==
    ASSUME NEW c, NEW f \in Frame, ClockOK(c), TimersOK(c.portState, itimer), tx = NoFrame,
           handleDelayReq(c, f)
    PROVE  PortOK'
<1>1. CASE Ignore(c)
  BY <1>1, IgnoreOK
<1>2. CASE Reply(c, Out(c, "DELAY_RESP", f.seq, f.src), AfterHandle)
  <2>1. Out(c, "DELAY_RESP", f.seq, f.src) \in Frame
    BY OutOK DEF ClockOK, Frame, MessageTypes
  <2>2. AfterHandle \in Places /\ AfterHandle # "pdelayFollowUp"
    BY DEF AfterHandle, Places
  <2> QED BY <1>2, <2>1, <2>2, ReplyOK
<1> QED BY <1>1, <1>2 DEF handleDelayReq

LEMMA DelayRespOK ==
    ASSUME NEW c, NEW f \in Frame, ClockOK(c), TimersOK(c.portState, itimer), tx = NoFrame,
           handleDelayResp(c, f)
    PROVE  PortOK'
<1> DEFINE d == [c EXCEPT !.waitingForDelayResp = FALSE, !.delayReqTicks = f.interval]
<1>1. ClockOK(d) /\ d.portState = c.portState
  <2>1. f.interval \in Nat \ {0}
    BY DEF Frame
  <2>2. d \in PtpClock
    BY <2>1 DEF PtpClock, ClockOK
  <2>3. d.portState = c.portState /\ (OwnDataset(c) => OwnDataset(d))
    BY DEF ClockOK, OwnDataset, PtpClock
  <2> HIDE DEF d
  <2> QED BY <2>2, <2>3 DEF ClockOK
<1> HIDE DEF d
<1> QED BY <1>1, IgnoreOK DEF handleDelayResp, d

LEMMA PDelayReqOK ==
    ASSUME NEW c, NEW f \in Frame, ClockOK(c), TimersOK(c.portState, itimer), tx = NoFrame,
           handlePDelayReq(c, f)
    PROVE  PortOK'
<1> DEFINE stamp == [src |-> f.src, seq |-> f.seq]
           d == [c EXCEPT !.PdelayReqHeader = stamp]
           m == Out(c, "PDELAY_RESP", f.seq, f.src)
           next == IF TwoStep THEN "pdelayFollowUp" ELSE AfterHandle
<1>1. CASE Ignore(c)
  BY <1>1, IgnoreOK
<1>2. CASE Reply(d, m, next)
  <2>1. stamp \in Stamp /\ stamp.seq \in SequenceIds
    BY DEF Stamp, Frame
  <2> HIDE DEF stamp
  <2>2. ClockOK(d) /\ d.portState = c.portState /\ d.PdelayReqHeader = stamp
    BY <2>1 DEF ClockOK, OwnDataset, PtpClock
  <2>3. m \in Frame
    BY OutOK DEF ClockOK, Frame, MessageTypes
  <2>4. next \in Places
    BY DEF AfterHandle, Places
  <2> HIDE DEF d, m, next
  <2> QED BY <1>2, <2>1, <2>2, <2>3, <2>4, ReplyOK
<1> QED BY <1>1, <1>2, Zenon DEF handlePDelayReq

LEMMA PDelayRespOK ==
    ASSUME NEW c, NEW f \in Frame, ClockOK(c), TimersOK(c.portState, itimer), tx = NoFrame,
           handlePDelayResp(c, f)
    PROVE  PortOK'
<1> DEFINE stamp == [src |-> f.src, seq |-> f.seq]
           d == [c EXCEPT !.pdelay_resp_receive_time = stamp, !.recvPDelayRespSequenceId = f.seq]
<1>1. stamp \in Stamp /\ f.seq \in SequenceIds
  BY DEF Stamp, Frame
<1> HIDE DEF stamp
<1>2. ClockOK(d) /\ d.portState = c.portState
  BY <1>1 DEF ClockOK, OwnDataset, PtpClock
<1> HIDE DEF d
<1> QED BY <1>2, IgnoreOK DEF handlePDelayResp, d, stamp

LEMMA PDelayRespFollowUpOK ==
    ASSUME NEW c, NEW f \in Frame, ClockOK(c), TimersOK(c.portState, itimer), tx = NoFrame,
           handlePDelayRespFollowUp(c, f)
    PROVE  PortOK'
<1> DEFINE stamp == [src |-> f.src, seq |-> f.seq]
           d == [c EXCEPT !.pdelay_resp_send_time = stamp]
<1>1. stamp \in Stamp
  BY DEF Stamp, Frame
<1> HIDE DEF stamp
<1>2. ClockOK(d) /\ d.portState = c.portState
  BY <1>1 DEF ClockOK, OwnDataset, PtpClock
<1> HIDE DEF d
<1> QED BY <1>2, IgnoreOK DEF handlePDelayRespFollowUp, d, stamp

LEMMA DispatchOK ==
    ASSUME NEW c, NEW f \in Frame, ClockOK(c), TimersOK(c.portState, itimer), tx = NoFrame,
           Dispatch(c, f)
    PROVE  PortOK'
BY IgnoreOK, ToFaultyOK, AnnounceOK, SyncOK, FollowUpOK, DelayReqOK, DelayRespOK, PDelayReqOK,
   PDelayRespOK, PDelayRespFollowUpOK DEF Dispatch

-----------------------------------------------------------------------------
(* The actions *)

LEMMA InitOK == Init => IInv
<1> SUFFICES ASSUME Init PROVE IInv
  OBVIOUS
<1>1. InitialClock \in PtpClock /\ InitialClock.portState = "INITIALIZING"
  <2>1. [i \in 0..(MaxForeign - 1) |-> ZeroRecord] \in [0..(MaxForeign - 1) -> ForeignRecord]
    BY ZeroTypes
  <2>2. [quality |-> [i \in 1..5 |-> 0], gm |-> 0] \in [quality : Quality, gm : Clocks]
    BY DEF Quality, Clocks
  <2>3. /\ 0 \in 0..MaxForeign /\ 0 \in 0..(MaxForeign - 1)
        /\ InitialDelayReqTicks \in Nat \ {0}
    BY BmcAssumption, ProtocolAssumption, IntMaxAssumption
  <2> QED BY <2>1, <2>2, <2>3, ZeroTypes DEF InitialClock, PtpClock, PortStates
<1>2. TimersOK("INITIALIZING", itimer)
  BY DEF Init, TimersOK, Needed, StoppedTimer, Timer
<1>3. InputOK
  BY ProtocolAssumption DEF Init, InputOK
<1> HIDE DEF InitialClock
<1>4. PortOK
  BY <1>1, <1>2 DEF Init, PortOK, ClockOK, Places, HeaderSaved
<1> QED BY <1>3, <1>4 DEF IInv

\* What a step of the thread finds, and what it leaves of its inputs.
LEMMA PortFacts ==
    ASSUME IInv
    PROVE  /\ ptpClock \in PtpClock /\ ClockOK(ptpClock)
           /\ TimersOK(ptpClock.portState, itimer)
           /\ itimer \in [Timers -> Timer]
           /\ elapsed \in Nat
           /\ 0 \in 0..MaxElapsed
BY ProtocolAssumption DEF IInv, PortOK, InputOK, ClockOK, TimersOK

LEMMA InputKept ==
    ASSUME IInv, rx' = rx, branch' \in {"slave", "master"}, elapsed' \in {0, elapsed}
    PROVE  InputOK'
BY PortFacts DEF IInv, InputOK

\* A step that goes elsewhere than to "pdelayFollowUp".
LEMMA PortKept ==
    ASSUME NEW place \in Places \ {"pdelayFollowUp"}, pc' = place,
           ClockOK(ptpClock'), TimersOK(ptpClock'.portState, itimer'), tx' \in Frame \cup {NoFrame}
    PROVE  PortOK'
BY DEF PortOK, HeaderSaved, ClockOK, TimersOK

LEMMA doInitOK == IInv /\ doInit => IInv'
<1> SUFFICES ASSUME IInv, doInit PROVE IInv'
  OBVIOUS
<1> DEFINE c == [ptpClock EXCEPT !.number_foreign_records = 0,
                                 !.delayReqTicks = InitialDelayReqTicks]
<1>1. c \in PtpClock
  <2>1. 0 \in 0..MaxForeign /\ InitialDelayReqTicks \in Nat \ {0}
    BY BmcAssumption, ProtocolAssumption, IntMaxAssumption
  <2> QED BY <2>1, PortFacts DEF PtpClock
<1> HIDE DEF c
<1>2. ptpClock' = toState(m1(c), "LISTENING") /\ "LISTENING" \in PortStates
  BY DEF doInit, c, PortStates
<1>3. ClockOK(ptpClock') /\ ptpClock'.portState = "LISTENING"
  BY <1>1, <1>2, M1OK, ToStateOK
<1>4. TimersOK("LISTENING", itimer')
  BY <1>2, PortFacts, ToStateTimersOK DEF doInit
<1>5. pc' = "top" /\ "top" \in Places \ {"pdelayFollowUp"} /\ tx' = NoFrame
  BY DEF doInit, At, Places
<1>6. PortOK'
  BY <1>3, <1>4, <1>5, PortKept
<1>7. InputOK'
  BY InputKept DEF doInit, IInv, InputOK
<1> QED BY <1>6, <1>7 DEF IInv

LEMMA StateDecisionOK == IInv /\ StateDecision => IInv'
<1> SUFFICES ASSUME IInv, StateDecision PROVE IInv'
  OBVIOUS
<1> DEFINE c == [ptpClock EXCEPT !.message_activity = FALSE]
           e == [c EXCEPT !.record_update = FALSE]
           d == bmcExec(e)
<1>1. /\ ClockOK(c) /\ c.portState = ptpClock.portState
      /\ e \in PtpClock /\ e.portState = c.portState
  BY PortFacts, ZenonT(30) DEF ClockOK, OwnDataset, PtpClock
<1> HIDE DEF c, e
<1>2. /\ d.state \in PortStates
      /\ d.clk \in PtpClock
      /\ d.state = "MASTER" => OwnDataset(d.clk)
      /\ d.clk.portState = c.portState
  BY <1>1, BmcExecOK
<1> HIDE DEF d
<1>3. \/ ptpClock' = c /\ itimer' = itimer
      \/ d.state = c.portState /\ ptpClock' = d.clk /\ itimer' = itimer
      \/ ptpClock' = toState(d.clk, d.state) /\ itimer' = ToStateTimers(itimer, c.portState, d.state)
  BY Zenon DEF StateDecision, c, d, e
<1>4. ClockOK(ptpClock') /\ TimersOK(ptpClock'.portState, itimer')
  <2>1. CASE ptpClock' = c /\ itimer' = itimer
    BY <1>1, <2>1, PortFacts
  <2>2. CASE d.state = c.portState /\ ptpClock' = d.clk /\ itimer' = itimer
    BY <1>1, <1>2, <2>2, PortFacts DEF ClockOK
  <2>3. CASE /\ ptpClock' = toState(d.clk, d.state)
             /\ itimer' = ToStateTimers(itimer, c.portState, d.state)
    BY <1>2, <2>3, PortFacts, ToStateOK, ToStateTimersOK
  <2> QED BY <1>3, <2>1, <2>2, <2>3
<1>5. pc' = "switch" /\ "switch" \in Places \ {"pdelayFollowUp"} /\ tx' = NoFrame
  BY DEF StateDecision, At, GoTo, Places
<1>6. PortOK'
  BY <1>4, <1>5, PortKept
<1>7. InputOK'
  BY InputKept DEF StateDecision, IInv, InputOK
<1> QED BY <1>6, <1>7 DEF IInv

LEMMA FaultClearedOK == IInv /\ FaultCleared => IInv'
<1> SUFFICES ASSUME IInv, FaultCleared PROVE IInv'
  OBVIOUS
<1>1. "INITIALIZING" \in PortStates
  BY DEF PortStates
<1>2. ClockOK(ptpClock') /\ ptpClock'.portState = "INITIALIZING"
  BY <1>1, PortFacts, ToStateOK DEF FaultCleared
<1>3. TimersOK("INITIALIZING", itimer')
  BY <1>1, PortFacts, ToStateTimersOK DEF FaultCleared
<1>4. pc' = "top" /\ "top" \in Places \ {"pdelayFollowUp"} /\ tx' = NoFrame
  BY DEF FaultCleared, At, GoTo, Places
<1>5. PortOK'
  BY <1>2, <1>3, <1>4, PortKept
<1>6. InputOK'
  BY InputKept DEF FaultCleared, IInv, InputOK
<1> QED BY <1>5, <1>6 DEF IInv

\* The steps that only move the thread.
LEMMA MovesOK == IInv /\ (SlaveBranch \/ MasterBranch \/ netSelect \/ netRecv) => IInv'
<1> SUFFICES ASSUME IInv, SlaveBranch \/ MasterBranch \/ netSelect \/ netRecv PROVE IInv'
  OBVIOUS
<1>1. /\ ptpClock' = ptpClock /\ itimer' = itimer /\ tx' = NoFrame
      /\ elapsed' = elapsed /\ branch' \in {"slave", "master"}
      /\ pc' \in Places \ {"pdelayFollowUp"}
  BY DEF SlaveBranch, MasterBranch, netSelect, netRecv, At, GoTo, AfterHandle, Places, IInv, InputOK
<1>2. PortOK'
  BY <1>1, PortFacts, PortKept
<1>3. rx' \in [frame : Frames \cup {NoFrame}, ready : BOOLEAN]
  BY DEF SlaveBranch, MasterBranch, netSelect, netRecv, IInv, InputOK
<1> QED BY <1>1, <1>2, <1>3 DEF IInv, InputOK

LEMMA handleOK == IInv /\ handle => IInv'
<1> SUFFICES ASSUME IInv, handle PROVE IInv'
  OBVIOUS
<1> DEFINE c == [ptpClock EXCEPT !.message_activity = TRUE]
<1>1. ClockOK(c) /\ TimersOK(c.portState, itimer)
  BY PortFacts DEF ClockOK, OwnDataset, PtpClock
<1> HIDE DEF c
<1>2. tx = NoFrame
  BY DEF handle, At
<1>3. rx.frame # NoFrame => rx.frame \in Frame
  BY ProtocolAssumption DEF IInv, InputOK
<1>4. CASE rx.frame = NoFrame
  <2>1. Ignore(ptpClock)
    BY <1>4 DEF handle
  <2> QED BY <2>1, <1>2, PortFacts, IgnoreOK, InputKept DEF handle, IInv, InputOK
<1>5. CASE rx.frame # NoFrame
  <2>1. Dispatch(c, rx.frame)
    BY <1>5, Zenon DEF handle, c
  <2>2. PortOK'
    BY <1>1, <1>2, <1>3, <1>5, <2>1, DispatchOK
  <2> QED BY <2>2, InputKept DEF handle, IInv, InputOK
<1> QED BY <1>4, <1>5

LEMMA issuePDelayRespFollowUpOK == IInv /\ issuePDelayRespFollowUp => IInv'
<1> SUFFICES ASSUME IInv, issuePDelayRespFollowUp PROVE IInv'
  OBVIOUS
<1> DEFINE h == ptpClock.PdelayReqHeader
           m == Out(ptpClock, "PDELAY_RESP_FOLLOW_UP", h.seq, h.src)
<1>1. h.seq \in SequenceIds /\ h.src \in PortIdentity
  BY PortFacts DEF issuePDelayRespFollowUp, At, IInv, PortOK, HeaderSaved, PtpClock, Stamp
<1> HIDE DEF h
<1>2. m \in Frame
  BY <1>1, PortFacts, OutOK DEF MessageTypes
<1>3. tx' \in Frame \cup {NoFrame}
  BY <1>2 DEF issuePDelayRespFollowUp, h
<1>4. pc' \in Places \ {"pdelayFollowUp"} /\ ptpClock' = ptpClock /\ itimer' = itimer
  BY DEF issuePDelayRespFollowUp, GoTo, AfterHandle, Places
<1>5. PortOK'
  BY <1>3, <1>4, PortFacts, PortKept
<1>6. InputOK'
  BY InputKept DEF issuePDelayRespFollowUp, IInv, InputOK
<1> QED BY <1>5, <1>6 DEF IInv

LEMMA TimeoutOK == IInv /\ AnnounceReceiptTimeout => IInv'
<1> SUFFICES ASSUME IInv, AnnounceReceiptTimeout PROVE IInv'
  OBVIOUS
<1> DEFINE c  == [ptpClock EXCEPT !.number_foreign_records = 0, !.foreign_record_i = 0]
           d  == IF MayBeMaster THEN m1(c) ELSE c
           to == IF MayBeMaster THEN "MASTER" ELSE "LISTENING"
           it == AfterExpired("ANNOUNCE_RECEIPT")
<1>1. c \in PtpClock
  <2>1. 0 \in 0..MaxForeign /\ 0 \in 0..(MaxForeign - 1)
    BY BmcAssumption
  <2> QED BY <2>1, PortFacts DEF PtpClock
<1>2. TimersOK(ptpClock.portState, it) /\ it \in [Timers -> Timer]
  <2>1. TimersOK(ptpClock.portState, it)
    BY PortFacts, AfterExpiredOK DEF Timers
  <2> QED BY <2>1 DEF TimersOK
<1> HIDE DEF c, it
<1>3. d \in PtpClock /\ to \in PortStates /\ (to = "MASTER" => OwnDataset(d))
  BY <1>1, M1OK DEF PortStates
<1> HIDE DEF d, to
<1>4. \/ ptpClock' = toState(d, to) /\ itimer' = ToStateTimers(it, c.portState, to)
      \/ ptpClock' = ptpClock /\ itimer' = it
  BY Zenon DEF AnnounceReceiptTimeout, c, d, to, it
<1>5. ClockOK(ptpClock') /\ TimersOK(ptpClock'.portState, itimer')
  BY <1>2, <1>3, <1>4, PortFacts, ToStateOK, ToStateTimersOK
<1>6. pc' = "request" /\ "request" \in Places \ {"pdelayFollowUp"} /\ tx' = NoFrame
  BY DEF AnnounceReceiptTimeout, At, GoTo, Places
<1>7. PortOK'
  BY <1>5, <1>6, PortKept
<1>8. InputOK'
  BY InputKept DEF AnnounceReceiptTimeout, IInv, InputOK
<1> QED BY <1>7, <1>8 DEF IInv

\* Asking for the expiry of a timer, in a step that leaves the clock alone.
LEMMA AskedOK ==
    ASSUME IInv, NEW t \in Timers, itimer' = AfterExpired(t), elapsed' = 0,
           ptpClock' = ptpClock, rx' = rx, branch' = branch,
           tx' \in Frame \cup {NoFrame}, pc' \in Places \ {"pdelayFollowUp"}
    PROVE  IInv'
<1>1. TimersOK(ptpClock'.portState, itimer') /\ ClockOK(ptpClock')
  BY PortFacts, AfterExpiredOK
<1>2. PortOK'
  BY <1>1, PortKept
<1>3. InputOK'
  BY InputKept DEF IInv, InputOK
<1> QED BY <1>2, <1>3 DEF IInv

LEMMA RequestOK == IInv /\ (SlaveRequest \/ MasterRequest) => IInv'
<1> SUFFICES ASSUME IInv, NEW next \in {"top", "poll"}, tx = NoFrame, IssueRequest(next)
             PROVE  IInv'
  BY DEF SlaveRequest, MasterRequest, At
<1>1. /\ Out(ptpClock, "DELAY_REQ", ptpClock.sentDelayReqSequenceId, ZeroPort) \in Frame
      /\ Out(ptpClock, "PDELAY_REQ", ptpClock.sentPDelayReqSequenceId, ZeroPort) \in Frame
  <2>1. ptpClock.sentDelayReqSequenceId \in SequenceIds /\ ptpClock.sentPDelayReqSequenceId \in SequenceIds
    BY PortFacts DEF PtpClock
  <2>2. "DELAY_REQ" \in MessageTypes /\ "PDELAY_REQ" \in MessageTypes
    BY DEF MessageTypes
  <2> QED BY <2>1, <2>2, PortFacts, OutOK, ZeroTypes
<1>2. tx' \in Frame \cup {NoFrame} /\ pc' \in Places \ {"pdelayFollowUp"}
  BY <1>1 DEF IssueRequest, GoTo, Places
<1>3. RequestTimer \in Timers
  BY DEF RequestTimer, Timers
<1> QED BY <1>2, <1>3, AskedOK DEF IssueRequest

LEMMA issueSyncOK == IInv /\ issueSync => IInv'
<1> SUFFICES ASSUME IInv, issueSync PROVE IInv'
  OBVIOUS
<1>1. Out(ptpClock, "SYNC", ptpClock.sentSyncSequenceId, ZeroPort) \in Frame
  BY PortFacts, OutOK, ZeroTypes DEF MessageTypes, PtpClock
<1>2. tx' \in Frame \cup {NoFrame} /\ pc' \in Places \ {"pdelayFollowUp"}
  BY <1>1 DEF issueSync, At, GoTo, Places
<1>3. "SYNC_INTERVAL" \in Timers
  BY DEF Timers
<1> QED BY <1>2, <1>3, AskedOK DEF issueSync

LEMMA issueAnnounceOK == IInv /\ issueAnnounce => IInv'
<1> SUFFICES ASSUME IInv, issueAnnounce PROVE IInv'
  OBVIOUS
<1>1. Out(ptpClock, "ANNOUNCE", 0, ZeroPort) \in Frame
  BY PortFacts, OutOK, ZeroTypes DEF MessageTypes
<1>2. tx' \in Frame \cup {NoFrame} /\ pc' \in Places \ {"pdelayFollowUp"}
  BY <1>1 DEF issueAnnounce, GoTo, Places
<1>3. "ANNOUNCE_INTERVAL" \in Timers
  BY DEF Timers
<1> QED BY <1>2, <1>3, AskedOK DEF issueAnnounce

\* A step after a transmission, or the first Announce: the timers need not
\* change, and the data sets do not.
LEMMA SentOK ==
    ASSUME IInv, NEW c, ptpClock' = c, ClockOK(c), c.portState = ptpClock.portState,
           itimer' = itimer, elapsed' = elapsed, rx' = rx, branch' = branch,
           tx' \in Frame \cup {NoFrame}, pc' \in Places \ {"pdelayFollowUp"}
    PROVE  IInv'
<1>1. TimersOK(ptpClock'.portState, itimer') /\ ClockOK(ptpClock')
  BY PortFacts
<1>2. PortOK'
  BY <1>1, PortKept
<1>3. InputOK'
  BY InputKept DEF IInv, InputOK
<1> QED BY <1>2, <1>3 DEF IInv

LEMMA DelayReqSentOK == IInv /\ DelayReqSent => IInv'
<1> SUFFICES ASSUME IInv, DelayReqSent PROVE IInv'
  OBVIOUS
<1>1. ptpClock.sentDelayReqSequenceId \in SequenceIds /\ ptpClock.delayReqTicks \in Nat
  BY PortFacts DEF PtpClock
<1>2. ClockOK(ptpClock') /\ ptpClock'.portState = ptpClock.portState
  <2>1. PICK match \in TxTimestampMatches :
          ptpClock' =
           [ptpClock EXCEPT
              !.waitingForDelayResp = @ \/ match,
              !.delay_req_send_time =
                IF match THEN [src |-> SelfPort, seq |-> ptpClock.sentDelayReqSequenceId] ELSE @,
              !.sentDelayReqSequenceId = NextId(@)]
    BY DEF DelayReqSent
  <2> DEFINE w == ptpClock.waitingForDelayResp \/ match
             t == IF match THEN [src |-> SelfPort, seq |-> ptpClock.sentDelayReqSequenceId]
                  ELSE ptpClock.delay_req_send_time
             n == NextId(ptpClock.sentDelayReqSequenceId)
  <2>2. w \in BOOLEAN
    OBVIOUS
  <2>3. t \in Stamp /\ n \in SequenceIds
    BY <1>1, PortFacts, NextIdOK, ZeroTypes DEF Stamp, PtpClock
  <2> DEFINE d == [ptpClock EXCEPT !.waitingForDelayResp = w, !.delay_req_send_time = t,
                                   !.sentDelayReqSequenceId = n]
  <2>4. ptpClock' = d
    BY <2>1, Zenon
  <2> HIDE DEF w, t, n
  <2>5. d \in PtpClock
    BY <2>2, <2>3, PortFacts DEF PtpClock
  <2>6. d.portState = ptpClock.portState /\ (OwnDataset(ptpClock) => OwnDataset(d))
    BY PortFacts DEF OwnDataset, PtpClock
  <2> HIDE DEF d
  <2> QED BY <2>4, <2>5, <2>6, PortFacts DEF ClockOK
<1>3. TimersOK(ptpClock.portState, itimer')
  <2>1. "DELAYREQ_INTERVAL" \in Timers /\ "DELAYREQ_INTERVAL" \notin Needed(ptpClock.portState)
    BY DEF Timers, Needed
  <2>2. PICK n \in 0..(2 * ptpClock.delayReqTicks) :
          itimer' = timerStart(itimer, "DELAYREQ_INTERVAL", n)
    BY DEF DelayReqSent
  <2>3. n \in Nat
    BY <1>1, <2>2
  <2> QED BY <2>1, <2>2, <2>3, PortFacts, StartOK
<1>4. pc' \in Places \ {"pdelayFollowUp"} /\ tx' = NoFrame
  BY DEF DelayReqSent, At, GoTo, AfterRequest, Places
<1>5. PortOK'
  BY <1>2, <1>3, <1>4, PortKept
<1>6. InputOK'
  BY InputKept DEF DelayReqSent, IInv, InputOK
<1> QED BY <1>5, <1>6 DEF IInv

LEMMA PDelayReqSentOK == IInv /\ PDelayReqSent => IInv'
<1> SUFFICES ASSUME IInv, PDelayReqSent PROVE IInv'
  OBVIOUS
<1>1. PICK match \in TxTimestampMatches :
        ptpClock' =
           [ptpClock EXCEPT
              !.pdelay_req_send_time =
                IF match THEN [src |-> SelfPort, seq |-> ptpClock.sentPDelayReqSequenceId] ELSE @,
              !.sentPDelayReqSequenceId = NextId(@)]
  BY DEF PDelayReqSent
<1> DEFINE t == IF match THEN [src |-> SelfPort, seq |-> ptpClock.sentPDelayReqSequenceId]
                ELSE ptpClock.pdelay_req_send_time
           n == NextId(ptpClock.sentPDelayReqSequenceId)
<1>2. t \in Stamp /\ n \in SequenceIds
  BY PortFacts, NextIdOK, ZeroTypes DEF Stamp, PtpClock
<1>3. ptpClock' = [ptpClock EXCEPT !.pdelay_req_send_time = t, !.sentPDelayReqSequenceId = n]
  BY <1>1, Zenon
<1> HIDE DEF t, n
<1>4. ClockOK(ptpClock') /\ ptpClock'.portState = ptpClock.portState
  BY <1>2, <1>3, PortFacts, ZenonT(30) DEF ClockOK, OwnDataset, PtpClock
<1>5. pc' \in Places \ {"pdelayFollowUp"} /\ tx' = NoFrame
  BY DEF PDelayReqSent, At, GoTo, AfterRequest, Places
<1> QED BY <1>4, <1>5, SentOK DEF PDelayReqSent

LEMMA FirstAnnounceOK == IInv /\ FirstAnnounce => IInv'
<1> SUFFICES ASSUME IInv, FirstAnnounce PROVE IInv'
  OBVIOUS
<1> DEFINE c == [ptpClock EXCEPT !.master_has_sent_announce = TRUE]
<1>1. ClockOK(c) /\ c.portState = ptpClock.portState
  BY PortFacts DEF ClockOK, OwnDataset, PtpClock
<1>2. Out(ptpClock, "ANNOUNCE", 0, ZeroPort) \in Frame
  BY PortFacts, OutOK, ZeroTypes DEF MessageTypes
<1> HIDE DEF c
<1>3. (ptpClock' = ptpClock /\ tx' = NoFrame)
      \/ (ptpClock' = c /\ tx' = Out(ptpClock, "ANNOUNCE", 0, ZeroPort))
  BY Zenon DEF FirstAnnounce, At, c
<1>4. pc' \in Places \ {"pdelayFollowUp"}
  BY DEF FirstAnnounce, GoTo, Places
<1> QED BY <1>1, <1>2, <1>3, <1>4, PortFacts, SentOK DEF FirstAnnounce

LEMMA SyncSentOK == IInv /\ SyncSent => IInv'
<1> SUFFICES ASSUME IInv, SyncSent PROVE IInv'
  OBVIOUS
<1> DEFINE n == NextId(ptpClock.sentSyncSequenceId)
           c == [ptpClock EXCEPT !.sentSyncSequenceId = n]
<1>1. ptpClock.sentSyncSequenceId \in SequenceIds
  BY PortFacts DEF PtpClock
<1>2. n \in SequenceIds
  BY <1>1, NextIdOK
<1> HIDE DEF n
<1>3. ClockOK(c) /\ c.portState = ptpClock.portState
  BY <1>2, PortFacts DEF ClockOK, OwnDataset, PtpClock
<1>4. Out(ptpClock, "FOLLOW_UP", ptpClock.sentSyncSequenceId, ZeroPort) \in Frame
  BY <1>1, PortFacts, OutOK, ZeroTypes DEF MessageTypes
<1>5. tx' \in Frame \cup {NoFrame} /\ pc' \in Places \ {"pdelayFollowUp"}
  BY <1>4 DEF SyncSent, GoTo, Places
<1>6. ptpClock' = c
  BY Zenon DEF SyncSent, c, n
<1> QED BY <1>3, <1>5, <1>6, SentOK DEF SyncSent

LEMMA MasterEndOK == IInv /\ MasterEnd => IInv'
<1> SUFFICES ASSUME IInv, MasterEnd PROVE IInv'
  OBVIOUS
<1>1. "LISTENING" \in PortStates
  BY DEF PortStates
<1>2. /\ ClockOK(toState(ptpClock, "LISTENING"))
      /\ toState(ptpClock, "LISTENING").portState = "LISTENING"
  BY <1>1, PortFacts, ToStateOK
<1>3. TimersOK("LISTENING", ToStateTimers(itimer, ptpClock.portState, "LISTENING"))
  BY <1>1, PortFacts, ToStateTimersOK
<1>4. ClockOK(ptpClock') /\ TimersOK(ptpClock'.portState, itimer')
  BY <1>2, <1>3, PortFacts DEF MasterEnd
<1>5. pc' = "top" /\ "top" \in Places \ {"pdelayFollowUp"} /\ tx' = NoFrame
  BY DEF MasterEnd, At, GoTo, Places
<1>6. PortOK'
  BY <1>4, <1>5, PortKept
<1>7. InputOK'
  BY InputKept DEF MasterEnd, IInv, InputOK
<1> QED BY <1>6, <1>7 DEF IInv

LEMMA EnvironmentOK == IInv /\ Environment => IInv'
<1> SUFFICES ASSUME IInv, Environment PROVE IInv'
  OBVIOUS
<1>1. /\ pc' = pc /\ branch' = branch /\ ptpClock' = ptpClock /\ itimer' = itimer
      /\ tx' \in {tx, NoFrame}
  BY DEF Environment, Tick, Transmit, Arrive
<1>2. PortOK'
  BY <1>1 DEF IInv, PortOK, HeaderSaved
<1>3. elapsed' \in 0..MaxElapsed
  BY ProtocolAssumption DEF Environment, Tick, Transmit, Arrive, IInv, InputOK
<1>4. rx' \in [frame : Frames \cup {NoFrame}, ready : BOOLEAN]
  <2>1. rx' = rx \/ \E f \in Frames : rx' = [frame |-> f, ready |-> TRUE]
    BY DEF Environment, Tick, Transmit, Arrive
  <2>2. rx \in [frame : Frames \cup {NoFrame}, ready : BOOLEAN]
    BY DEF IInv, InputOK
  <2>3. \A f \in Frames : [frame |-> f, ready |-> TRUE] \in
                           [frame : Frames \cup {NoFrame}, ready : BOOLEAN]
    OBVIOUS
  <2> QED BY <2>1, <2>2, <2>3, Zenon
<1> QED BY <1>1, <1>2, <1>3, <1>4 DEF IInv, InputOK

-----------------------------------------------------------------------------
(* The theorems *)

\* IInv is inductive.
LEMMA NextOK == IInv /\ [Next]_vars => IInv'
<1> SUFFICES ASSUME IInv, [Next]_vars PROVE IInv'
  OBVIOUS
<1>1. CASE PassStep
  BY <1>1, doInitOK, StateDecisionOK, FaultClearedOK, MovesOK DEF PassStep
<1>2. CASE ReceiveStep
  BY <1>2, MovesOK, handleOK, issuePDelayRespFollowUpOK DEF ReceiveStep
<1>3. CASE SlaveStep
  BY <1>3, TimeoutOK, RequestOK, DelayReqSentOK, PDelayReqSentOK DEF SlaveStep
<1>4. CASE MasterStep
  BY <1>4, FirstAnnounceOK, issueSyncOK, SyncSentOK, issueAnnounceOK, RequestOK, MasterEndOK
  DEF MasterStep
<1>5. CASE Environment
  BY <1>5, EnvironmentOK
<1>6. CASE UNCHANGED vars
  BY <1>6 DEF vars, IInv, PortOK, InputOK, HeaderSaved
<1> QED BY <1>1, <1>2, <1>3, <1>4, <1>5, <1>6 DEF Next, PortStep

LEMMA InductiveInvariant == Spec => []IInv
<1>1. IInv /\ [Next]_vars => IInv'
  BY NextOK
<1> QED BY <1>1, InitOK, PTL DEF Spec

\* Every variable keeps its type in every behaviour: the cursors of the foreign
\* master table (addForeign, bmcExec) stay inside it and the sequence ids wrap.
THEOREM PortTypeCorrect == Spec => []TypeOK
<1>1. IInv => TypeOK
  BY DEF IInv, PortOK, InputOK, ClockOK, TimersOK, TypeOK
<1> QED BY <1>1, InductiveInvariant, PTL

\* toState and the handlers never leave a waiting port without its announce
\* receipt timer, nor a master without its Sync and Announce timers.
THEOREM WatchdogAlwaysArmed == Spec => []WatchdogArmed
<1>1. IInv => WatchdogArmed
  BY DEF IInv, PortOK, TimersOK, Needed, WatchdogArmed, Armed
<1> QED BY <1>1, InductiveInvariant, PTL

\* A master announces its own data sets (m1), however it became one.
THEOREM MasterIsOwnGrandmaster == Spec => []MasterDataset
<1>1. IInv => MasterDataset
  BY DEF IInv, PortOK, ClockOK, OwnDataset, MasterDataset
<1> QED BY <1>1, InductiveInvariant, PTL

-----------------------------------------------------------------------------
(* One pass of doState and the next                                          *)

MasterPlaces == {"firstAnnounce", "sync", "syncSent", "announce", "pdelay"}
SlavePlaces == {"watchdog", "request"}
Running == {"LISTENING", "SLAVE", "PASSIVE", "MASTER"}

\* The steps of a master's own, and those between a decision and the frame.
Mastering == pc \in MasterPlaces \/ (pc = "requestSent" /\ branch = "master")
BeforeHandling == pc \in {"switch", "poll", "recv", "burst"} \/ Mastering

BranchOK ==
    /\ pc \in MasterPlaces \cup {"end"} => branch = "master"
    /\ pc \in SlavePlaces => branch = "slave"

\* The role in which the steps of a pass are taken.
RoleOK ==
    /\ pc \in {"poll", "recv", "burst"} => ptpClock.portState \in Running
    /\ Mastering => ptpClock.portState = "MASTER"
    /\ pc = "pdelayFollowUp" => ptpClock.portState \in {"SLAVE", "PASSIVE", "MASTER"}

\* A pass handles one frame, and the next begins with the decision it calls for.
DecisionOK == ptpClock.record_update => ~BeforeHandling /\ ptpClock.portState # "FAULTY"

\* A master of the slave-only class is on its way through the branch that ends it.
YieldOK ==
    OnlyAsSlave /\ ptpClock.portState = "MASTER" =>
        pc = "switch" \/ (branch = "master" /\ pc \notin {"top"} \cup SlavePlaces)

\* What a state decision was made for is an Announce, unread or still there.
Fresh == rx.ready \/ rx.frame = NoFrame \/ rx.frame.type = "ANNOUNCE"
RereadOK ==
    /\ ptpClock.record_update => Fresh
    /\ (pc \in {"switch", "poll"} \/ Mastering) /\ ptpClock.message_activity => Fresh

\* The response on its way out answers the request whose header is saved.
AnswerOK ==
    /\ tx.type \in {"PDELAY_RESP", "PDELAY_RESP_FOLLOW_UP"} =>
          ptpClock.PdelayReqHeader = [src |-> tx.req, seq |-> tx.seq]

ControlOK == BranchOK /\ RoleOK /\ DecisionOK /\ YieldOK /\ RereadOK /\ AnswerOK

\* A record is filed under the port that sent it.
RecordsOK(c) == \A i \in 0..(MaxForeign - 1) : c.foreign[i].id = c.foreign[i].src

ParentOK(c) ==
    c.portState = "SLAVE" /\ ~c.record_update =>
        c.foreign[c.foreign_record_best].id = c.parentPortIdentity

\* The wait for a FollowUp is for that of the Sync whose receive time is kept.
FollowOK(c) == c.waitingForFollow => c.recvSyncSequenceId = c.sync_receive_time.seq

\* The wait for a DelayResp is for that of the last request, and its transmit
\* time is kept, unless a transmit timestamp was missed.
RespOK(c) ==
    ~TxTimestampMayMiss /\ c.waitingForDelayResp =>
        /\ c.delay_req_send_time.src = SelfPort
        /\ c.delay_req_send_time.seq \in SequenceIds
        /\ c.sentDelayReqSequenceId = NextId(c.delay_req_send_time.seq)

\* The table fills up before it wraps, the best record is one in use when a
\* search starts from it, no two records in use are of one port, and each holds
\* what that port announced.
Announces == {f \in Frames : f.type = "ANNOUNCE"}

TableOK(c) ==
    /\ c.portState # "FAULTY"
    /\ c.portState = "INITIALIZING" => c.foreign_record_i = 0
    /\ c.number_foreign_records < MaxForeign => c.foreign_record_i = c.number_foreign_records
    /\ c.number_foreign_records > 0 /\ ~c.record_update =>
         c.foreign_record_best < c.number_foreign_records
    /\ \A i \in 0..(MaxForeign - 1) : c.foreign[i].ds.gm # Self
    /\ \A i, j \in 0..(MaxForeign - 1) :
         i < c.number_foreign_records /\ j < c.number_foreign_records
           /\ c.foreign[i].id = c.foreign[j].id => i = j
    /\ \A i \in 0..(MaxForeign - 1) : i < c.number_foreign_records =>
         \E f \in Announces : f.src = c.foreign[i].id /\ f.ds = c.foreign[i].ds

DataOK(c) == RecordsOK(c) /\ ParentOK(c) /\ FollowOK(c) /\ RespOK(c)

PassInv == IInv /\ ControlOK /\ DataOK(ptpClock)

-----------------------------------------------------------------------------
(* What the operators on the data leave alone *)

Table(d, c) ==
    /\ d.record_update = c.record_update
    /\ d.foreign = c.foreign
    /\ d.number_foreign_records = c.number_foreign_records
    /\ d.foreign_record_i = c.foreign_record_i

Cursor(d, c) ==
    /\ d.foreign_record_best = c.foreign_record_best
    /\ d.parentPortIdentity = c.parentPortIdentity
    /\ d.grandmaster = c.grandmaster

Syncs(d, c) ==
    /\ d.waitingForFollow = c.waitingForFollow
    /\ d.recvSyncSequenceId = c.recvSyncSequenceId
    /\ d.sync_receive_time = c.sync_receive_time

Requests(d, c) ==
    /\ d.waitingForDelayResp = c.waitingForDelayResp
    /\ d.sentDelayReqSequenceId = c.sentDelayReqSequenceId
    /\ d.delay_req_send_time = c.delay_req_send_time

\* Waits may end, but none begins.
Waits(d, c) ==
    /\ d.waitingForFollow => c.waitingForFollow /\ Syncs(d, c)
    /\ d.waitingForDelayResp => c.waitingForDelayResp /\ Requests(d, c)

Activity(d, c) == d.message_activity = c.message_activity
State(d, c) == d.portState = c.portState
Header(d, c) == d.PdelayReqHeader = c.PdelayReqHeader

Quiet(d, c) ==
    Table(d, c) /\ Cursor(d, c) /\ Syncs(d, c) /\ Activity(d, c) /\ State(d, c) /\ Header(d, c)

\* What the invariant says of the data survives steps that leave these parts alone.
LEMMA QuietData ==
    ASSUME NEW c, NEW d, DataOK(c), Quiet(d, c), Waits(d, c)
    PROVE  DataOK(d)
BY DEF DataOK, RecordsOK, ParentOK, FollowOK, RespOK, Quiet, Table, Cursor, Syncs, State, Waits,
       Requests

\* toState ends waits and begins none.
LEMMA ToStateData ==
    ASSUME NEW c \in PtpClock, NEW to \in PortStates
    PROVE  LET d == toState(c, to)
           IN  /\ Table(d, c) /\ Cursor(d, c) /\ Waits(d, c)
               /\ d.portState = to /\ d.message_activity = TRUE
BY DEF toState, Table, Cursor, Syncs, Requests, Waits, PtpClock

\* m1 makes the port its own grandmaster.
LEMMA M1Data ==
    ASSUME NEW c \in PtpClock
    PROVE  LET d == m1(c)
           IN  /\ Table(d, c) /\ Syncs(d, c) /\ Requests(d, c) /\ Activity(d, c)
               /\ d.foreign_record_best = c.foreign_record_best
               /\ d.grandmaster.gm = Self
BY DEF m1, Table, Syncs, Requests, Activity, PtpClock

\* s1 takes over the record it is given.
LEMMA S1Data ==
    ASSUME NEW c \in PtpClock, NEW src, NEW ds
    PROVE  LET d == s1(c, src, ds)
           IN  /\ Table(d, c) /\ Syncs(d, c) /\ Requests(d, c) /\ Activity(d, c)
               /\ d.foreign_record_best = c.foreign_record_best
               /\ d.parentPortIdentity = src
               /\ d.grandmaster.gm = ds.gm
BY DEF s1, Table, Syncs, Requests, Activity, PtpClock

\* The decision: a slave's or passive port's new parent is the sender of the
\* record it chose, and no other role changes the parent but a master's.
LEMMA BmcExecData ==
    ASSUME NEW c \in PtpClock
    PROVE  LET d == bmcExec(c)
           IN  /\ Table(d.clk, c) /\ Syncs(d.clk, c) /\ Requests(d.clk, c) /\ Activity(d.clk, c)
               /\ d.state \in Running \cup {"FAULTY"}
               /\ d.state \in {"LISTENING", "FAULTY"} => d.clk.grandmaster = c.grandmaster
               /\ d.state = "MASTER" => d.clk.grandmaster.gm = Self
               /\ d.state \in {"SLAVE", "PASSIVE"} =>
                    /\ d.clk.foreign_record_best \in 0..(MaxForeign - 1)
                    /\ d.clk.parentPortIdentity = c.foreign[d.clk.foreign_record_best].src
                    /\ d.clk.grandmaster.gm \in Nat
<1> DEFINE b   == Best(c.foreign, c.number_foreign_records, c.parentPortIdentity.clock)
           r   == c.foreign[b]
           cb  == [c EXCEPT !.foreign_record_best = b]
           cmp == bmcDataSetComparison(D0, r, c.parentPortIdentity.clock)
<1>1. b \in 0..(MaxForeign - 1)
  <2>1. c.number_foreign_records \in Nat
    BY BmcAssumption DEF PtpClock
  <2> QED BY <2>1, BestInUse
<1> HIDE DEF b
<1>2. r.ds.gm \in Nat
  BY <1>1 DEF PtpClock, ForeignRecord, DataSet, Clocks
<1>3. /\ cb \in PtpClock
      /\ Table(cb, c) /\ Syncs(cb, c) /\ Requests(cb, c) /\ Activity(cb, c)
      /\ cb.foreign_record_best = b /\ cb.grandmaster = c.grandmaster
  BY <1>1 DEF PtpClock, Table, Syncs, Requests, Activity
<1>4. r = c.foreign[b]
  OBVIOUS
<1> HIDE DEF cb, cmp, r
<1> DEFINE e == s1(cb, r.src, r.ds)
<1>5. /\ Table(e, c) /\ Syncs(e, c) /\ Requests(e, c) /\ Activity(e, c)
      /\ e.foreign_record_best = b
      /\ e.parentPortIdentity = r.src
      /\ e.grandmaster.gm = r.ds.gm
  <2>1. /\ Table(e, cb) /\ Syncs(e, cb) /\ Requests(e, cb) /\ Activity(e, cb)
        /\ e.foreign_record_best = cb.foreign_record_best
        /\ e.parentPortIdentity = r.src
        /\ e.grandmaster.gm = r.ds.gm
    BY <1>3, S1Data
  <2> HIDE DEF e
  <2> QED BY <1>3, <2>1 DEF Table, Syncs, Requests, Activity
<1>6. /\ Table(m1(c), c) /\ Syncs(m1(c), c) /\ Requests(m1(c), c) /\ Activity(m1(c), c)
      /\ m1(c).grandmaster.gm = Self
  BY M1Data
<1>7. /\ Table(m1(cb), c) /\ Syncs(m1(cb), c) /\ Requests(m1(cb), c) /\ Activity(m1(cb), c)
      /\ m1(cb).grandmaster.gm = Self
  BY <1>3, M1Data DEF Table, Syncs, Requests, Activity
<1> HIDE DEF e
<1>8. \/ bmcExec(c) = [state |-> "MASTER", clk |-> m1(c)]
      \/ bmcExec(c) = [state |-> "MASTER", clk |-> m1(cb)]
      \/ bmcExec(c) = [state |-> "LISTENING", clk |-> cb]
      \/ bmcExec(c) = [state |-> "FAULTY", clk |-> cb]
      \/ bmcExec(c) = [state |-> "SLAVE", clk |-> e]
      \/ bmcExec(c) = [state |-> "PASSIVE", clk |-> e]
  BY Zenon DEF bmcExec, b, r, cb, cmp, e
<1> QED BY <1>1, <1>2, <1>3, <1>4, <1>5, <1>6, <1>7, <1>8 DEF Running

\* The first match of a sender is a record of that sender.
LEMMA FirstMatchFiled ==
    ASSUME NEW c \in PtpClock, NEW id, Matches(c, id) # {}
    PROVE  c.foreign[FirstMatch(c, id)].id = id
<1> DEFINE M == Matches(c, id)
           i == CHOOSE j \in M : \A k \in M : j <= k
<1>1. c.number_foreign_records \in Nat
  BY BmcAssumption DEF PtpClock
<1>2. M \in SUBSET Nat
  BY <1>1 DEF Matches
<1>3. i \in M
  <2>1. \E j \in M : \A k \in M : j <= k
    BY <1>2, LeastNat
  <2> QED BY <2>1
<1>4. FirstMatch(c, id) = Slot(c, i)
  BY DEF FirstMatch
<1> HIDE DEF i
<1> QED BY <1>3, <1>4 DEF Matches

\* addForeign files a record under the sender of the frame.
LEMMA AddForeignData ==
    ASSUME NEW c \in PtpClock, NEW f \in Frame, RecordsOK(c)
    PROVE  LET d == addForeign(c, f)
           IN  /\ RecordsOK(d) /\ Syncs(d, c) /\ Requests(d, c) /\ Activity(d, c)
               /\ d.grandmaster = c.grandmaster
<1>1. CASE Matches(c, f.src) # {}
  <2> DEFINE m == FirstMatch(c, f.src)
             r == [id |-> c.foreign[m].id, src |-> f.src, ds |-> f.ds]
             tab == [c.foreign EXCEPT ![m] = r]
             d == [c EXCEPT !.foreign = tab]
  <2>1. m \in 0..(MaxForeign - 1) /\ c.foreign[m].id = f.src
    BY <1>1, FirstMatchInTable, FirstMatchFiled
  <2>2. addForeign(c, f) = d
    BY <1>1 DEF addForeign
  <2> HIDE DEF m
  <2>3. \A i \in 0..(MaxForeign - 1) : tab[i].id = tab[i].src
    BY <2>1 DEF RecordsOK, PtpClock
  <2> HIDE DEF tab
  <2>4. /\ d.foreign = tab /\ d.grandmaster = c.grandmaster
        /\ Syncs(d, c) /\ Requests(d, c) /\ Activity(d, c)
    BY DEF PtpClock, Syncs, Requests, Activity
  <2> HIDE DEF d
  <2> QED BY <2>2, <2>3, <2>4 DEF RecordsOK
<1>2. CASE Matches(c, f.src) = {}
  <2> DEFINE n == IF c.number_foreign_records < MaxForeign THEN c.number_foreign_records + 1
                  ELSE c.number_foreign_records
             tab == [c.foreign EXCEPT ![c.foreign_record_i] =
                       [id |-> f.src, src |-> f.src, ds |-> f.ds]]
             i == (c.foreign_record_i + 1) % MaxForeign
             d == [c EXCEPT !.number_foreign_records = n, !.foreign = tab,
                            !.foreign_record_i = i]
  <2>1. addForeign(c, f) = d
    BY <1>2 DEF addForeign
  <2>2. \A j \in 0..(MaxForeign - 1) : tab[j].id = tab[j].src
    BY DEF RecordsOK, PtpClock
  <2> HIDE DEF n, tab, i
  <2>3. /\ d.foreign = tab /\ d.grandmaster = c.grandmaster
        /\ Syncs(d, c) /\ Requests(d, c) /\ Activity(d, c)
    BY DEF PtpClock, Syncs, Requests, Activity
  <2> HIDE DEF d
  <2> QED BY <2>1, <2>2, <2>3 DEF RecordsOK
<1> QED BY <1>1, <1>2

\* handleAnnounce keeps the type of the data sets, the state and the saved header.
LEMMA RecordAnnounceType ==
    ASSUME NEW c \in PtpClock, NEW f \in Frame
    PROVE  /\ RecordAnnounce(c, f) \in PtpClock
           /\ RecordAnnounce(c, f).portState = c.portState
           /\ RecordAnnounce(c, f).PdelayReqHeader = c.PdelayReqHeader
<1> DEFINE e == s1(c, f.src, f.ds)
           b == c.foreign_record_best
           tab == [e.foreign EXCEPT ![b] = [id |-> @.id, src |-> f.src, ds |-> f.ds]]
           d == [e EXCEPT !.foreign = tab]
<1>1. f.src \in PortIdentity /\ f.ds \in DataSet
  BY DEF Frame
<1>2. /\ e \in PtpClock /\ e.portState = c.portState /\ e.foreign = c.foreign
      /\ e.PdelayReqHeader = c.PdelayReqHeader
  BY <1>1, S1OK
<1>3. b \in 0..(MaxForeign - 1)
  BY DEF PtpClock
<1> HIDE DEF e, b
<1>4. tab \in [0..(MaxForeign - 1) -> ForeignRecord]
  BY <1>1, <1>2, <1>3 DEF PtpClock, ForeignRecord
<1>5. d \in PtpClock /\ d.portState = c.portState /\ d.PdelayReqHeader = c.PdelayReqHeader
  <2> HIDE DEF tab
  <2> QED BY <1>2, <1>4 DEF PtpClock
<1>6. RecordAnnounce(c, f) \in {d, e, addForeign(c, f)}
  BY DEF RecordAnnounce, d, e, b
<1> HIDE DEF d
<1> QED BY <1>2, <1>5, <1>6, AddForeignOK

\* An Announce is filed under its sender, whichever record it goes to: a
\* slave's, which refreshes the best one, because that is its parent's.
LEMMA RecordAnnounceData ==
    ASSUME NEW c \in PtpClock, NEW f \in Frame, RecordsOK(c), ParentOK(c), ~c.record_update
    PROVE  LET d == RecordAnnounce(c, f)
           IN  /\ RecordsOK(d) /\ Syncs(d, c) /\ Requests(d, c) /\ Activity(d, c)
               /\ c.portState \notin {"SLAVE", "PASSIVE"} => d.grandmaster = c.grandmaster
               /\ c.portState \in {"SLAVE", "PASSIVE"} => d.grandmaster.gm \in Nat
<1>1. f.src \in PortIdentity /\ f.ds \in DataSet /\ f.ds.gm \in Nat /\ c.grandmaster.gm \in Nat
  BY DEF Frame, DataSet, Clocks, PtpClock
<1> DEFINE e == s1(c, f.src, f.ds)
<1>2. /\ e \in PtpClock /\ e.foreign = c.foreign
      /\ Table(e, c) /\ Syncs(e, c) /\ Requests(e, c) /\ Activity(e, c)
      /\ e.grandmaster.gm = f.ds.gm
  BY <1>1, S1OK, S1Data
<1> HIDE DEF e
<1>3. CASE c.portState = "SLAVE" /\ IsFromCurrentParent(c, f)
  <2> DEFINE b == c.foreign_record_best
             r == [id |-> c.foreign[b].id, src |-> f.src, ds |-> f.ds]
             tab == [c.foreign EXCEPT ![b] = r]
             d == [e EXCEPT !.foreign = tab]
  <2>1. RecordAnnounce(c, f) = d
    BY <1>2, <1>3 DEF RecordAnnounce, e
  <2>2. b \in 0..(MaxForeign - 1) /\ c.foreign[b].id = f.src
    BY <1>3 DEF ParentOK, IsFromCurrentParent, PtpClock
  <2> HIDE DEF b
  <2>3. \A i \in 0..(MaxForeign - 1) : tab[i].id = tab[i].src
    BY <2>2 DEF RecordsOK, PtpClock
  <2> HIDE DEF tab
  <2>4. /\ d.foreign = tab /\ d.grandmaster = e.grandmaster
        /\ Syncs(d, e) /\ Requests(d, e) /\ Activity(d, e)
    BY <1>2 DEF PtpClock, Syncs, Requests, Activity
  <2> HIDE DEF d
  <2> QED BY <1>1, <1>2, <1>3, <2>1, <2>3, <2>4 DEF RecordsOK, Syncs, Requests, Activity
<1>4. CASE c.portState = "PASSIVE" /\ IsFromCurrentParent(c, f)
  <2>1. RecordAnnounce(c, f) = e
    BY <1>4 DEF RecordAnnounce, e
  <2> QED BY <1>1, <1>2, <1>4, <2>1 DEF RecordsOK
<1>5. CASE ~(c.portState \in {"SLAVE", "PASSIVE"} /\ IsFromCurrentParent(c, f))
  <2>1. RecordAnnounce(c, f) = addForeign(c, f)
    BY <1>5 DEF RecordAnnounce
  <2> QED BY <1>1, <2>1, AddForeignData
<1> QED BY <1>3, <1>4, <1>5

\* The search of addForeign looks at every record in use.
LEMMA SlotsCover ==
    ASSUME NEW c \in PtpClock, NEW j \in Nat, j < c.number_foreign_records,
           c.foreign_record_best < c.number_foreign_records
    PROVE  \E i \in 0..(c.number_foreign_records - 1) : Slot(c, i) = j
<1> DEFINE n == c.number_foreign_records
           b == c.foreign_record_best
<1>1. n \in Nat \ {0} /\ b \in Nat /\ b < n /\ j < n
  BY BmcAssumption DEF PtpClock
<1>2. \A i \in Nat : i # 0 => Slot(c, i) = (b + i) % n
  BY DEF Slot
<1>3. Slot(c, 0) = b
  BY DEF Slot
<1> HIDE DEF n, b
<1>4. CASE j = b
  <2>1. 0 \in 0..(n - 1)
    BY <1>1
  <2> QED BY <1>3, <1>4, <2>1 DEF n
<1>5. CASE j > b
  <2>1. j - b \in 0..(n - 1) /\ j - b \in Nat /\ j - b # 0 /\ b + (j - b) = j
    BY <1>1, <1>5
  <2>2. j % n = j
    BY <1>1
  <2>3. Slot(c, j - b) = j
    BY <1>2, <2>1, <2>2
  <2> QED BY <2>1, <2>3 DEF n
<1>6. CASE j < b
  <2>1. j + n - b \in 0..(n - 1) /\ j + n - b \in Nat /\ j + n - b # 0 /\ b + (j + n - b) = j + n
    BY <1>1, <1>6
  <2>2. (j + n) % n = j
    BY <1>1
  <2>3. Slot(c, j + n - b) = j
    BY <1>2, <2>1, <2>2
  <2> QED BY <2>1, <2>3 DEF n
<1> QED BY <1>1, <1>4, <1>5, <1>6

\* addForeign keeps the table in order: it writes a new record only where the
\* search has found none of that sender.
LEMMA AddForeignTable ==
    ASSUME NEW c \in PtpClock, NEW f \in Announces, TableOK(c), ~c.record_update,
           c.portState # "INITIALIZING", f.ds.gm # Self
    PROVE  TableOK([addForeign(c, f) EXCEPT !.record_update = TRUE])
<1>0. /\ MaxForeign \in Nat \ {0}
      /\ c.number_foreign_records \in 0..MaxForeign
      /\ c.foreign_record_i \in 0..(MaxForeign - 1)
      /\ c.foreign_record_best \in 0..(MaxForeign - 1)
      /\ c.foreign \in [0..(MaxForeign - 1) -> ForeignRecord]
  BY BmcAssumption DEF PtpClock
<1>1. CASE Matches(c, f.src) # {}
  <2> DEFINE m == FirstMatch(c, f.src)
             r == [id |-> c.foreign[m].id, src |-> f.src, ds |-> f.ds]
             tab == [c.foreign EXCEPT ![m] = r]
             d == [c EXCEPT !.foreign = tab]
             e == [d EXCEPT !.record_update = TRUE]
  <2>1. m \in 0..(MaxForeign - 1) /\ c.foreign[m].id = f.src
    BY <1>1, FirstMatchInTable, FirstMatchFiled
  <2>2. addForeign(c, f) = d
    BY <1>1 DEF addForeign
  <2> HIDE DEF m
  <2>3. \A i \in 0..(MaxForeign - 1) :
          /\ tab[i].id = c.foreign[i].id
          /\ tab[i].ds = c.foreign[i].ds \/ (tab[i].ds = f.ds /\ tab[i].id = f.src)
    BY <1>0, <2>1
  <2> HIDE DEF tab
  <2>4. /\ e.foreign = tab /\ e.portState = c.portState
        /\ e.number_foreign_records = c.number_foreign_records
        /\ e.foreign_record_i = c.foreign_record_i /\ e.record_update = TRUE
    BY DEF PtpClock
  <2> HIDE DEF d, e
  <2>5. TableOK(e)
    BY <2>3, <2>4 DEF TableOK
  <2> QED BY <2>2, <2>5 DEF e
<1>2. CASE Matches(c, f.src) = {}
  <2> DEFINE k == c.number_foreign_records
             n == IF k < MaxForeign THEN k + 1 ELSE k
             tab == [c.foreign EXCEPT ![c.foreign_record_i] =
                       [id |-> f.src, src |-> f.src, ds |-> f.ds]]
             i == (c.foreign_record_i + 1) % MaxForeign
             d == [c EXCEPT !.number_foreign_records = n, !.foreign = tab,
                            !.foreign_record_i = i]
             e == [d EXCEPT !.record_update = TRUE]
  <2>1. addForeign(c, f) = d
    BY <1>2 DEF addForeign
  <2>2. ASSUME NEW j \in 0..(MaxForeign - 1), j < k PROVE c.foreign[j].id # f.src
    <3>1. c.foreign_record_best < k
      BY <1>0, <2>2 DEF TableOK
    <3>2. PICK x \in 0..(k - 1) : Slot(c, x) = j
      BY <1>0, <2>2, <3>1, SlotsCover
    <3> QED BY <1>2, <3>2 DEF Matches
  <2>3. k < MaxForeign => c.foreign_record_i = k
    BY DEF TableOK
  <2>4. n < MaxForeign => i = n
    <3> SUFFICES ASSUME n < MaxForeign PROVE i = n
      OBVIOUS
    <3>1. k < MaxForeign /\ n = k + 1 /\ c.foreign_record_i = k /\ k \in Nat
      BY <1>0, <2>3
    <3>2. (k + 1) % MaxForeign = k + 1
      BY <1>0, <3>1
    <3> QED BY <3>1, <3>2
  <2>6. \A j \in 0..(MaxForeign - 1) :
          /\ j # c.foreign_record_i => tab[j] = c.foreign[j]
          /\ tab[c.foreign_record_i].id = f.src /\ tab[c.foreign_record_i].ds = f.ds
          /\ tab[j].ds.gm \in {f.ds.gm, c.foreign[j].ds.gm}
    BY <1>0
  <2>7. \A j \in 0..(MaxForeign - 1) : j < n /\ j # c.foreign_record_i => j < k
    BY <1>0, <2>3
  <2> HIDE DEF n, tab, i, k
  <2>8. /\ e.foreign = tab /\ e.portState = c.portState
        /\ e.number_foreign_records = n
        /\ e.foreign_record_i = i /\ e.record_update = TRUE
    BY DEF PtpClock
  <2> HIDE DEF d, e
  <2>9. \A x, y \in 0..(MaxForeign - 1) :
          x < n /\ y < n /\ tab[x].id = tab[y].id => x = y
    BY <2>2, <2>6, <2>7 DEF TableOK, k
  <2>10. \A j \in 0..(MaxForeign - 1) : tab[j].ds.gm # Self
    BY <2>6 DEF TableOK
  <2>11. c.portState \notin {"FAULTY", "INITIALIZING"}
    BY DEF TableOK
  <2>12. ASSUME NEW j \in 0..(MaxForeign - 1), j < n
         PROVE  \E g \in Announces : g.src = tab[j].id /\ g.ds = tab[j].ds
    <3>1. CASE j = c.foreign_record_i
      BY <2>6, <3>1
    <3>2. CASE j # c.foreign_record_i
      BY <2>6, <2>7, <2>12, <3>2 DEF TableOK, k
    <3> QED BY <3>1, <3>2
  <2>13. TableOK(e)
    BY <2>4, <2>8, <2>9, <2>10, <2>11, <2>12 DEF TableOK
  <2> QED BY <2>1, <2>13 DEF e
<1> QED BY <1>1, <1>2

\* An Announce keeps the table in order, whichever record it goes to.
LEMMA RecordAnnounceTable ==
    ASSUME NEW c \in PtpClock, NEW f \in Announces, TableOK(c), ParentOK(c), ~c.record_update,
           c.portState # "INITIALIZING", f.ds.gm # Self
    PROVE  TableOK([RecordAnnounce(c, f) EXCEPT !.record_update = TRUE])
<1> DEFINE s == s1(c, f.src, f.ds)
           b == c.foreign_record_best
           tab == [s.foreign EXCEPT ![b] = [id |-> @.id, src |-> f.src, ds |-> f.ds]]
           d == [s EXCEPT !.foreign = tab]
<1>1. f.src \in PortIdentity /\ f.ds \in DataSet
  BY ProtocolAssumption DEF Frame, Announces
<1>2. s \in PtpClock /\ s.foreign = c.foreign /\ s.portState = c.portState /\ Table(s, c)
  BY <1>1, S1OK, S1Data
<1>3. b \in 0..(MaxForeign - 1)
  BY DEF PtpClock
<1>4. \/ RecordAnnounce(c, f) = d /\ c.foreign[b].id = f.src
      \/ RecordAnnounce(c, f) \in {s, addForeign(c, f)}
  BY DEF RecordAnnounce, ParentOK, IsFromCurrentParent
<1> HIDE DEF s, b
<1>5. ASSUME c.foreign[b].id = f.src, NEW i \in 0..(MaxForeign - 1)
      PROVE  /\ tab[i].id = c.foreign[i].id
             /\ tab[i].ds = c.foreign[i].ds \/ (tab[i].ds = f.ds /\ tab[i].id = f.src)
  BY <1>2, <1>3, <1>5 DEF PtpClock
<1>6. CASE RecordAnnounce(c, f) = d /\ c.foreign[b].id = f.src
  <2> DEFINE e == [d EXCEPT !.record_update = TRUE]
  <2> HIDE DEF tab
  <2>1. /\ e.foreign = tab /\ e.portState = s.portState
        /\ e.number_foreign_records = s.number_foreign_records
        /\ e.foreign_record_i = s.foreign_record_i /\ e.record_update = TRUE
    BY <1>2 DEF PtpClock
  <2> HIDE DEF d, e
  <2> QED BY <1>2, <1>5, <1>6, <2>1 DEF TableOK, Table, e
<1>7. CASE RecordAnnounce(c, f) = s
  <2> DEFINE e == [s EXCEPT !.record_update = TRUE]
  <2>1. /\ e.foreign = s.foreign /\ e.portState = s.portState
        /\ e.number_foreign_records = s.number_foreign_records
        /\ e.foreign_record_i = s.foreign_record_i /\ e.record_update = TRUE
    BY <1>2 DEF PtpClock
  <2> HIDE DEF e
  <2> QED BY <1>2, <1>7, <2>1 DEF TableOK, Table, e
<1>8. CASE RecordAnnounce(c, f) = addForeign(c, f)
  BY <1>8, AddForeignTable
<1> QED BY <1>4, <1>6, <1>7, <1>8

\* No record ties with the local clock, so the decision does not end in FAULTY,
\* and the best record is one in use.
LEMMA BmcExecRanks ==
    ASSUME NEW c \in PtpClock, \A i \in 0..(MaxForeign - 1) : c.foreign[i].ds.gm # Self
    PROVE  LET d == bmcExec(c)
           IN  /\ d.state # "FAULTY"
               /\ c.number_foreign_records > 0 =>
                    d.clk.foreign_record_best < c.number_foreign_records
<1> DEFINE b   == Best(c.foreign, c.number_foreign_records, c.parentPortIdentity.clock)
           r   == c.foreign[b]
           cb  == [c EXCEPT !.foreign_record_best = b]
           cmp == bmcDataSetComparison(D0, r, c.parentPortIdentity.clock)
<1>1. /\ b \in 0..(MaxForeign - 1)
      /\ c.number_foreign_records > 0 => b < c.number_foreign_records
  <2>1. c.number_foreign_records \in Nat
    BY BmcAssumption DEF PtpClock
  <2> QED BY <2>1, BestInUse
<1>2. cmp \in {-1, 1}
  <2>1. r.ds.gm # Self
    BY <1>1
  <2> QED BY <2>1 DEF bmcDataSetComparison, D0, CompareQuality
<1> HIDE DEF b
<1>3. cb \in PtpClock /\ cb.foreign_record_best = b
  BY <1>1 DEF PtpClock
<1> HIDE DEF cb, cmp, r
<1>4. \/ c.number_foreign_records = 0 /\ bmcExec(c) = [state |-> "MASTER", clk |-> m1(c)]
      \/ bmcExec(c) = [state |-> "MASTER", clk |-> m1(cb)]
      \/ bmcExec(c) = [state |-> "LISTENING", clk |-> cb]
      \/ bmcExec(c) = [state |-> "FAULTY", clk |-> cb] /\ ~(cmp < 0) /\ ~(cmp > 0)
      \/ bmcExec(c) = [state |-> "SLAVE", clk |-> s1(cb, r.src, r.ds)]
      \/ bmcExec(c) = [state |-> "PASSIVE", clk |-> s1(cb, r.src, r.ds)]
  BY Zenon DEF bmcExec, b, r, cb, cmp
<1>5. /\ m1(cb).foreign_record_best = b
      /\ s1(cb, r.src, r.ds).foreign_record_best = b
  BY <1>3, M1Data, S1Data
<1> QED BY <1>1, <1>2, <1>3, <1>4, <1>5

-----------------------------------------------------------------------------
(* What handling a frame can come to *)

\* An Announce is recorded, and a decision is due.
Announced(d, c, f) ==
    /\ f.type = "ANNOUNCE" /\ f.src # SelfPort
    /\ RecordsOK(d) /\ d.record_update
    /\ f \in Frames /\ TableOK(c) /\ c.portState # "INITIALIZING" /\ f.ds.gm # Self => TableOK(d)
    /\ Syncs(d, c) /\ Requests(d, c) /\ State(d, c) /\ Header(d, c)
    /\ c.portState \notin {"SLAVE", "PASSIVE"} => d.grandmaster = c.grandmaster
    /\ c.portState \in {"SLAVE", "PASSIVE"} => d.grandmaster.gm \in Nat

\* An incomplete frame has made the port faulty.
Failed(d, c, f) ==
    /\ f.form \in {"runt", "short"}
    /\ d.portState = "FAULTY"
    /\ Table(d, c) /\ Cursor(d, c) /\ Syncs(d, c) /\ Requests(d, c) /\ Header(d, c)

\* Any other frame touches the exchange it belongs to, at the most.
Worked(d, c, f) ==
    /\ Table(d, c) /\ Cursor(d, c) /\ State(d, c)
    /\ d.waitingForFollow => \/ c.waitingForFollow /\ Syncs(d, c)
                             \/ d.recvSyncSequenceId = d.sync_receive_time.seq
    /\ d.waitingForDelayResp => c.waitingForDelayResp /\ Requests(d, c)
    /\ c.waitingForFollow /\ ~d.waitingForFollow /\ f.type = "FOLLOW_UP" =>
         c.recvSyncSequenceId = f.seq
    /\ c.waitingForDelayResp /\ ~d.waitingForDelayResp =>
         c.sentDelayReqSequenceId - 1 = f.seq

\* The frame is answered at once, or not at all.
Answered(d, m) ==
    \/ m = NoFrame
    \/ m.type = "DELAY_RESP" /\ d.portState = "MASTER"
    \/ /\ m.type = "PDELAY_RESP"
       /\ d.portState \in {"SLAVE", "PASSIVE", "MASTER"}
       /\ d.PdelayReqHeader = [src |-> m.req, seq |-> m.seq]

\* Entering FAULTY leaves the table, the waits and the saved header.
LEMMA FaultyData ==
    ASSUME NEW c \in PtpClock
    PROVE  LET d == toState(c, "FAULTY")
           IN  /\ d.portState = "FAULTY"
               /\ Table(d, c) /\ Cursor(d, c) /\ Syncs(d, c) /\ Requests(d, c) /\ Header(d, c)
BY DEF toState, PtpClock, Table, Cursor, Syncs, Requests, Header

Result(c, f) ==
    /\ \/ Announced(ptpClock', c, f) /\ tx' = NoFrame
       \/ Failed(ptpClock', c, f) /\ tx' = NoFrame
       \/ Worked(ptpClock', c, f) /\ Answered(ptpClock', tx')
    /\ \/ pc' = AfterHandle
       \/ pc' = "pdelayFollowUp" /\ ptpClock'.portState \in {"SLAVE", "PASSIVE", "MASTER"}

\* One lemma for each handler: what it does to the data sets is in Result.
LEMMA IgnoreResult ==
    ASSUME NEW c \in PtpClock, NEW f, NEW d, Worked(d, c, f), Ignore(d), tx = NoFrame
    PROVE  Result(c, f)
BY DEF Ignore, GoTo, Result, Answered

\* A handler that changes no data set.
LEMMA SameWorked ==
    ASSUME NEW c \in PtpClock, NEW f PROVE Worked(c, c, f)
BY DEF Worked, Table, Cursor, State, Syncs, Requests

LEMMA AnnounceResult ==
    ASSUME NEW c \in PtpClock, NEW f \in Frame, f.type = "ANNOUNCE", tx = NoFrame,
           RecordsOK(c), ParentOK(c), ~c.record_update, handleAnnounce(c, f)
    PROVE  Result(c, f)
<1>1. CASE Ignore(c)
  BY <1>1, SameWorked, IgnoreResult
<1>2. CASE /\ ~IsFromSelf(f)
           /\ Update([RecordAnnounce(c, f) EXCEPT !.record_update = TRUE],
                     IF Heard(c, f) THEN RestartWatchdog(itimer) ELSE itimer)
  <2> DEFINE e == RecordAnnounce(c, f)
             d == [e EXCEPT !.record_update = TRUE]
  <2>1. /\ RecordsOK(e) /\ Syncs(e, c) /\ Requests(e, c)
        /\ c.portState \notin {"SLAVE", "PASSIVE"} => e.grandmaster = c.grandmaster
        /\ c.portState \in {"SLAVE", "PASSIVE"} => e.grandmaster.gm \in Nat
    BY RecordAnnounceData
  <2>2. e \in PtpClock /\ State(e, c) /\ Header(e, c)
    BY RecordAnnounceType DEF State, Header
  <2>3. /\ f.src # SelfPort
        /\ f \in Frames /\ TableOK(c) /\ c.portState # "INITIALIZING" /\ f.ds.gm # Self => TableOK(d)
    BY <1>2, RecordAnnounceTable DEF IsFromSelf, Announces
  <2> HIDE DEF e
  <2>4. /\ d.foreign = e.foreign /\ d.grandmaster = e.grandmaster /\ d.record_update
        /\ Syncs(d, e) /\ Requests(d, e) /\ State(d, e) /\ Header(d, e)
    BY <2>2 DEF PtpClock, Syncs, Requests, State, Header
  <2> HIDE DEF d
  <2>5. Announced(d, c, f)
    BY <2>1, <2>2, <2>3, <2>4 DEF Announced, RecordsOK, Syncs, Requests, State, Header
  <2>6. ptpClock' = d /\ pc' = AfterHandle /\ tx' = NoFrame
    BY <1>2 DEF Update, GoTo, d, e
  <2> QED BY <2>5, <2>6 DEF Result
<1> QED BY <1>1, <1>2 DEF handleAnnounce

LEMMA SyncResult ==
    ASSUME NEW c \in PtpClock, NEW f \in Frame, f.type = "SYNC", tx = NoFrame, handleSync(c, f)
    PROVE  Result(c, f)
<1> DEFINE d == [c EXCEPT !.waiting_for_first_sync = FALSE,
                          !.sync_receive_time = [src |-> f.src, seq |-> f.seq],
                          !.waitingForFollow = f.twoStep,
                          !.recvSyncSequenceId = IF f.twoStep THEN f.seq ELSE @]
<1>1. CASE Ignore(c)
  BY <1>1, SameWorked, IgnoreResult
<1>2. CASE Update(d, ArmRequestTimer(c, itimer))
  <2>1. ptpClock' = d /\ pc' = AfterHandle /\ tx' = NoFrame
    BY <1>2 DEF Update, GoTo
  <2>2. Worked(d, c, f)
    BY DEF Worked, PtpClock, Table, Cursor, State, Syncs, Requests
  <2> HIDE DEF d
  <2> QED BY <2>1, <2>2 DEF Result, Answered
<1> QED BY <1>1, <1>2 DEF handleSync

LEMMA FollowUpResult ==
    ASSUME NEW c \in PtpClock, NEW f \in Frame, tx = NoFrame, handleFollowUp(c, f)
    PROVE  Result(c, f)
<1> DEFINE d == IF FollowUpAccepted(c, f) THEN [c EXCEPT !.waitingForFollow = FALSE] ELSE c
<1>1. Ignore(d)
  BY DEF handleFollowUp
<1>2. Worked(d, c, f)
  BY DEF FollowUpAccepted, Worked, PtpClock, Table, Cursor, State, Syncs, Requests
<1> HIDE DEF d
<1> QED BY <1>1, <1>2, IgnoreResult

LEMMA DelayReqResult ==
    ASSUME NEW c \in PtpClock, NEW f \in Frame, tx = NoFrame, handleDelayReq(c, f)
    PROVE  Result(c, f)
<1>1. CASE Ignore(c)
  BY <1>1, SameWorked, IgnoreResult
<1>2. CASE c.portState = "MASTER" /\ Reply(c, Out(c, "DELAY_RESP", f.seq, f.src), AfterHandle)
  <2>1. Out(c, "DELAY_RESP", f.seq, f.src).type = "DELAY_RESP"
    BY DEF Out
  <2> QED BY <1>2, <2>1, SameWorked DEF Reply, GoTo, Result, Answered
<1> QED BY <1>1, <1>2 DEF handleDelayReq

LEMMA DelayRespResult ==
    ASSUME NEW c \in PtpClock, NEW f \in Frame, f.type = "DELAY_RESP", tx = NoFrame,
           handleDelayResp(c, f)
    PROVE  Result(c, f)
<1> DEFINE d == IF DelayRespAccepted(c, f)
                THEN [c EXCEPT !.waitingForDelayResp = FALSE, !.delayReqTicks = f.interval]
                ELSE c
<1>1. Ignore(d)
  BY DEF handleDelayResp
<1>2. Worked(d, c, f)
  BY DEF DelayRespAccepted, Worked, PtpClock, Table, Cursor, State, Syncs, Requests
<1> HIDE DEF d
<1> QED BY <1>1, <1>2, IgnoreResult

LEMMA PDelayReqResult ==
    ASSUME NEW c \in PtpClock, NEW f \in Frame, tx = NoFrame, handlePDelayReq(c, f)
    PROVE  Result(c, f)
<1> DEFINE d == [c EXCEPT !.PdelayReqHeader = [src |-> f.src, seq |-> f.seq]]
           m == Out(c, "PDELAY_RESP", f.seq, f.src)
<1>1. CASE Ignore(c)
  BY <1>1, SameWorked, IgnoreResult
<1>2. CASE /\ c.portState \in {"SLAVE", "MASTER", "PASSIVE"}
           /\ Reply(d, m, IF TwoStep THEN "pdelayFollowUp" ELSE AfterHandle)
  <2>1. m.type = "PDELAY_RESP" /\ m.req = f.src /\ m.seq = f.seq
    BY DEF Out
  <2>2. /\ Worked(d, c, f)
        /\ d.portState = c.portState
        /\ d.PdelayReqHeader = [src |-> f.src, seq |-> f.seq]
    BY DEF Worked, PtpClock, Table, Cursor, State, Syncs, Requests
  <2>3. ptpClock' = d /\ tx' = m /\ pc' \in {"pdelayFollowUp", AfterHandle}
    BY <1>2 DEF Reply, GoTo
  <2> HIDE DEF d, m
  <2> QED BY <1>2, <2>1, <2>2, <2>3 DEF Result, Answered
<1> QED BY <1>1, <1>2 DEF handlePDelayReq

LEMMA PDelayRespResult ==
    ASSUME NEW c \in PtpClock, NEW f \in Frame, tx = NoFrame, handlePDelayResp(c, f)
    PROVE  Result(c, f)
<1> DEFINE d == IF PDelayRespAccepted(c, f)
                THEN [c EXCEPT !.pdelay_resp_receive_time = [src |-> f.src, seq |-> f.seq],
                               !.recvPDelayRespSequenceId = f.seq]
                ELSE c
<1>1. Ignore(d)
  BY DEF handlePDelayResp
<1>2. Worked(d, c, f)
  BY DEF Worked, PtpClock, Table, Cursor, State, Syncs, Requests
<1> HIDE DEF d
<1> QED BY <1>1, <1>2, IgnoreResult

LEMMA PDelayRespFollowUpResult ==
    ASSUME NEW c \in PtpClock, NEW f \in Frame, tx = NoFrame, handlePDelayRespFollowUp(c, f)
    PROVE  Result(c, f)
<1> DEFINE d == IF PDelayFollowUpAccepted(c, f)
                THEN [c EXCEPT !.pdelay_resp_send_time = [src |-> f.src, seq |-> f.seq]]
                ELSE c
<1>1. Ignore(d)
  BY DEF handlePDelayRespFollowUp
<1>2. Worked(d, c, f)
  BY DEF Worked, PtpClock, Table, Cursor, State, Syncs, Requests
<1> HIDE DEF d
<1> QED BY <1>1, <1>2, IgnoreResult

LEMMA ToFaultyResult ==
    ASSUME NEW c \in PtpClock, NEW f, f.form \in {"runt", "short"}, tx = NoFrame, ToFaulty(c)
    PROVE  Result(c, f)
<1>1. ptpClock' = toState(c, "FAULTY") /\ pc' = AfterHandle /\ tx' = NoFrame
  BY DEF ToFaulty, Update, GoTo
<1> QED BY <1>1, FaultyData DEF Result, Failed, Answered

\* handle() does to the data sets what one of its handlers does.
LEMMA DispatchResult ==
    ASSUME NEW c \in PtpClock, NEW f \in Frame, tx = NoFrame,
           RecordsOK(c), ParentOK(c), ~c.record_update, Dispatch(c, f)
    PROVE  Result(c, f)
<1>1. CASE Ignore(c)
  BY <1>1, SameWorked, IgnoreResult
<1>2. CASE f.form \in {"runt", "short"} /\ ToFaulty(c)
  BY <1>2, ToFaultyResult
<1>3. CASE f.type = "ANNOUNCE" /\ handleAnnounce(c, f)
  BY <1>3, AnnounceResult
<1>4. CASE f.type = "SYNC" /\ handleSync(c, f)
  BY <1>4, SyncResult
<1>5. CASE f.type = "DELAY_RESP" /\ handleDelayResp(c, f)
  BY <1>5, DelayRespResult
<1>6. CASE handleFollowUp(c, f) \/ handleDelayReq(c, f)
  BY <1>6, FollowUpResult, DelayReqResult
<1>7. CASE handlePDelayReq(c, f) \/ handlePDelayResp(c, f) \/ handlePDelayRespFollowUp(c, f)
  BY <1>7, PDelayReqResult, PDelayRespResult, PDelayRespFollowUpResult
<1> QED BY <1>1, <1>2, <1>3, <1>4, <1>5, <1>6, <1>7, Zenon DEF Dispatch

-----------------------------------------------------------------------------
(* The steps that leave the data sets alone *)

\* What these steps need of messages and of data sets that are the same.
LEMMA OutType ==
    ASSUME NEW c, NEW type, NEW seq, NEW req
    PROVE  /\ Out(c, type, seq, req).type = type
           /\ Out(c, type, seq, req).req = req
           /\ Out(c, type, seq, req).seq = seq
BY DEF Out

LEMMA SameData ==
    ASSUME NEW c, NEW d, d = c
    PROVE  Quiet(d, c) /\ Waits(d, c)
BY DEF Quiet, Table, Cursor, Syncs, Activity, State, Header, Waits, Requests

LEMMA NoFrameType == NoFrame.type = "NONE"
BY DEF NoFrame

\* One lemma for each step that only moves the thread.
LEMMA BranchesControl == PassInv /\ (SlaveBranch \/ MasterBranch) => ControlOK'
<1> SUFFICES ASSUME PassInv, SlaveBranch \/ MasterBranch PROVE ControlOK'
  OBVIOUS
<1>1. tx' = tx
  BY DEF SlaveBranch, MasterBranch
<1> QED BY <1>1 DEF PassInv, ControlOK, SlaveBranch, MasterBranch, At, GoTo, BranchOK, RoleOK,
     DecisionOK, YieldOK, RereadOK, AnswerOK, Mastering, BeforeHandling, MasterPlaces, SlavePlaces,
     Running, Fresh

LEMMA netSelectControl == PassInv /\ netSelect => ControlOK'
BY DEF PassInv, IInv, InputOK, ControlOK, netSelect, At, GoTo, AfterHandle, BranchOK, RoleOK,
   DecisionOK, YieldOK, RereadOK, AnswerOK, Mastering, BeforeHandling, MasterPlaces, SlavePlaces,
   Running, Fresh

LEMMA netRecvControl == PassInv /\ netRecv => ControlOK'
BY DEF PassInv, IInv, InputOK, ControlOK, netRecv, At, GoTo, BranchOK, RoleOK,
   DecisionOK, YieldOK, RereadOK, AnswerOK, Mastering, BeforeHandling, MasterPlaces, SlavePlaces,
   Running, Fresh

LEMMA issuePDelayRespFollowUpControl == PassInv /\ issuePDelayRespFollowUp => ControlOK'
<1> SUFFICES ASSUME PassInv, issuePDelayRespFollowUp PROVE ControlOK'
  OBVIOUS
<1>1. AnswerOK'
  <2> DEFINE m == Out(ptpClock, "PDELAY_RESP_FOLLOW_UP",
                      ptpClock.PdelayReqHeader.seq, ptpClock.PdelayReqHeader.src)
  <2>1. (tx' = m \/ tx' = NoFrame) /\ ptpClock' = ptpClock
    BY Zenon DEF issuePDelayRespFollowUp
  <2>2. m.req = ptpClock.PdelayReqHeader.src /\ m.seq = ptpClock.PdelayReqHeader.seq
    BY OutType
  <2>3. ptpClock.PdelayReqHeader = [src |-> ptpClock.PdelayReqHeader.src,
                                    seq |-> ptpClock.PdelayReqHeader.seq]
    BY PortFacts DEF PassInv, PtpClock, Stamp
  <2> HIDE DEF m
  <2> QED BY <2>1, <2>2, <2>3, NoFrameType DEF AnswerOK
<1> QED BY <1>1 DEF PassInv, IInv, InputOK, ControlOK, issuePDelayRespFollowUp, At, GoTo, AfterHandle,
     BranchOK, RoleOK, DecisionOK, YieldOK, RereadOK, Mastering, BeforeHandling, MasterPlaces,
     SlavePlaces, Running, Fresh

\* A master's steps before it polls.
LEMMA MasteringControl ==
    ASSUME PassInv, Mastering, Quiet(ptpClock', ptpClock), branch' = branch, rx' = rx,
           tx'.type \notin {"PDELAY_RESP", "PDELAY_RESP_FOLLOW_UP"},
           Mastering' \/ pc' = "poll", pc' \in MasterPlaces \cup {"requestSent", "poll"}
    PROVE  ControlOK'
BY DEF PassInv, ControlOK, Quiet, Table, Activity, State, BranchOK, RoleOK, DecisionOK, YieldOK,
   RereadOK, AnswerOK, Mastering, BeforeHandling, MasterPlaces, SlavePlaces, Running, Fresh

\* A slave's steps after it has handled its frame.
LEMMA SlavingControl ==
    ASSUME PassInv, branch = "slave", pc \in {"request", "requestSent"},
           Quiet(ptpClock', ptpClock), branch' = branch, rx' = rx,
           tx'.type \notin {"PDELAY_RESP", "PDELAY_RESP_FOLLOW_UP"}, pc' \in {"requestSent", "top"}
    PROVE  ControlOK'
BY DEF PassInv, ControlOK, Quiet, Table, Activity, State, BranchOK, RoleOK, DecisionOK, YieldOK,
   RereadOK, AnswerOK, Mastering, BeforeHandling, MasterPlaces, SlavePlaces, Running, Fresh

LEMMA MasterSendsControl ==
    ASSUME PassInv, FirstAnnounce \/ issueSync \/ SyncSent \/ issueAnnounce
    PROVE  ControlOK' /\ Quiet(ptpClock', ptpClock) /\ Waits(ptpClock', ptpClock)
<1>1. Quiet(ptpClock', ptpClock) /\ Waits(ptpClock', ptpClock)
  <2>1. \/ ptpClock' = ptpClock
        \/ ptpClock' = [ptpClock EXCEPT !.master_has_sent_announce = TRUE]
        \/ ptpClock' = [ptpClock EXCEPT !.sentSyncSequenceId = NextId(@)]
    BY Zenon DEF FirstAnnounce, issueSync, SyncSent, issueAnnounce
  <2> QED BY <2>1, PortFacts DEF PassInv, PtpClock, Quiet, Table, Cursor, Syncs, Activity, State,
                                 Header, Waits, Requests
<1>2. tx'.type \notin {"PDELAY_RESP", "PDELAY_RESP_FOLLOW_UP"}
  <2>1. \/ tx' = NoFrame
        \/ tx' = Out(ptpClock, "ANNOUNCE", 0, ZeroPort)
        \/ tx' = Out(ptpClock, "SYNC", ptpClock.sentSyncSequenceId, ZeroPort)
        \/ tx' = Out(ptpClock, "FOLLOW_UP", ptpClock.sentSyncSequenceId, ZeroPort)
    BY Zenon DEF FirstAnnounce, issueSync, SyncSent, issueAnnounce, At
  <2> QED BY <2>1, OutType, NoFrameType
<1>3. pc \in MasterPlaces /\ pc' \in MasterPlaces \cup {"poll"}
  BY DEF FirstAnnounce, issueSync, SyncSent, issueAnnounce, At, GoTo, MasterPlaces
<1>4. branch' = branch /\ rx' = rx
  BY DEF FirstAnnounce, issueSync, SyncSent, issueAnnounce
<1> QED BY <1>1, <1>2, <1>3, <1>4, MasteringControl DEF Mastering

LEMMA RequestControl ==
    ASSUME PassInv, SlaveRequest \/ MasterRequest
    PROVE  ControlOK' /\ Quiet(ptpClock', ptpClock) /\ Waits(ptpClock', ptpClock)
<1>1. ptpClock' = ptpClock /\ branch' = branch /\ rx' = rx
  BY DEF SlaveRequest, MasterRequest, IssueRequest
<1>2. tx'.type \notin {"PDELAY_RESP", "PDELAY_RESP_FOLLOW_UP"}
  BY OutType, NoFrameType DEF SlaveRequest, MasterRequest, IssueRequest, At
<1>3. Quiet(ptpClock', ptpClock) /\ Waits(ptpClock', ptpClock)
  BY <1>1, SameData
<1>4. CASE SlaveRequest
  <2>1. pc = "request" /\ branch = "slave" /\ pc' \in {"requestSent", "top"}
    BY <1>4 DEF PassInv, ControlOK, BranchOK, SlavePlaces, SlaveRequest, IssueRequest, At, GoTo
  <2> QED BY <1>1, <1>2, <1>3, <2>1, SlavingControl
<1>5. CASE MasterRequest
  <2>1. pc = "pdelay" /\ branch = "master" /\ pc' \in {"requestSent", "poll"}
    BY <1>5 DEF PassInv, ControlOK, BranchOK, MasterPlaces, MasterRequest, IssueRequest, At, GoTo
  <2> QED BY <1>1, <1>2, <1>3, <2>1, MasteringControl DEF Mastering, MasterPlaces
<1> QED BY <1>4, <1>5

\* The step after a request has been sent.
LEMMA SentControl ==
    ASSUME PassInv, pc = "requestSent", tx' = NoFrame, Quiet(ptpClock', ptpClock),
           branch' = branch, rx' = rx, pc' = AfterRequest
    PROVE  ControlOK'
<1>1. branch \in {"slave", "master"} /\ tx'.type \notin {"PDELAY_RESP", "PDELAY_RESP_FOLLOW_UP"}
  BY NoFrameType DEF PassInv, IInv, InputOK
<1>2. CASE branch = "slave"
  BY <1>1, <1>2, SlavingControl DEF AfterRequest
<1>3. CASE branch = "master"
  BY <1>1, <1>3, MasteringControl DEF AfterRequest, Mastering
<1> QED BY <1>1, <1>2, <1>3

LEMMA PDelayReqSentControl ==
    ASSUME PassInv, PDelayReqSent
    PROVE  ControlOK' /\ Quiet(ptpClock', ptpClock) /\ Waits(ptpClock', ptpClock)
<1>1. Quiet(ptpClock', ptpClock) /\ Waits(ptpClock', ptpClock)
  BY PortFacts DEF PDelayReqSent, PassInv, PtpClock, Quiet, Table, Cursor, Syncs, Activity, State,
     Header, Waits, Requests
<1> QED BY <1>1, SentControl DEF PDelayReqSent, At, GoTo

LEMMA EnvironmentControl == PassInv /\ Environment => ControlOK'
<1> SUFFICES ASSUME PassInv, Environment PROVE ControlOK'
  OBVIOUS
<1>1. pc' = pc /\ branch' = branch /\ ptpClock' = ptpClock /\ tx' \in {tx, NoFrame}
  BY DEF Environment, Tick, Transmit, Arrive
<1>2. Fresh => Fresh'
  BY DEF Environment, Tick, Transmit, Arrive, Fresh
<1>3. AnswerOK'
  BY <1>1, NoFrameType DEF PassInv, ControlOK, AnswerOK
<1> QED BY <1>1, <1>2, <1>3 DEF PassInv, ControlOK, BranchOK, RoleOK, DecisionOK, YieldOK, RereadOK,
     Mastering, BeforeHandling

-----------------------------------------------------------------------------
(* The steps that change the data sets *)

\* One lemma for each of these steps: PassInv holds after it.
LEMMA FaultClearedPass ==
    ASSUME PassInv, FaultCleared
    PROVE  /\ ControlOK' /\ DataOK(ptpClock')
           /\ Cursor(ptpClock', ptpClock) /\ ptpClock'.portState = "INITIALIZING"
<1>1. /\ Table(ptpClock', ptpClock) /\ Cursor(ptpClock', ptpClock) /\ Waits(ptpClock', ptpClock)
      /\ ptpClock'.portState = "INITIALIZING"
  BY PortFacts, ToStateData DEF PassInv, FaultCleared, PortStates
<1>2. pc = "switch" /\ pc' = "top" /\ tx' = NoFrame
  BY DEF FaultCleared, At, GoTo
<1>3. ControlOK'
  BY <1>1, <1>2, NoFrameType DEF PassInv, Table, ControlOK, BranchOK, RoleOK, DecisionOK, YieldOK,
     RereadOK, AnswerOK, Mastering, BeforeHandling, MasterPlaces, SlavePlaces
<1>4. DataOK(ptpClock')
  BY <1>1 DEF PassInv, DataOK, RecordsOK, ParentOK, FollowOK, RespOK, Table, Waits, Syncs, Requests
<1> QED BY <1>1, <1>3, <1>4

LEMMA doInitPass ==
    ASSUME PassInv, doInit
    PROVE  /\ ControlOK' /\ DataOK(ptpClock')
           /\ ptpClock'.portState = "LISTENING" /\ ptpClock'.grandmaster.gm = Self
<1> DEFINE c == [ptpClock EXCEPT !.number_foreign_records = 0,
                                 !.delayReqTicks = InitialDelayReqTicks]
<1>1. /\ c \in PtpClock /\ c.record_update = ptpClock.record_update
      /\ c.foreign = ptpClock.foreign /\ Syncs(c, ptpClock) /\ Requests(c, ptpClock)
      /\ c.waitingForFollow = ptpClock.waitingForFollow
  <2>1. 0 \in 0..MaxForeign /\ InitialDelayReqTicks \in Nat \ {0}
    BY BmcAssumption, ProtocolAssumption, IntMaxAssumption
  <2> QED BY <2>1, PortFacts DEF PassInv, PtpClock, Syncs, Requests
<1>2. ptpClock' = toState(m1(c), "LISTENING")
  BY DEF doInit
<1> HIDE DEF c
<1> DEFINE d == m1(c)
<1>3. d \in PtpClock /\ Table(d, c) /\ Syncs(d, c) /\ Requests(d, c) /\ d.grandmaster.gm = Self
  BY <1>1, M1OK, M1Data
<1>4. ptpClock' = toState(d, "LISTENING") /\ "LISTENING" \in PortStates
  BY <1>2 DEF PortStates
<1> HIDE DEF d
<1>5. /\ Table(ptpClock', d) /\ Cursor(ptpClock', d) /\ Waits(ptpClock', d)
      /\ ptpClock'.portState = "LISTENING"
  BY <1>3, <1>4, ToStateData
<1>6. pc = "top" /\ pc' = "top" /\ tx' = NoFrame /\ rx' = rx
  BY DEF doInit, At
<1>7. ptpClock'.record_update = ptpClock.record_update /\ ptpClock'.foreign = ptpClock.foreign
  BY <1>1, <1>3, <1>5 DEF Table
<1>8. ControlOK'
  BY <1>5, <1>6, <1>7, NoFrameType DEF PassInv, ControlOK, BranchOK, RoleOK, DecisionOK, YieldOK,
     RereadOK, AnswerOK, Mastering, BeforeHandling, MasterPlaces, SlavePlaces, Fresh
<1>9. DataOK(ptpClock')
  BY <1>1, <1>3, <1>5, <1>7 DEF PassInv, DataOK, RecordsOK, ParentOK, FollowOK, RespOK, Waits, Syncs,
     Requests
<1> QED BY <1>3, <1>5, <1>8, <1>9 DEF Cursor

LEMMA MasterEndPass ==
    ASSUME PassInv, MasterEnd
    PROVE  /\ ControlOK' /\ DataOK(ptpClock')
           /\ \/ ptpClock' = ptpClock
              \/ ptpClock'.portState = "LISTENING" /\ Cursor(ptpClock', ptpClock)
<1>1. pc = "end" /\ pc' = "top" /\ tx' = NoFrame /\ rx' = rx
  BY DEF MasterEnd, At, GoTo
<1>2. CASE OnlyAsSlave
  <2>1. /\ Table(ptpClock', ptpClock) /\ Cursor(ptpClock', ptpClock) /\ Waits(ptpClock', ptpClock)
        /\ ptpClock'.portState = "LISTENING"
    BY <1>2, PortFacts, ToStateData DEF PassInv, MasterEnd, PortStates
  <2>2. ControlOK'
    BY <1>1, <2>1, NoFrameType DEF PassInv, Table, ControlOK, BranchOK, RoleOK, DecisionOK, YieldOK,
       RereadOK, AnswerOK, Mastering, BeforeHandling, MasterPlaces, SlavePlaces, Fresh
  <2>3. DataOK(ptpClock')
    BY <2>1 DEF PassInv, DataOK, RecordsOK, ParentOK, FollowOK, RespOK, Table, Waits, Syncs, Requests
  <2> QED BY <2>1, <2>2, <2>3
<1>3. CASE ~OnlyAsSlave
  <2>1. ptpClock' = ptpClock
    BY <1>3 DEF MasterEnd
  <2>2. ControlOK'
    BY <1>1, <1>3, <2>1, NoFrameType DEF PassInv, ControlOK, BranchOK, RoleOK, DecisionOK, YieldOK,
       RereadOK, AnswerOK, Mastering, BeforeHandling, MasterPlaces, SlavePlaces, Fresh, OnlyAsSlave
  <2> QED BY <2>1, <2>2 DEF PassInv
<1> QED BY <1>2, <1>3

LEMMA TimeoutPass ==
    ASSUME PassInv, AnnounceReceiptTimeout
    PROVE  /\ ControlOK' /\ DataOK(ptpClock')
           /\ \/ ptpClock' = ptpClock
              \/ ptpClock'.portState = "LISTENING" /\ ptpClock'.grandmaster = ptpClock.grandmaster
              \/ ptpClock'.portState = "MASTER" /\ ptpClock'.grandmaster.gm = Self
<1> DEFINE c  == [ptpClock EXCEPT !.number_foreign_records = 0, !.foreign_record_i = 0]
           d  == IF MayBeMaster THEN m1(c) ELSE c
           to == IF MayBeMaster THEN "MASTER" ELSE "LISTENING"
<1>0. pc = "watchdog" /\ pc' = "request" /\ tx' = NoFrame /\ rx' = rx /\ branch' = branch
  BY DEF AnnounceReceiptTimeout, At, GoTo
<1>1. /\ c \in PtpClock /\ c.record_update = ptpClock.record_update
      /\ c.foreign = ptpClock.foreign /\ Syncs(c, ptpClock) /\ Requests(c, ptpClock)
      /\ c.waitingForFollow = ptpClock.waitingForFollow
      /\ c.grandmaster = ptpClock.grandmaster
  <2>1. 0 \in 0..MaxForeign /\ 0 \in 0..(MaxForeign - 1)
    BY BmcAssumption
  <2> QED BY <2>1, PortFacts DEF PassInv, PtpClock, Syncs, Requests
<1>2. ptpClock' = ptpClock \/ ptpClock' = toState(d, to)
  BY Zenon DEF AnnounceReceiptTimeout, c, d, to
<1> HIDE DEF c
<1>3. /\ d \in PtpClock /\ d.record_update = c.record_update /\ d.foreign = c.foreign
      /\ Syncs(d, c) /\ Requests(d, c)
      /\ MayBeMaster => d.grandmaster.gm = Self
      /\ ~MayBeMaster => d.grandmaster = c.grandmaster
  <2>1. CASE MayBeMaster
    BY <1>1, <2>1, M1OK, M1Data DEF Table
  <2>2. CASE ~MayBeMaster
    BY <1>1, <2>2 DEF Syncs, Requests
  <2> QED BY <2>1, <2>2
<1>4. to \in PortStates /\ to # "SLAVE" /\ to # "FAULTY" /\ (OnlyAsSlave => to = "LISTENING")
      /\ (MayBeMaster => to = "MASTER") /\ (~MayBeMaster => to = "LISTENING")
  BY DEF PortStates, MayBeMaster, OnlyAsSlave
<1> HIDE DEF d, to
<1>5. CASE ptpClock' = toState(d, to)
  <2>1. /\ Table(ptpClock', d) /\ Cursor(ptpClock', d) /\ Waits(ptpClock', d)
        /\ ptpClock'.portState = to
    BY <1>3, <1>4, <1>5, ToStateData
  <2>2. ptpClock'.record_update = ptpClock.record_update /\ ptpClock'.foreign = ptpClock.foreign
    BY <1>1, <1>3, <2>1 DEF Table
  <2>3. ControlOK'
    BY <1>0, <1>4, <2>1, <2>2, NoFrameType DEF PassInv, ControlOK, BranchOK, RoleOK, DecisionOK,
       YieldOK, RereadOK, AnswerOK, Mastering, BeforeHandling, MasterPlaces, SlavePlaces, Fresh,
       OnlyAsSlave
  <2>4. DataOK(ptpClock')
    BY <1>1, <1>3, <1>4, <2>1, <2>2 DEF PassInv, DataOK, RecordsOK, ParentOK, FollowOK, RespOK,
       Waits, Syncs, Requests
  <2> QED BY <1>1, <1>3, <1>4, <2>1, <2>3, <2>4 DEF Cursor
<1>6. CASE ptpClock' = ptpClock
  <2>1. ControlOK'
    BY <1>0, <1>6, NoFrameType DEF PassInv, ControlOK, BranchOK, RoleOK, DecisionOK,
       YieldOK, RereadOK, AnswerOK, Mastering, BeforeHandling, MasterPlaces, SlavePlaces, Fresh,
       OnlyAsSlave
  <2> QED BY <1>6, <2>1 DEF PassInv
<1> QED BY <1>2, <1>5, <1>6

\* What a pass makes of the decision: none was due, or a slave's and a passive
\* port's new parent is the sender of a record.
Decided(d, c) ==
    /\ c.portState \notin {"INITIALIZING", "FAULTY"}
    /\ c.record_update
    /\ d.portState \in Running \cup {"FAULTY"}
    /\ d.portState \in {"LISTENING", "FAULTY"} => d.grandmaster = c.grandmaster
    /\ d.portState = "MASTER" => d.grandmaster.gm = Self
    /\ d.portState \in {"SLAVE", "PASSIVE"} => d.grandmaster.gm \in Nat

LEMMA StateDecisionPass ==
    ASSUME PassInv, StateDecision
    PROVE  /\ ControlOK' /\ DataOK(ptpClock')
           /\ \/ State(ptpClock', ptpClock) /\ Cursor(ptpClock', ptpClock)
              \/ Decided(ptpClock', ptpClock)
<1> DEFINE c == [ptpClock EXCEPT !.message_activity = FALSE]
           e == [c EXCEPT !.record_update = FALSE]
           d == bmcExec(e)
<1>0. /\ pc = "top" /\ pc' = "switch" /\ tx' = NoFrame /\ rx' = rx
      /\ ptpClock.portState # "INITIALIZING"
  BY DEF StateDecision, At, GoTo
<1>1. /\ Table(c, ptpClock) /\ Cursor(c, ptpClock) /\ State(c, ptpClock)
      /\ Syncs(c, ptpClock) /\ Requests(c, ptpClock) /\ ~c.message_activity
  BY PortFacts DEF PassInv, PtpClock, Table, Cursor, State, Syncs, Requests
<1>2. /\ e \in PtpClock /\ ~e.record_update /\ e.foreign = ptpClock.foreign
      /\ e.grandmaster = ptpClock.grandmaster /\ State(e, ptpClock)
      /\ Syncs(e, ptpClock) /\ Requests(e, ptpClock) /\ ~e.message_activity
  BY PortFacts DEF PassInv, PtpClock, State, Syncs, Requests
<1> HIDE DEF c, e
<1>3. /\ Table(d.clk, e) /\ Syncs(d.clk, e) /\ Requests(d.clk, e) /\ Activity(d.clk, e)
      /\ d.state \in Running \cup {"FAULTY"}
      /\ d.state \in {"LISTENING", "FAULTY"} => d.clk.grandmaster = e.grandmaster
      /\ d.state = "MASTER" => d.clk.grandmaster.gm = Self
      /\ d.state \in {"SLAVE", "PASSIVE"} =>
           /\ d.clk.foreign_record_best \in 0..(MaxForeign - 1)
           /\ d.clk.parentPortIdentity = e.foreign[d.clk.foreign_record_best].src
           /\ d.clk.grandmaster.gm \in Nat
      /\ d.clk \in PtpClock /\ d.clk.portState = e.portState /\ d.state \in PortStates
  BY <1>2, BmcExecData, BmcExecOK
<1> HIDE DEF d
<1>4. ptpClock.record_update => Fresh /\ ptpClock.portState # "FAULTY"
  BY DEF PassInv, ControlOK, DecisionOK, RereadOK
<1>5. \/ ~ptpClock.record_update /\ ptpClock' = c
      \/ ptpClock.record_update /\ d.state = c.portState /\ ptpClock' = d.clk
      \/ ptpClock.record_update /\ ptpClock' = toState(d.clk, d.state)
  <2>1. c.record_update = ptpClock.record_update /\ c.portState = ptpClock.portState
    BY <1>1 DEF Table, State
  <2> QED BY <1>4, <2>1, Zenon DEF StateDecision, c, d, e
<1>6. ASSUME ~ptpClock'.record_update, ptpClock'.message_activity => Fresh
      PROVE  ControlOK'
  BY <1>0, <1>6, NoFrameType DEF BranchOK, RoleOK, DecisionOK, YieldOK, RereadOK, AnswerOK, ControlOK,
     Mastering, BeforeHandling, MasterPlaces, SlavePlaces, Fresh
<1>7. CASE ~ptpClock.record_update /\ ptpClock' = c
  <2>1. DataOK(ptpClock')
    BY <1>1, <1>7 DEF PassInv, DataOK, RecordsOK, ParentOK, FollowOK, RespOK, Table, Cursor, State,
       Syncs, Requests
  <2> QED BY <1>1, <1>6, <1>7, <2>1 DEF Table
<1>8. CASE ptpClock.record_update /\ d.state = c.portState /\ ptpClock' = d.clk
  <2>1. ~ptpClock'.record_update /\ ~ptpClock'.message_activity /\ ptpClock'.foreign = ptpClock.foreign
    BY <1>2, <1>3, <1>8 DEF Table, Activity
  <2>2. ptpClock'.portState = d.state
    BY <1>1, <1>2, <1>3, <1>8 DEF State
  <2>3. DataOK(ptpClock')
    BY <1>2, <1>3, <1>8, <2>1, <2>2 DEF PassInv, DataOK, RecordsOK, ParentOK, FollowOK, RespOK,
       Syncs, Requests
  <2>4. Decided(ptpClock', ptpClock)
    BY <1>0, <1>2, <1>3, <1>4, <1>8, <2>2 DEF Decided
  <2> QED BY <1>6, <2>1, <2>3, <2>4
<1>9. CASE ptpClock.record_update /\ ptpClock' = toState(d.clk, d.state)
  <2>1. /\ Table(ptpClock', d.clk) /\ Cursor(ptpClock', d.clk) /\ Waits(ptpClock', d.clk)
        /\ ptpClock'.portState = d.state
    BY <1>3, <1>9, ToStateData
  <2>2. ~ptpClock'.record_update /\ ptpClock'.foreign = ptpClock.foreign
    BY <1>2, <1>3, <2>1 DEF Table
  <2>3. RecordsOK(ptpClock') /\ ParentOK(ptpClock')
    BY <1>2, <1>3, <2>1, <2>2 DEF PassInv, DataOK, RecordsOK, ParentOK, Cursor
  <2>4. FollowOK(ptpClock') /\ RespOK(ptpClock')
    BY <1>2, <1>3, <2>1 DEF PassInv, DataOK, FollowOK, RespOK, Waits, Syncs, Requests
  <2>5. Decided(ptpClock', ptpClock)
    BY <1>0, <1>2, <1>3, <1>4, <1>9, <2>1 DEF Decided, Cursor
  <2> QED BY <1>4, <1>6, <1>9, <2>2, <2>3, <2>4, <2>5 DEF DataOK
<1> QED BY <1>5, <1>7, <1>8, <1>9

\* What a pass knows after handle(), whatever the frame was.
LEMMA handleFacts ==
    ASSUME PassInv, handle, rx.frame # NoFrame
    PROVE  \E c \in PtpClock :
             /\ Result(c, rx.frame)
             /\ Table(c, ptpClock) /\ Cursor(c, ptpClock) /\ State(c, ptpClock)
             /\ Syncs(c, ptpClock) /\ Requests(c, ptpClock)
<1> DEFINE c == [ptpClock EXCEPT !.message_activity = TRUE]
<1>1. /\ c \in PtpClock /\ Table(c, ptpClock) /\ Cursor(c, ptpClock) /\ State(c, ptpClock)
      /\ Syncs(c, ptpClock) /\ Requests(c, ptpClock)
  BY PortFacts DEF PassInv, PtpClock, Table, Cursor, State, Syncs, Requests
<1> HIDE DEF c
<1>2. Dispatch(c, rx.frame)
  BY Zenon DEF handle, c
<1>3. tx = NoFrame /\ pc = "burst"
  BY DEF handle, At
<1>4. rx.frame \in Frame
  BY ProtocolAssumption DEF PassInv, IInv, InputOK
<1>5. RecordsOK(c) /\ ParentOK(c) /\ ~c.record_update
  BY <1>1, <1>3 DEF PassInv, DataOK, ControlOK, DecisionOK, BeforeHandling, RecordsOK, ParentOK, Table,
     Cursor, State
<1>6. Result(c, rx.frame)
  BY <1>1, <1>2, <1>3, <1>4, <1>5, DispatchResult
<1> QED BY <1>1, <1>6

LEMMA handlePass ==
    ASSUME PassInv, handle
    PROVE  ControlOK' /\ DataOK(ptpClock')
<1>0. /\ pc = "burst" /\ tx = NoFrame /\ branch' = branch /\ rx' = rx
      /\ branch \in {"slave", "master"}
  BY DEF handle, At, PassInv, IInv, InputOK
<1>1. CASE rx.frame = NoFrame
  <2>1. ptpClock' = ptpClock /\ tx' = tx /\ pc' = AfterHandle
    BY <1>1 DEF handle, Ignore, GoTo
  <2>2. ControlOK'
    BY <1>0, <2>1, NoFrameType DEF PassInv, ControlOK, BranchOK, RoleOK, DecisionOK, YieldOK, RereadOK,
       AnswerOK, Mastering, BeforeHandling, MasterPlaces, SlavePlaces, Fresh, AfterHandle
  <2> QED BY <2>1, <2>2 DEF PassInv
<1>2. CASE rx.frame # NoFrame
  <2> DEFINE f == rx.frame
  <2>1. PICK c \in PtpClock :
             /\ Result(c, f)
             /\ Table(c, ptpClock) /\ Cursor(c, ptpClock) /\ State(c, ptpClock)
             /\ Syncs(c, ptpClock) /\ Requests(c, ptpClock)
    BY <1>2, handleFacts
  <2>2. ~ptpClock.record_update /\ ptpClock.portState \in Running
    BY <1>0 DEF PassInv, ControlOK, DecisionOK, BeforeHandling, RoleOK
  <2>3. ~c.record_update /\ c.portState = ptpClock.portState
    BY <2>1, <2>2 DEF Table, State
  <2>4. ptpClock'.record_update => f.type = "ANNOUNCE" /\ ptpClock'.portState = c.portState
    BY <2>1, <2>3 DEF Result, Announced, Failed, Worked, Table, State
  <2>5. ptpClock'.portState = "MASTER" => c.portState = "MASTER"
    BY <2>1 DEF Result, Announced, Failed, Worked, State
  <2>6. /\ pc' \in {AfterHandle, "pdelayFollowUp"}
        /\ pc' = "pdelayFollowUp" => ptpClock'.portState \in {"SLAVE", "PASSIVE", "MASTER"}
    BY <2>1 DEF Result, AfterHandle
  <2>7. BranchOK' /\ RoleOK'
    BY <1>0, <2>6 DEF BranchOK, RoleOK, Mastering, MasterPlaces, SlavePlaces, AfterHandle
  <2>8. DecisionOK' /\ RereadOK'
    BY <1>0, <2>2, <2>3, <2>4, <2>6 DEF DecisionOK, RereadOK, BeforeHandling, Mastering, MasterPlaces,
       Fresh, AfterHandle, Running
  <2>9. YieldOK'
    BY <1>0, <2>3, <2>5, <2>6 DEF PassInv, ControlOK, YieldOK, SlavePlaces, AfterHandle, OnlyAsSlave
  <2>10. AnswerOK'
    BY <2>1, NoFrameType DEF Result, Answered, AnswerOK
  <2>11. RecordsOK(ptpClock') /\ ParentOK(ptpClock')
    BY <2>1, <2>3 DEF Result, Announced, Failed, Worked, PassInv, DataOK, RecordsOK, ParentOK, Table,
       Cursor, State
  <2>12. FollowOK(ptpClock')
    BY <2>1 DEF Result, Announced, Failed, Worked, PassInv, DataOK, FollowOK, Syncs
  <2>13. RespOK(ptpClock')
    BY <2>1 DEF Result, Announced, Failed, Worked, PassInv, DataOK, RespOK, Requests
  <2> QED BY <2>7, <2>8, <2>9, <2>10, <2>11, <2>12, <2>13 DEF ControlOK, DataOK
<1> QED BY <1>1, <1>2

LEMMA DelayReqSentPass ==
    ASSUME PassInv, DelayReqSent
    PROVE  ControlOK' /\ DataOK(ptpClock') /\ Quiet(ptpClock', ptpClock)
<1>1. PICK match \in TxTimestampMatches :
        ptpClock' =
           [ptpClock EXCEPT
              !.waitingForDelayResp = @ \/ match,
              !.delay_req_send_time =
                IF match THEN [src |-> SelfPort, seq |-> ptpClock.sentDelayReqSequenceId] ELSE @,
              !.sentDelayReqSequenceId = NextId(@)]
  BY DEF DelayReqSent
<1> DEFINE w == ptpClock.waitingForDelayResp \/ match
           t == IF match THEN [src |-> SelfPort, seq |-> ptpClock.sentDelayReqSequenceId]
                ELSE ptpClock.delay_req_send_time
           n == NextId(ptpClock.sentDelayReqSequenceId)
           d == [ptpClock EXCEPT !.waitingForDelayResp = w, !.delay_req_send_time = t,
                                 !.sentDelayReqSequenceId = n]
<1>2. ptpClock' = d
  BY <1>1, Zenon
<1>3. ~TxTimestampMayMiss => t = [src |-> SelfPort, seq |-> ptpClock.sentDelayReqSequenceId]
  BY DEF TxTimestampMatches
<1>4. ptpClock.sentDelayReqSequenceId \in SequenceIds
  BY PortFacts DEF PassInv, PtpClock
<1> HIDE DEF w, t, n
<1>5. /\ Quiet(d, ptpClock) /\ d.waitingForFollow = ptpClock.waitingForFollow
      /\ d.delay_req_send_time = t /\ d.sentDelayReqSequenceId = n
  BY PortFacts DEF PassInv, PtpClock, Quiet, Table, Cursor, Syncs, Activity, State, Header
<1> HIDE DEF d
<1>6. RecordsOK(d) /\ ParentOK(d) /\ FollowOK(d)
  BY <1>5 DEF PassInv, DataOK, RecordsOK, ParentOK, FollowOK, Quiet, Table, Cursor, State, Syncs
<1>7. RespOK(d)
  BY <1>3, <1>4, <1>5 DEF RespOK, n
<1>8. ControlOK'
  BY <1>2, <1>5, SentControl DEF DelayReqSent, At, GoTo
<1> QED BY <1>2, <1>5, <1>6, <1>7, <1>8 DEF DataOK

-----------------------------------------------------------------------------
(* The theorems *)

\* The three facts of the inductive invariant.
LEMMA PassInit == Init => PassInv
<1> SUFFICES ASSUME Init PROVE PassInv
  OBVIOUS
<1>1. IInv /\ MaxForeign \in Nat
  BY InitOK, BmcAssumption
<1>2. /\ pc = "top" /\ branch = "slave" /\ tx = NoFrame /\ ptpClock = InitialClock
  BY DEF Init
<1>3. /\ InitialClock.portState = "INITIALIZING" /\ InitialClock.record_update = FALSE
      /\ InitialClock.waitingForFollow = FALSE /\ InitialClock.waitingForDelayResp = FALSE
      /\ InitialClock.foreign = [i \in 0..(MaxForeign - 1) |-> ZeroRecord]
  BY DEF InitialClock
<1>4. ControlOK
  BY <1>2, <1>3, NoFrameType DEF ControlOK, BranchOK, RoleOK, DecisionOK, YieldOK, RereadOK, AnswerOK,
     Mastering, BeforeHandling, MasterPlaces, SlavePlaces
<1>5. ZeroRecord.id = ZeroRecord.src
  BY DEF ZeroRecord
<1>6. DataOK(ptpClock)
  BY <1>2, <1>3, <1>5 DEF DataOK, RecordsOK, ParentOK, FollowOK, RespOK
<1> QED BY <1>1, <1>4, <1>6 DEF PassInv

\* The steps that only move the thread.
Moves == SlaveBranch \/ MasterBranch \/ netSelect \/ netRecv \/ issuePDelayRespFollowUp

LEMMA PassNext == PassInv /\ [Next]_vars => PassInv'
<1> SUFFICES ASSUME PassInv, [Next]_vars PROVE ControlOK' /\ DataOK(ptpClock')
  BY NextOK DEF PassInv
<1>1. CASE Moves \/ Environment
  <2>1. ptpClock' = ptpClock
    BY <1>1 DEF Moves, SlaveBranch, MasterBranch, netSelect, netRecv, issuePDelayRespFollowUp,
       Environment, Tick, Transmit, Arrive
  <2> QED BY <1>1, <2>1, BranchesControl, netSelectControl, netRecvControl,
             issuePDelayRespFollowUpControl, EnvironmentControl DEF Moves, PassInv
<1>2. CASE doInit \/ StateDecision \/ FaultCleared \/ AnnounceReceiptTimeout \/ MasterEnd
  BY <1>2, doInitPass, StateDecisionPass, FaultClearedPass, TimeoutPass, MasterEndPass
<1>3. CASE handle \/ DelayReqSent
  BY <1>3, handlePass, DelayReqSentPass
<1>4. CASE \/ FirstAnnounce \/ issueSync \/ SyncSent \/ issueAnnounce
           \/ SlaveRequest \/ MasterRequest \/ PDelayReqSent
  <2>1. ControlOK' /\ Quiet(ptpClock', ptpClock) /\ Waits(ptpClock', ptpClock)
    BY <1>4, MasterSendsControl, RequestControl, PDelayReqSentControl
  <2> QED BY <2>1, QuietData DEF PassInv
<1>5. CASE UNCHANGED vars
  BY <1>5 DEF vars, PassInv, ControlOK, BranchOK, RoleOK, DecisionOK, YieldOK, RereadOK, AnswerOK,
     Mastering, BeforeHandling, Fresh
<1> QED BY <1>1, <1>2, <1>3, <1>4, <1>5
    DEF Next, PortStep, PassStep, ReceiveStep, SlaveStep, MasterStep, Moves

LEMMA PassInvariant == Spec => []PassInv
<1>1. PassInv /\ [Next]_vars => PassInv'
  BY PassNext
<1> QED BY <1>1, PassInit, PTL DEF Spec

\* The record that handleAnnounce refreshes for a slave is its parent's, for any
\* table size: bmcExec sets foreign_record_best and parentPortIdentity together,
\* and no step moves one of them until the next decision is due.
THEOREM SlaveFollowsItsRecord == Spec => []SlaveRecordIsParent
<1>1. PassInv => SlaveRecordIsParent
  <2> SUFFICES ASSUME PassInv PROVE SlaveRecordIsParent
    OBVIOUS
  <2>1. ptpClock.foreign_record_best \in 0..(MaxForeign - 1)
    BY PortFacts DEF PassInv, PtpClock
  <2> QED BY <2>1 DEF PassInv, DataOK, RecordsOK, ParentOK, SlaveRecordIsParent
<1> QED BY <1>1, PassInvariant, PTL

\* A port of the slave-only class that bmcExec made a master gives that up before
\* doState returns, whatever it hears and misses in that pass.
THEOREM SlaveOnlyClassYields == Spec => []SlaveClassYields
<1>1. PassInv => SlaveClassYields
  BY DEF PassInv, ControlOK, YieldOK, SlaveClassYields
<1> QED BY <1>1, PassInvariant, PTL

\* How often the message in the buffer is still due, from its flag and the place
\* of the thread: a message under "recv" is unread, since handle() fetches
\* without polling only after a decision that an Announce called for.
DueOK ==
    /\ due = IF ~Countable(rx.frame) THEN 0
             ELSE (IF rx.ready THEN 1 ELSE 0) + (IF pc = "burst" THEN 1 ELSE 0)
    /\ pc = "recv" /\ Countable(rx.frame) => rx.ready

HistoryInv == PassInv /\ DueOK

\* The history restricts nothing: its steps are those of the port.
LEMMA HistoryStep == [HistoryNext]_historyVars => [Next]_vars
BY DEF HistoryNext, Handling, Uncounted, Received, historyVars, Next, PortStep, ReceiveStep,
   Environment

LEMMA HandlingMoves ==
    ASSUME PassInv, handle PROVE pc = "burst" /\ rx' = rx /\ pc' \notin {"recv", "burst"}
<1>1. /\ pc = "burst" /\ tx = NoFrame /\ rx' = rx
  BY DEF handle, At
<1>2. CASE rx.frame = NoFrame
  BY <1>1, <1>2 DEF handle, Ignore, GoTo, AfterHandle
<1>3. CASE rx.frame # NoFrame
  <2>1. PICK c \in PtpClock : Result(c, rx.frame)
    BY <1>3, handleFacts
  <2> QED BY <1>1, <2>1 DEF Result, AfterHandle
<1> QED BY <1>2, <1>3

\* No other step of the thread but the polling and the read of the length
\* touches the buffer, or leads to these reads.
LEMMA OthersPass ==
    ASSUME \/ PassStep \/ SlaveStep \/ MasterStep
           \/ issuePDelayRespFollowUp \/ Tick \/ Transmit
    PROVE  rx' = rx /\ (pc' = pc \/ ({pc, pc'} \cap {"recv", "burst"} = {}))
BY DEF PassStep, SlaveStep, MasterStep, doInit, StateDecision, FaultCleared, SlaveBranch,
   MasterBranch, issuePDelayRespFollowUp, AnnounceReceiptTimeout, SlaveRequest, DelayReqSent,
   PDelayReqSent, FirstAnnounce, issueSync, SyncSent, issueAnnounce, MasterRequest, MasterEnd,
   IssueRequest, Tick, Transmit, At, GoTo, AfterHandle, AfterRequest

LEMMA DueNext == HistoryInv /\ [HistoryNext]_historyVars => HistoryInv'
<1> SUFFICES ASSUME HistoryInv, [HistoryNext]_historyVars PROVE DueOK'
  BY HistoryStep, PassNext DEF HistoryInv
<1> USE DEF HistoryInv
<1>1. CASE Handling
  <2>1. pc = "burst" /\ rx' = rx /\ pc' \notin {"recv", "burst"}
    BY <1>1, HandlingMoves DEF Handling
  <2> QED BY <1>1, <2>1 DEF Handling, DueOK
<1>2. CASE netSelect /\ UNCHANGED due
  <2>1. /\ pc = "poll" /\ rx' = rx
        /\ pc' = IF ptpClock.message_activity \/ rx.ready THEN "recv" ELSE AfterHandle
    BY <1>2 DEF netSelect, At, GoTo
  <2>2. ptpClock.message_activity => Fresh
    BY <2>1 DEF PassInv, ControlOK, RereadOK
  <2> QED BY <1>2, <2>1, <2>2 DEF DueOK, Fresh, Countable, AfterHandle
<1>3. CASE netRecv /\ UNCHANGED due
  <2>1. /\ pc = "recv" /\ pc' = "burst"
        /\ rx' = [rx EXCEPT !.ready = FALSE]
    BY <1>3 DEF netRecv, At, GoTo
  <2>2. rx'.frame = rx.frame /\ rx'.ready = FALSE
    BY <2>1 DEF PassInv, IInv, InputOK
  <2> QED BY <1>3, <2>1, <2>2 DEF DueOK
<1>4. CASE \E f \in Frames : Received(f)
  BY <1>4 DEF Received, Arrive, DueOK
<1>5. CASE /\ \/ PassStep \/ SlaveStep \/ MasterStep
              \/ issuePDelayRespFollowUp \/ Tick \/ Transmit
           /\ UNCHANGED due
  BY <1>5, OthersPass DEF DueOK
<1>6. CASE UNCHANGED historyVars
  BY <1>6 DEF historyVars, vars, DueOK
<1> QED BY <1>1, <1>2, <1>3, <1>4, <1>5, <1>6 DEF HistoryNext, Uncounted

LEMMA DueInit == HistoryInit => HistoryInv
<1> SUFFICES ASSUME HistoryInit PROVE HistoryInv
  OBVIOUS
<1>1. PassInv
  BY PassInit DEF HistoryInit
<1>2. DueOK
  BY DEF HistoryInit, Init, DueOK, Countable
<1> QED BY <1>1, <1>2 DEF HistoryInv

\* handle() is given a message other than an Announce once, and a second time only
\* if it arrived between the two reads of its predecessor, for any network and
\* any order of arrivals, state changes and timeouts; and none is passed over.
THEOREM MessagesHandledAsDue == HistorySpec => []HandledAsDue
<1>1. HistoryInv => HandledAsDue
  BY DEF HistoryInv, DueOK, HandledAsDue
<1>2. HistoryInv /\ [HistoryNext]_historyVars => HistoryInv'
  BY DueNext
<1> QED BY <1>1, <1>2, DueInit, PTL DEF HistorySpec

\* The FollowUp of a peer response repeats the header of the request that the
\* response answered, though PdelayReqHeader is kept while the MAC transmits.
THEOREM PeerGetsItsFollowUp == Spec => []PeerFollowUpAnswers
<1>1. PassInv => PeerFollowUpAnswers
  BY DEF PassInv, ControlOK, AnswerOK, PeerFollowUpAnswers
<1> QED BY <1>1, PassInvariant, PTL

\* Only handle() leaves its place.
LEMMA OnlyHandle ==
    ASSUME [Next]_vars, pc = "burst", pc' # pc PROVE handle
BY DEF Next, PortStep, PassStep, ReceiveStep, SlaveStep, MasterStep, Environment, vars, doInit,
   StateDecision, FaultCleared, SlaveBranch, MasterBranch, netSelect, netRecv,
   issuePDelayRespFollowUp, AnnounceReceiptTimeout, SlaveRequest, DelayReqSent, PDelayReqSent,
   FirstAnnounce, issueSync, SyncSent, issueAnnounce, MasterRequest, MasterEnd, Tick, Transmit,
   Arrive, At

\* handleFollowUp ends the wait only with the FollowUp of the Sync whose receive
\* time it combines it with, for any mixture of Syncs and changes of state.
THEOREM FollowUpMeetsItsSync == Spec => FollowUpPaired
<1>1. ASSUME PassInv, [Next]_vars, FollowUpTaken
      PROVE  ptpClock.sync_receive_time.seq = rx.frame.seq
  <2>1. handle /\ rx.frame # NoFrame /\ rx.frame.type = "FOLLOW_UP"
    BY <1>1, OnlyHandle DEF FollowUpTaken, Handled
  <2>2. PICK c \in PtpClock : Result(c, rx.frame) /\ Syncs(c, ptpClock)
    BY <1>1, <2>1, handleFacts
  <2> QED BY <1>1, <2>1, <2>2
      DEF Result, Announced, Failed, Worked, Syncs, FollowUpTaken, PassInv, DataOK, FollowOK
<1>2. PassInv /\ [Next]_vars => [FollowUpTaken => ptpClock.sync_receive_time.seq = rx.frame.seq]_vars
  BY <1>1
<1> QED BY <1>2, PassInvariant, PTL DEF Spec, FollowUpPaired

\* handleDelayResp ends the wait only with the answer to the request whose
\* transmit time is kept, for every modulus of the ids, if no transmit timestamp
\* is missed: a missed one leaves the time of an earlier request.
THEOREM DelayRespMeetsItsRequest ==
    ASSUME ~TxTimestampMayMiss PROVE Spec => DelayRespPaired
<1> DEFINE A == Handled("DELAY_RESP") /\ ptpClock.waitingForDelayResp /\ ~ptpClock'.waitingForDelayResp
                => ptpClock.delay_req_send_time = [src |-> SelfPort, seq |-> rx.frame.seq]
<1>1. ASSUME PassInv, [Next]_vars, Handled("DELAY_RESP"),
             ptpClock.waitingForDelayResp, ~ptpClock'.waitingForDelayResp
      PROVE  ptpClock.delay_req_send_time = [src |-> SelfPort, seq |-> rx.frame.seq]
  <2>1. handle /\ rx.frame # NoFrame /\ rx.frame.type = "DELAY_RESP"
    BY <1>1, OnlyHandle DEF Handled
  <2>2. PICK c \in PtpClock : Result(c, rx.frame) /\ Requests(c, ptpClock)
    BY <1>1, <2>1, handleFacts
  <2>3. ptpClock.sentDelayReqSequenceId - 1 = rx.frame.seq
    BY <1>1, <2>1, <2>2 DEF Result, Announced, Failed, Worked, Requests
  <2> DEFINE t == ptpClock.delay_req_send_time
  <2>4. /\ t.src = SelfPort /\ t.seq \in SequenceIds
        /\ ptpClock.sentDelayReqSequenceId = NextId(t.seq)
    BY <1>1 DEF PassInv, DataOK, RespOK
  <2>5. t = [src |-> t.src, seq |-> t.seq]
    BY <1>1, PortFacts DEF PassInv, PtpClock, Stamp
  <2>6. rx.frame.seq \in SequenceIds
    BY <1>1, <2>1, ProtocolAssumption DEF PassInv, IInv, InputOK, Frame
  <2>7. t.seq = rx.frame.seq
    <3> HIDE DEF t
    <3>1. NextId(t.seq) - 1 = rx.frame.seq
      BY <2>3, <2>4
    <3>2. t.seq \in 0..(SeqMod - 1) /\ rx.frame.seq \in Nat /\ SeqMod \in Nat \ {0}
      BY <2>4, <2>6, ProtocolAssumption DEF SequenceIds
    <3>3. (t.seq + 1) % SeqMod = IF t.seq + 1 = SeqMod THEN 0 ELSE t.seq + 1
      BY <3>2
    <3> QED BY <3>1, <3>2, <3>3 DEF NextId
  <2> QED BY <2>4, <2>5, <2>7
<1>2. PassInv /\ [Next]_vars => [A]_vars
  BY <1>1
<1> QED BY <1>2, PassInvariant, PTL DEF Spec, DelayRespPaired

-----------------------------------------------------------------------------
(* The contract *)

\* No frame is cut short: the one way to end in FAULTY in the middle of a pass.
CompleteFrames == \A f \in Frames : f.form \in {"full", "alien"}

RunningOK == pc \notin {"top", "switch"} => ptpClock.portState \in Running

\* The thread is past the switch only in a running state.
LEMMA RunningNext ==
    ASSUME CompleteFrames, PassInv, RunningOK, [Next]_vars
    PROVE  RunningOK'
<1>1. CASE handle
  <2>1. pc = "burst"
    BY <1>1 DEF handle, At
  <2>2. CASE rx.frame = NoFrame
    BY <1>1, <2>1, <2>2 DEF handle, Ignore, RunningOK
  <2>3. CASE rx.frame # NoFrame
    <3>1. PICK c \in PtpClock : Result(c, rx.frame) /\ State(c, ptpClock)
      BY <1>1, <2>3, handleFacts
    <3>2. rx.frame.form \in {"full", "alien"}
      BY <2>3 DEF PassInv, IInv, InputOK, CompleteFrames
    <3> QED BY <2>1, <3>1, <3>2 DEF RunningOK, Result, Announced, Failed, Worked, State
  <2> QED BY <2>2, <2>3
<1>2. CASE AnnounceReceiptTimeout
  <2>1. pc = "watchdog"
    BY <1>2 DEF AnnounceReceiptTimeout, At
  <2> QED BY <1>2, <2>1, TimeoutPass DEF RunningOK, Running
<1>3. CASE doInit \/ StateDecision \/ FaultCleared \/ MasterEnd
  BY <1>3 DEF doInit, StateDecision, FaultCleared, MasterEnd, At, GoTo, RunningOK
<1>4. CASE \/ DelayReqSent \/ PDelayReqSent \/ SlaveRequest \/ MasterRequest
           \/ FirstAnnounce \/ issueSync \/ SyncSent \/ issueAnnounce
  <2>1. State(ptpClock', ptpClock)
    BY <1>4, DelayReqSentPass, PDelayReqSentControl, RequestControl, MasterSendsControl DEF Quiet
  <2>2. pc \notin {"top", "switch"}
    BY <1>4 DEF DelayReqSent, PDelayReqSent, SlaveRequest, MasterRequest, FirstAnnounce, issueSync,
       SyncSent, issueAnnounce, At
  <2> QED BY <2>1, <2>2 DEF RunningOK, State
<1>5. CASE Moves
  <2>1. ptpClock' = ptpClock
    BY <1>5 DEF Moves, SlaveBranch, MasterBranch, netSelect, netRecv, issuePDelayRespFollowUp
  <2>2. pc \notin {"top", "switch"} \/ ptpClock.portState \in Running
    BY <1>5 DEF Moves, SlaveBranch, MasterBranch, netSelect, netRecv, issuePDelayRespFollowUp, At, Running
  <2> QED BY <2>1, <2>2 DEF RunningOK
<1>6. CASE Environment \/ UNCHANGED vars
  BY <1>6 DEF Environment, Tick, Transmit, Arrive, vars, RunningOK
<1> QED BY <1>1, <1>2, <1>3, <1>4, <1>5, <1>6
    DEF Next, PortStep, PassStep, ReceiveStep, SlaveStep, MasterStep, Moves

\* What the contract sees: a step that changes none of it is a stutter.
Unseen ==
    /\ ptpClock'.portState = ptpClock.portState
    /\ ptpClock'.grandmaster = ptpClock.grandmaster
    /\ tx' = tx

LEMMA UnseenStutters == ASSUME Unseen PROVE [Role!Next]_(Role!roleVars)
BY DEF Unseen, Role!roleVars

\* A step that at most begins to send is one the contract allows.
LEMMA RoleSends ==
    ASSUME PassInv, tx = NoFrame, State(ptpClock', ptpClock), Cursor(ptpClock', ptpClock),
           \/ tx' = NoFrame
           \/ /\ tx'.type \in {"ANNOUNCE", "SYNC", "FOLLOW_UP", "DELAY_RESP"}
              /\ ptpClock.portState = "MASTER"
           \/ /\ tx'.type \in {"PDELAY_RESP", "PDELAY_RESP_FOLLOW_UP"}
              /\ ptpClock.portState \in {"SLAVE", "PASSIVE", "MASTER"}
           \/ tx'.type \in {"DELAY_REQ", "PDELAY_REQ"}
    PROVE  [Role!Next]_(Role!roleVars)
<1>1. ptpClock'.portState = ptpClock.portState /\ ptpClock'.grandmaster = ptpClock.grandmaster
  BY DEF State, Cursor
<1>2. tx.type = "NONE"
  BY NoFrameType
<1>3. ptpClock.portState = "MASTER" => ptpClock.grandmaster.gm = Self
  BY PortFacts DEF PassInv, ClockOK, OwnDataset
<1>4. CASE tx' = NoFrame
  BY <1>1, <1>4, UnseenStutters DEF Unseen
<1>5. CASE tx' # NoFrame
  <2>1. Role!Send
    BY <1>1, <1>2, <1>3, <1>5 DEF Role!Send, Role!MasterMessages, Role!Answers, Role!Requests
  <2> QED BY <2>1 DEF Role!Next
<1> QED BY <1>4, <1>5

\* Every step of the port is one of the contract or a stutter.
LEMMA RoleStep ==
    ASSUME CompleteFrames, PassInv, RunningOK, [Next]_vars
    PROVE  [Role!Next]_(Role!roleVars)
<1> USE DEF Running
<1>0. NoFrame.type = "NONE"
  BY NoFrameType
<1>1. CASE doInit
  <2>1. /\ tx = NoFrame /\ tx' = NoFrame /\ ptpClock.portState = "INITIALIZING"
        /\ ptpClock'.portState = "LISTENING" /\ ptpClock'.grandmaster.gm = Self
    BY <1>1, doInitPass DEF doInit, At
  <2>2. Role!Start
    BY <1>0, <2>1 DEF Role!Start, Role!Quiet
  <2> QED BY <2>2 DEF Role!Next
<1>2. CASE StateDecision
  <2>1. tx = NoFrame /\ tx' = NoFrame
    BY <1>2 DEF StateDecision, At
  <2>2. CASE State(ptpClock', ptpClock) /\ Cursor(ptpClock', ptpClock)
    BY <2>1, <2>2, UnseenStutters DEF Unseen, State, Cursor
  <2>3. CASE Decided(ptpClock', ptpClock)
    <3>1. ptpClock.portState \in Running
      BY <2>3, PortFacts DEF Decided, PassInv, PtpClock, PortStates
    <3>2. Role!Quiet
      BY <1>0, <2>1 DEF Role!Quiet
    <3>3. Role!Follow \/ Role!Lead \/ Role!Listen \/ Role!Fail
      BY <2>3, <3>1, <3>2 DEF Decided, Role!Follow, Role!Lead, Role!Listen, Role!Fail,
         Role!Listening, Role!Following
    <3> QED BY <3>3 DEF Role!Next
  <2> QED BY <1>2, <2>2, <2>3, StateDecisionPass
<1>3. CASE FaultCleared
  <2>1. /\ tx = NoFrame /\ tx' = NoFrame /\ ptpClock.portState = "FAULTY"
        /\ ptpClock'.portState = "INITIALIZING" /\ ptpClock'.grandmaster = ptpClock.grandmaster
    BY <1>3, FaultClearedPass DEF FaultCleared, At, Cursor
  <2>2. Role!Clear
    BY <1>0, <2>1 DEF Role!Clear, Role!Quiet
  <2> QED BY <2>2 DEF Role!Next
<1>4. CASE AnnounceReceiptTimeout
  <2>1. tx = NoFrame /\ tx' = NoFrame /\ pc = "watchdog"
    BY <1>4 DEF AnnounceReceiptTimeout, At
  <2>2. ptpClock.portState \in Running /\ Role!Quiet
    BY <1>0, <2>1 DEF RunningOK, Role!Quiet
  <2>3. CASE ptpClock' = ptpClock
    BY <2>1, <2>3, UnseenStutters DEF Unseen
  <2>4. CASE ptpClock'.portState = "LISTENING" /\ ptpClock'.grandmaster = ptpClock.grandmaster
    <3>1. Role!Listen
      BY <2>2, <2>4 DEF Role!Listen, Role!Listening
    <3> QED BY <3>1 DEF Role!Next
  <2>5. CASE ptpClock'.portState = "MASTER" /\ ptpClock'.grandmaster.gm = Self
    <3>1. Role!Lead
      BY <2>2, <2>5 DEF Role!Lead, Role!Listening
    <3> QED BY <3>1 DEF Role!Next
  <2> QED BY <1>4, <2>3, <2>4, <2>5, TimeoutPass
<1>5. CASE MasterEnd
  <2>1. tx = NoFrame /\ tx' = NoFrame /\ pc = "end"
    BY <1>5 DEF MasterEnd, At
  <2>2. ptpClock.portState \in Running /\ Role!Quiet
    BY <1>0, <2>1 DEF RunningOK, Role!Quiet
  <2>3. CASE ptpClock' = ptpClock
    BY <2>1, <2>3, UnseenStutters DEF Unseen
  <2>4. CASE ptpClock'.portState = "LISTENING" /\ Cursor(ptpClock', ptpClock)
    <3>1. Role!Listen
      BY <2>2, <2>4 DEF Role!Listen, Role!Listening, Cursor
    <3> QED BY <3>1 DEF Role!Next
  <2> QED BY <1>5, <2>3, <2>4, MasterEndPass
<1>6. CASE handle
  <2>1. pc = "burst" /\ tx = NoFrame
    BY <1>6 DEF handle, At
  <2>2. ptpClock.portState \in Running
    BY <2>1 DEF RunningOK
  <2>3. CASE rx.frame = NoFrame
    BY <1>6, <2>3, UnseenStutters DEF handle, Ignore, Unseen
  <2>4. CASE rx.frame # NoFrame
    <3> DEFINE f == rx.frame
    <3>1. PICK c \in PtpClock : /\ Result(c, f)
                               /\ Cursor(c, ptpClock) /\ State(c, ptpClock)
      BY <1>6, <2>4, handleFacts
    <3>2. f.form \in {"full", "alien"}
      BY <2>4 DEF PassInv, IInv, InputOK, CompleteFrames
    <3>3. CASE Announced(ptpClock', c, f) /\ tx' = NoFrame
      <4>1. ptpClock'.portState = ptpClock.portState /\ Role!Quiet
        BY <1>0, <2>1, <3>1, <3>3 DEF Announced, State, Role!Quiet
      <4>2. CASE ptpClock.portState \in {"SLAVE", "PASSIVE"}
        <5>1. Role!Follow
          BY <2>2, <3>1, <3>3, <4>1, <4>2 DEF Announced, State, Role!Follow, Role!Listening,
             Role!Following
        <5> QED BY <5>1 DEF Role!Next
      <4>3. CASE ptpClock.portState \notin {"SLAVE", "PASSIVE"}
        BY <2>1, <3>1, <3>3, <4>1, <4>3, UnseenStutters DEF Announced, State, Cursor, Unseen
      <4> QED BY <4>2, <4>3
    <3>4. CASE Worked(ptpClock', c, f) /\ Answered(ptpClock', tx')
      <4>1. State(ptpClock', ptpClock) /\ Cursor(ptpClock', ptpClock)
        BY <3>1, <3>4 DEF Worked, State, Cursor
      <4> QED BY <2>1, <3>4, <4>1, RoleSends DEF Answered, State
    <3> QED BY <3>1, <3>2, <3>3, <3>4 DEF Result, Failed
  <2> QED BY <2>3, <2>4
<1>7. CASE DelayReqSent \/ PDelayReqSent
  <2>1. Quiet(ptpClock', ptpClock)
    BY <1>7, DelayReqSentPass, PDelayReqSentControl
  <2>2. tx' = tx
    BY <1>7 DEF DelayReqSent, PDelayReqSent
  <2> QED BY <2>1, <2>2, UnseenStutters DEF Quiet, State, Cursor, Unseen
<1>8. CASE SlaveRequest \/ MasterRequest
  <2>1. State(ptpClock', ptpClock) /\ Cursor(ptpClock', ptpClock)
    BY <1>8, RequestControl DEF Quiet
  <2>2. tx = NoFrame
    BY <1>8 DEF SlaveRequest, MasterRequest, At
  <2>3. \/ tx' = NoFrame
        \/ tx' = Out(ptpClock, "DELAY_REQ", ptpClock.sentDelayReqSequenceId, ZeroPort)
        \/ tx' = Out(ptpClock, "PDELAY_REQ", ptpClock.sentPDelayReqSequenceId, ZeroPort)
    BY <1>8, <2>2, Zenon DEF SlaveRequest, MasterRequest, IssueRequest
  <2> QED BY <2>1, <2>2, <2>3, OutType, RoleSends
<1>9. CASE FirstAnnounce \/ issueSync \/ SyncSent \/ issueAnnounce
  <2>1. State(ptpClock', ptpClock) /\ Cursor(ptpClock', ptpClock)
    BY <1>9, MasterSendsControl DEF Quiet
  <2>2. tx = NoFrame /\ pc \in MasterPlaces
    BY <1>9 DEF FirstAnnounce, issueSync, SyncSent, issueAnnounce, At, MasterPlaces
  <2>3. ptpClock.portState = "MASTER"
    BY <2>2 DEF PassInv, ControlOK, RoleOK, Mastering
  <2>4. \/ tx' = NoFrame
        \/ tx' = Out(ptpClock, "ANNOUNCE", 0, ZeroPort)
        \/ tx' = Out(ptpClock, "SYNC", ptpClock.sentSyncSequenceId, ZeroPort)
        \/ tx' = Out(ptpClock, "FOLLOW_UP", ptpClock.sentSyncSequenceId, ZeroPort)
    BY <1>9, <2>2, Zenon DEF FirstAnnounce, issueSync, SyncSent, issueAnnounce
  <2> QED BY <2>1, <2>2, <2>3, <2>4, OutType, RoleSends
<1>10. CASE issuePDelayRespFollowUp
  <2>1. ptpClock' = ptpClock /\ tx = NoFrame /\ pc = "pdelayFollowUp"
    BY <1>10 DEF issuePDelayRespFollowUp, At
  <2>2. ptpClock.portState \in {"SLAVE", "PASSIVE", "MASTER"}
    BY <2>1 DEF PassInv, ControlOK, RoleOK
  <2>3. tx' = NoFrame \/ tx' = Out(ptpClock, "PDELAY_RESP_FOLLOW_UP", ptpClock.PdelayReqHeader.seq,
                                   ptpClock.PdelayReqHeader.src)
    BY <1>10, Zenon DEF issuePDelayRespFollowUp
  <2>4. State(ptpClock', ptpClock) /\ Cursor(ptpClock', ptpClock)
    BY <2>1 DEF State, Cursor
  <2> QED BY <2>1, <2>2, <2>3, <2>4, OutType, RoleSends
<1>11. CASE Transmit
  <2>1. CASE tx.type = "NONE"
    BY <1>0, <1>11, <2>1 DEF Transmit, Role!roleVars
  <2>2. CASE tx.type # "NONE"
    <3>1. Role!Sent
      BY <1>0, <1>11, <2>2 DEF Transmit, Role!Sent
    <3> QED BY <3>1 DEF Role!Next
  <2> QED BY <2>1, <2>2
<1>12. CASE SlaveBranch \/ MasterBranch \/ netSelect \/ netRecv \/ Tick
            \/ (\E f \in Frames : Arrive(f)) \/ UNCHANGED vars
  BY <1>12, UnseenStutters DEF SlaveBranch, MasterBranch, netSelect, netRecv, Tick, Arrive, vars, Unseen
<1> QED BY <1>1, <1>2, <1>3, <1>4, <1>5, <1>6, <1>7, <1>8, <1>9, <1>10, <1>11, <1>12
    DEF Next, PortStep, PassStep, ReceiveStep, SlaveStep, MasterStep, Environment

\* The daemon's port is one the contract PortRole describes, when frames come
\* complete: every step of doState and of its handlers is one of the contract's
\* or leaves all that it speaks of alone.
THEOREM PortImplementsRole ==
    ASSUME CompleteFrames PROVE Spec => RefinesPortRole
<1>1. Init => RunningOK /\ Role!Init
  BY NoFrameType DEF Init, InitialClock, RunningOK, Role!Init
<1>2. PassInv /\ RunningOK /\ [Next]_vars => RunningOK' /\ [Role!Next]_(Role!roleVars)
  BY RunningNext, RoleStep
<1> QED BY <1>1, <1>2, PassInvariant, PTL DEF Spec, RefinesPortRole, Role!Spec

-----------------------------------------------------------------------------
(* The foreign master table *)

\* Nobody but the local port announces the local clock.
OtherGrandmasters == \A f \in Announces : f.src # SelfPort => f.ds.gm # Self

\* Steps that leave the table and its cursors alone.
LEMMA SameTable ==
    ASSUME NEW c, NEW d, TableOK(c), Table(d, c), d.foreign_record_best = c.foreign_record_best,
           d.portState \in Running
    PROVE  TableOK(d)
BY DEF TableOK, Table, Running

\* A table that is emptied is in order whatever its records hold.
LEMMA EmptyTable ==
    ASSUME NEW c, NEW d, TableOK(c), d.foreign = c.foreign, d.number_foreign_records = 0,
           d.foreign_record_i = 0, d.portState \in Running
    PROVE  TableOK(d)
BY BmcAssumption DEF TableOK, Running

\* The decision leaves the best record among those in use.
LEMMA StateDecisionTable ==
    ASSUME PassInv, TableOK(ptpClock), StateDecision
    PROVE  TableOK(ptpClock')
<1> DEFINE c == [ptpClock EXCEPT !.message_activity = FALSE]
           e == [c EXCEPT !.record_update = FALSE]
           d == bmcExec(e)
<1>1. ptpClock.portState \in Running
  BY PortFacts DEF PassInv, PtpClock, PortStates, TableOK, StateDecision, Running
<1>2. c \in PtpClock /\ Table(c, ptpClock) /\ Cursor(c, ptpClock) /\ State(c, ptpClock)
  BY PortFacts DEF PassInv, PtpClock, Table, Cursor, State
<1>3. CASE ptpClock' = c
  BY <1>1, <1>2, <1>3, SameTable DEF Cursor, State
<1>4. CASE ptpClock' # c
  <2>1. /\ e \in PtpClock /\ ~e.record_update /\ State(e, ptpClock)
        /\ e.foreign = ptpClock.foreign /\ e.foreign_record_i = ptpClock.foreign_record_i
        /\ e.number_foreign_records = ptpClock.number_foreign_records
    BY PortFacts DEF PassInv, PtpClock, State
  <2> HIDE DEF c, e
  <2>2. (ptpClock' = d.clk /\ d.state = c.portState) \/ ptpClock' = toState(d.clk, d.state)
    BY <1>4, Zenon DEF StateDecision, c, d, e
  <2>3. /\ d.state # "FAULTY" /\ d.state \in Running \cup {"FAULTY"}
        /\ e.number_foreign_records > 0 => d.clk.foreign_record_best < e.number_foreign_records
        /\ Table(d.clk, e) /\ d.clk \in PtpClock /\ d.state \in PortStates
        /\ d.clk.portState = e.portState
    BY <2>1, BmcExecRanks, BmcExecData, BmcExecOK DEF TableOK
  <2> HIDE DEF d
  <2>4. /\ Table(ptpClock', d.clk) /\ ptpClock'.portState = d.state
        /\ ptpClock'.foreign_record_best = d.clk.foreign_record_best
    <3>1. CASE ptpClock' = d.clk /\ d.state = c.portState
      BY <1>2, <2>1, <2>3, <3>1 DEF Table, State
    <3>2. CASE ptpClock' = toState(d.clk, d.state)
      BY <2>3, <3>2, ToStateData DEF Cursor
    <3> QED BY <2>2, <3>1, <3>2
  <2> QED BY <2>1, <2>3, <2>4 DEF TableOK, Table, Running
<1> QED BY <1>3, <1>4

\* Every step keeps the table in order.
LEMMA TableNext ==
    ASSUME CompleteFrames, OtherGrandmasters, PassInv, RunningOK, TableOK(ptpClock), [Next]_vars
    PROVE  TableOK(ptpClock')
<1>1. CASE doInit
  <2> DEFINE c == [ptpClock EXCEPT !.number_foreign_records = 0,
                                   !.delayReqTicks = InitialDelayReqTicks]
  <2>1. /\ c \in PtpClock /\ c.number_foreign_records = 0 /\ c.foreign = ptpClock.foreign
        /\ c.foreign_record_i = ptpClock.foreign_record_i
    <3>1. 0 \in 0..MaxForeign /\ InitialDelayReqTicks \in Nat \ {0}
      BY BmcAssumption, ProtocolAssumption, IntMaxAssumption
    <3> QED BY <3>1, PortFacts DEF PassInv, PtpClock
  <2>2. ptpClock' = toState(m1(c), "LISTENING") /\ "LISTENING" \in PortStates
    BY <1>1 DEF doInit, PortStates
  <2> HIDE DEF c
  <2>3. /\ Table(ptpClock', m1(c)) /\ ptpClock'.portState = "LISTENING" /\ Table(m1(c), c)
    BY <2>1, <2>2, M1OK, M1Data, ToStateData
  <2>4. ptpClock.foreign_record_i = 0
    BY <1>1 DEF TableOK, doInit
  <2> QED BY <2>1, <2>3, <2>4, EmptyTable DEF Table, Running
<1>2. CASE StateDecision
  BY <1>2, StateDecisionTable
<1>3. CASE FaultCleared
  BY <1>3 DEF FaultCleared, TableOK
<1>4. CASE AnnounceReceiptTimeout
  <2> DEFINE c  == [ptpClock EXCEPT !.number_foreign_records = 0, !.foreign_record_i = 0]
             d  == IF MayBeMaster THEN m1(c) ELSE c
             to == IF MayBeMaster THEN "MASTER" ELSE "LISTENING"
  <2>1. /\ c \in PtpClock /\ c.number_foreign_records = 0 /\ c.foreign = ptpClock.foreign
        /\ c.foreign_record_i = 0
    <3>1. 0 \in 0..MaxForeign /\ 0 \in 0..(MaxForeign - 1)
      BY BmcAssumption
    <3> QED BY <3>1, PortFacts DEF PassInv, PtpClock
  <2>2. ptpClock' = ptpClock \/ ptpClock' = toState(d, to)
    BY <1>4, Zenon DEF AnnounceReceiptTimeout, c, d, to
  <2> HIDE DEF c
  <2>3. d \in PtpClock /\ Table(d, c)
    BY <2>1, M1OK, M1Data DEF Table
  <2>4. to \in PortStates /\ to \in Running
    BY DEF PortStates, Running
  <2> HIDE DEF d, to
  <2>5. CASE ptpClock' = toState(d, to)
    <3>1. Table(ptpClock', d) /\ ptpClock'.portState = to
      BY <2>3, <2>4, <2>5, ToStateData
    <3> QED BY <2>1, <2>3, <2>4, <3>1, EmptyTable DEF Table
  <2> QED BY <2>2, <2>5
<1>5. CASE MasterEnd
  <2>1. ptpClock' = ptpClock \/ ptpClock' = toState(ptpClock, "LISTENING")
    BY <1>5 DEF MasterEnd
  <2>2. "LISTENING" \in PortStates /\ "LISTENING" \in Running
    BY DEF PortStates, Running
  <2> QED BY <2>1, <2>2, PortFacts, ToStateData, SameTable DEF PassInv, Cursor
<1>6. CASE handle
  <2>1. ptpClock.portState \in Running
    BY <1>6 DEF handle, At, RunningOK
  <2>2. CASE rx.frame = NoFrame
    BY <1>6, <2>2 DEF handle, Ignore
  <2>3. CASE rx.frame # NoFrame
    <3> DEFINE f == rx.frame
    <3>1. PICK c \in PtpClock :
             Result(c, f) /\ Table(c, ptpClock) /\ Cursor(c, ptpClock) /\ State(c, ptpClock)
      BY <1>6, <2>3, handleFacts
    <3>2. f \in Frames /\ f.form \in {"full", "alien"}
      BY <2>3 DEF PassInv, IInv, InputOK, CompleteFrames
    <3>3. TableOK(c) /\ c.portState \in Running
      BY <2>1, <3>1, SameTable DEF Cursor, State
    <3>4. CASE Announced(ptpClock', c, f)
      BY <3>2, <3>3, <3>4 DEF Announced, OtherGrandmasters, Announces, Running
    <3>5. CASE Worked(ptpClock', c, f)
      BY <3>3, <3>5, SameTable DEF Worked, Cursor, State
    <3> QED BY <3>1, <3>2, <3>4, <3>5 DEF Result, Failed
  <2> QED BY <2>2, <2>3
<1>7. CASE \/ DelayReqSent \/ PDelayReqSent \/ SlaveRequest \/ MasterRequest
           \/ FirstAnnounce \/ issueSync \/ SyncSent \/ issueAnnounce
  <2>1. Quiet(ptpClock', ptpClock)
    BY <1>7, DelayReqSentPass, PDelayReqSentControl, RequestControl, MasterSendsControl
  <2>2. ptpClock.portState \in Running
    BY <1>7 DEF RunningOK, DelayReqSent, PDelayReqSent, SlaveRequest, MasterRequest, FirstAnnounce,
       issueSync, SyncSent, issueAnnounce, At
  <2> QED BY <2>1, <2>2, SameTable DEF Quiet, Cursor, State
<1>8. CASE Moves \/ Environment \/ UNCHANGED vars
  BY <1>8 DEF Moves, SlaveBranch, MasterBranch, netSelect, netRecv, issuePDelayRespFollowUp,
     Environment, Tick, Transmit, Arrive, vars
<1> QED BY <1>1, <1>2, <1>3, <1>4, <1>5, <1>6, <1>7, <1>8
    DEF Next, PortStep, PassStep, ReceiveStep, SlaveStep, MasterStep, Moves

LEMMA TableInit == Init => TableOK(ptpClock)
<1> SUFFICES ASSUME Init PROVE TableOK(ptpClock)
  OBVIOUS
<1>1. /\ InitialClock.portState = "INITIALIZING" /\ InitialClock.foreign_record_i = 0
      /\ InitialClock.number_foreign_records = 0
      /\ InitialClock.foreign = [i \in 0..(MaxForeign - 1) |-> ZeroRecord]
  BY DEF InitialClock
<1>2. ZeroRecord.ds.gm # Self
  BY BmcAssumption DEF ZeroRecord
<1>3. ptpClock = InitialClock
  BY DEF Init
<1> HIDE DEF InitialClock, ZeroRecord
<1>4. \A i \in 0..(MaxForeign - 1) : ptpClock.foreign[i].ds.gm # Self
  BY <1>1, <1>2, <1>3
<1> QED BY <1>1, <1>3, <1>4, BmcAssumption DEF TableOK

\* addForeign keeps one record for each foreign port, for any table size, though
\* it searches from foreign_record_best and inserts at foreign_record_i: if no
\* frame is truncated, so that the table is not emptied under its cursors, and
\* nobody else announces the local clock, so that a decision does not end in FAULTY.
THEOREM OneRecordPerPort ==
    ASSUME CompleteFrames, OtherGrandmasters PROVE Spec => []NoDuplicateRecords
<1>1. Init => RunningOK /\ TableOK(ptpClock)
  BY TableInit DEF Init, RunningOK
<1>2. PassInv /\ RunningOK /\ TableOK(ptpClock) /\ [Next]_vars
        => RunningOK' /\ TableOK(ptpClock)'
  BY RunningNext, TableNext
<1>3. TableOK(ptpClock) => NoDuplicateRecords
  BY DEF TableOK, NoDuplicateRecords, Known
<1> QED BY <1>1, <1>2, <1>3, PassInvariant, PTL DEF Spec

-----------------------------------------------------------------------------
(* The election *)

\* Ports that announce the same grandmaster describe it in the same way.
OneQuality ==
    \A f, g \in Announces :
        f.src # g.src /\ f.ds.gm = g.ds.gm => f.ds.quality = g.ds.quality

ElectionOK(c) ==
    ~c.record_update =>
        \A i \in 0..(MaxForeign - 1) : i < c.number_foreign_records =>
            /\ c.portState = "MASTER" => ~LexLess(Rank(c.foreign[i].ds), Rank(D0.ds))
            /\ c.portState = "SLAVE" => ~LexLess(Rank(c.foreign[i].ds), Rank(c.grandmaster))

\* Steps that leave the table, the role and its grandmaster alone.
LEMMA SameElection ==
    ASSUME NEW c, NEW d, ElectionOK(c), Table(d, c), State(d, c), d.grandmaster = c.grandmaster
    PROVE  ElectionOK(d)
BY DEF ElectionOK, Table, State

LEMMA RankType ==
    ASSUME NEW ds \in DataSet PROVE Rank(ds) \in Ranks /\ Rank(ds) = Order(ds)
BY OrderType DEF Rank, Order

LEMMA D0Type == D0 \in ForeignRecord /\ D0.ds.gm = Self
BY BmcAssumption DEF D0, ForeignRecord, PortIdentity, DataSet, Clocks, SelfPort

\* The records of an orderly table agree on what they say of a grandmaster.
LEMMA TableConsistent ==
    ASSUME OneQuality, NEW c, TableOK(c)
    PROVE  Consistent(c.foreign, c.number_foreign_records)
BY DEF Consistent, TableOK, OneQuality

\* The state decision takes every record into account.
LEMMA BmcExecElects ==
    ASSUME NEW c \in PtpClock, Consistent(c.foreign, c.number_foreign_records),
           \A j \in 0..(MaxForeign - 1) : c.foreign[j].ds.gm # Self,
           NEW i \in 0..(MaxForeign - 1), i < c.number_foreign_records
    PROVE  LET d == bmcExec(c)
           IN  /\ d.state = "MASTER" => ~LexLess(Rank(c.foreign[i].ds), Rank(D0.ds))
               /\ d.state = "SLAVE" => ~LexLess(Rank(c.foreign[i].ds), Rank(d.clk.grandmaster))
<1> DEFINE b   == Best(c.foreign, c.number_foreign_records, c.parentPortIdentity.clock)
           r   == c.foreign[b]
           cb  == [c EXCEPT !.foreign_record_best = b]
           cmp == bmcDataSetComparison(D0, r, c.parentPortIdentity.clock)
           ri  == Rank(c.foreign[i].ds)
           rb  == Rank(r.ds)
<1>1. /\ MaxForeign \in Nat \ {0}
      /\ c.foreign \in [0..(MaxForeign - 1) -> ForeignRecord]
      /\ c.number_foreign_records \in 0..MaxForeign /\ c.number_foreign_records \in Nat
      /\ c.number_foreign_records # 0
  BY BmcAssumption DEF PtpClock
<1>2. b \in 0..(MaxForeign - 1)
  BY <1>1, BestInUse
<1>3. r \in ForeignRecord /\ r.ds \in DataSet /\ c.foreign[i].ds \in DataSet /\ D0.ds \in DataSet
  BY <1>1, <1>2, D0Type DEF ForeignRecord
<1>4. ~LexLess(ri, rb)
  <2>1. ~LexLess(Order(c.foreign[i].ds), Order(r.ds))
    BY <1>1, BestIsBest
  <2> QED BY <1>3, <2>1, RankType
<1>5. r.ds.gm # Self
  BY <1>2
<1>6. cmp < 0 => LexLess(Rank(D0.ds), rb)
  <2>1. cmp < 0 => CompareQuality(D0, r) < 0
    BY <1>5, D0Type DEF bmcDataSetComparison
  <2>2. CompareQuality(D0, r) < 0 => LexLess(Order(D0.ds), Order(r.ds))
    BY <1>3, <1>5, D0Type, QualityDecides
  <2> QED BY <1>3, <2>1, <2>2, RankType
<1>7. cmp < 0 => ~LexLess(ri, Rank(D0.ds))
  BY <1>3, <1>4, <1>6, LexTransitive, RankType
<1>8. cb \in PtpClock
  BY <1>2 DEF PtpClock
<1> HIDE DEF b, cb, cmp, r, ri, rb
<1>9. s1(cb, r.src, r.ds).grandmaster = [quality |-> r.ds.quality, gm |-> r.ds.gm]
  BY <1>8 DEF s1, PtpClock
<1>10. Rank(s1(cb, r.src, r.ds).grandmaster) = rb
  BY <1>9 DEF Rank, rb
<1>11. \/ bmcExec(c) = [state |-> "MASTER", clk |-> m1(cb)] /\ cmp < 0
       \/ bmcExec(c).state \in {"LISTENING", "PASSIVE", "FAULTY"}
       \/ bmcExec(c) = [state |-> "SLAVE", clk |-> s1(cb, r.src, r.ds)]
  BY <1>1, Zenon DEF bmcExec, b, r, cb, cmp
<1> QED BY <1>4, <1>7, <1>10, <1>11 DEF ri

LEMMA StateDecisionElects ==
    ASSUME OneQuality, PassInv, TableOK(ptpClock), ElectionOK(ptpClock), StateDecision
    PROVE  ElectionOK(ptpClock')
<1> DEFINE c == [ptpClock EXCEPT !.message_activity = FALSE]
           e == [c EXCEPT !.record_update = FALSE]
           d == bmcExec(e)
<1>1. c \in PtpClock /\ Table(c, ptpClock) /\ Cursor(c, ptpClock) /\ State(c, ptpClock)
  BY PortFacts DEF PassInv, PtpClock, Table, Cursor, State
<1>2. CASE ptpClock' = c
  BY <1>1, <1>2, SameElection DEF Cursor
<1>3. CASE ptpClock' # c
  <2>1. /\ e \in PtpClock /\ e.portState = c.portState /\ e.foreign = ptpClock.foreign
        /\ e.number_foreign_records = ptpClock.number_foreign_records
        /\ e.foreign_record_i = ptpClock.foreign_record_i /\ e.portState = ptpClock.portState
    BY PortFacts DEF PassInv, PtpClock
  <2>2. ptpClock.record_update
    BY <1>3 DEF StateDecision
  <2> HIDE DEF c, e
  <2>3. (ptpClock' = d.clk /\ d.state = c.portState) \/ ptpClock' = toState(d.clk, d.state)
    BY <1>3, Zenon DEF StateDecision, c, d, e
  <2>4. /\ Table(d.clk, e) /\ d.clk \in PtpClock /\ d.state \in PortStates
        /\ d.clk.portState = e.portState
    BY <2>1, BmcExecData, BmcExecOK
  <2>5. ptpClock'.portState = d.state /\ ptpClock'.grandmaster = d.clk.grandmaster
        /\ Table(ptpClock', d.clk)
    <3>1. CASE ptpClock' = d.clk /\ d.state = c.portState
      BY <2>1, <2>4, <3>1 DEF Table
    <3>2. CASE ptpClock' = toState(d.clk, d.state)
      BY <2>4, <3>2, ToStateData DEF Cursor
    <3> QED BY <2>3, <3>1, <3>2
  <2> SUFFICES ASSUME NEW i \in 0..(MaxForeign - 1), i < ptpClock'.number_foreign_records
               PROVE  /\ ptpClock'.portState = "MASTER" =>
                           ~LexLess(Rank(ptpClock'.foreign[i].ds), Rank(D0.ds))
                      /\ ptpClock'.portState = "SLAVE" =>
                           ~LexLess(Rank(ptpClock'.foreign[i].ds), Rank(ptpClock'.grandmaster))
    BY DEF ElectionOK
  <2>6. ptpClock'.foreign = e.foreign /\ ptpClock'.number_foreign_records = e.number_foreign_records
    BY <2>4, <2>5 DEF Table
  <2>7. /\ Consistent(e.foreign, e.number_foreign_records)
        /\ \A j \in 0..(MaxForeign - 1) : e.foreign[j].ds.gm # Self
    BY <2>1, TableConsistent DEF TableOK
  <2> QED BY <2>1, <2>5, <2>6, <2>7, BmcExecElects
<1> QED BY <1>2, <1>3

\* Between two decisions neither the table nor the role changes, except that
\* both are given up.
LEMMA ElectionNext ==
    ASSUME CompleteFrames, OneQuality, PassInv, TableOK(ptpClock), ElectionOK(ptpClock), [Next]_vars
    PROVE  ElectionOK(ptpClock')
<1>1. CASE doInit
  <2> DEFINE c == [ptpClock EXCEPT !.number_foreign_records = 0,
                                   !.delayReqTicks = InitialDelayReqTicks]
  <2>1. c \in PtpClock
    <3>1. 0 \in 0..MaxForeign /\ InitialDelayReqTicks \in Nat \ {0}
      BY BmcAssumption, ProtocolAssumption, IntMaxAssumption
    <3> QED BY <3>1, PortFacts DEF PassInv, PtpClock
  <2>2. ptpClock' = toState(m1(c), "LISTENING") /\ "LISTENING" \in PortStates
    BY <1>1 DEF doInit, PortStates
  <2> HIDE DEF c
  <2>3. ptpClock'.portState = "LISTENING"
    BY <2>1, <2>2, M1OK, ToStateData
  <2> QED BY <2>3 DEF ElectionOK
<1>2. CASE StateDecision
  BY <1>2, StateDecisionElects
<1>3. CASE FaultCleared
  BY <1>3 DEF FaultCleared, TableOK
<1>4. CASE AnnounceReceiptTimeout
  <2> DEFINE c  == [ptpClock EXCEPT !.number_foreign_records = 0, !.foreign_record_i = 0]
             d  == IF MayBeMaster THEN m1(c) ELSE c
             to == IF MayBeMaster THEN "MASTER" ELSE "LISTENING"
  <2>1. c \in PtpClock /\ c.number_foreign_records = 0
    <3>1. 0 \in 0..MaxForeign /\ 0 \in 0..(MaxForeign - 1)
      BY BmcAssumption
    <3> QED BY <3>1, PortFacts DEF PassInv, PtpClock
  <2>2. ptpClock' = ptpClock \/ ptpClock' = toState(d, to)
    BY <1>4, Zenon DEF AnnounceReceiptTimeout, c, d, to
  <2> HIDE DEF c
  <2>3. d \in PtpClock /\ Table(d, c) /\ to \in PortStates
    BY <2>1, M1OK, M1Data DEF Table, PortStates
  <2> HIDE DEF d, to
  <2>4. CASE ptpClock' = toState(d, to)
    <3>1. ptpClock'.number_foreign_records = 0
      BY <2>1, <2>3, <2>4, ToStateData DEF Table
    <3> QED BY <3>1 DEF ElectionOK
  <2> QED BY <2>2, <2>4
<1>5. CASE MasterEnd
  <2>1. ptpClock' = ptpClock \/ ptpClock' = toState(ptpClock, "LISTENING")
    BY <1>5 DEF MasterEnd
  <2>2. CASE ptpClock' = toState(ptpClock, "LISTENING")
    <3>1. ptpClock'.portState = "LISTENING"
      BY <2>2, PortFacts, ToStateData DEF PassInv, PortStates
    <3> QED BY <3>1 DEF ElectionOK
  <2> QED BY <2>1, <2>2
<1>6. CASE handle
  <2>1. CASE rx.frame = NoFrame
    BY <1>6, <2>1 DEF handle, Ignore
  <2>2. CASE rx.frame # NoFrame
    <3> DEFINE f == rx.frame
    <3>1. PICK c \in PtpClock :
             Result(c, f) /\ Table(c, ptpClock) /\ Cursor(c, ptpClock) /\ State(c, ptpClock)
      BY <1>6, <2>2, handleFacts
    <3>2. f.form \in {"full", "alien"}
      BY <2>2 DEF PassInv, IInv, InputOK, CompleteFrames
    <3>3. CASE Announced(ptpClock', c, f)
      BY <3>3 DEF Announced, ElectionOK
    <3>4. CASE Worked(ptpClock', c, f)
      BY <3>1, <3>4, SameElection DEF Worked, Cursor
    <3> QED BY <3>1, <3>2, <3>3, <3>4 DEF Result, Failed
  <2> QED BY <2>1, <2>2
<1>7. CASE \/ DelayReqSent \/ PDelayReqSent \/ SlaveRequest \/ MasterRequest
           \/ FirstAnnounce \/ issueSync \/ SyncSent \/ issueAnnounce
  <2>1. Quiet(ptpClock', ptpClock)
    BY <1>7, DelayReqSentPass, PDelayReqSentControl, RequestControl, MasterSendsControl
  <2> QED BY <2>1, SameElection DEF Quiet, Cursor
<1>8. CASE Moves \/ Environment \/ UNCHANGED vars
  BY <1>8 DEF Moves, SlaveBranch, MasterBranch, netSelect, netRecv, issuePDelayRespFollowUp,
     Environment, Tick, Transmit, Arrive, vars
<1> QED BY <1>1, <1>2, <1>3, <1>4, <1>5, <1>6, <1>7, <1>8
    DEF Next, PortStep, PassStep, ReceiveStep, SlaveStep, MasterStep, Moves

\* Once the decision is made, the port follows or leads by the best clock it knows
\* of, for any table size, any frames and any order of announcements, timeouts and
\* decisions: no record is passed over for the slot it stands in, and no Announce
\* is used before it is ranked. The senders must agree on what they announce: a
\* record that is out of date counts as what it says.
THEOREM ElectionIsSound ==
    ASSUME CompleteFrames, OtherGrandmasters, OneQuality PROVE Spec => []ElectionSound
<1> DEFINE I == PassInv /\ RunningOK /\ TableOK(ptpClock) /\ ElectionOK(ptpClock)
<1>1. Init => RunningOK /\ TableOK(ptpClock) /\ ElectionOK(ptpClock)
  <2> SUFFICES ASSUME Init PROVE RunningOK /\ TableOK(ptpClock) /\ ElectionOK(ptpClock)
    OBVIOUS
  <2>1. ptpClock.portState = "INITIALIZING"
    BY DEF Init, InitialClock
  <2> QED BY <2>1, TableInit DEF Init, RunningOK, ElectionOK
<1>2. I /\ [Next]_vars => RunningOK' /\ TableOK(ptpClock)' /\ ElectionOK(ptpClock)'
  BY RunningNext, TableNext, ElectionNext
<1>3. ElectionOK(ptpClock) => ElectionSound
  BY DEF ElectionOK, ElectionSound, Known
<1> QED BY <1>1, <1>2, <1>3, PassInvariant, PTL DEF Spec

-----------------------------------------------------------------------------
(* The timer of the delay requests *)

\* The periods a port is given and is told fit into an int, twice over: the
\* interval of a delay request is drawn from up to two of them.
PeriodsFit ==
    /\ 2 * InitialDelayReqTicks \in 1..IntMax
    /\ \A f \in Frames : 2 * f.interval \in 1..IntMax

RequestsOK(c, it) ==
    /\ 2 * c.delayReqTicks \in 1..IntMax
    /\ c.portState = "SLAVE" /\ ~c.waiting_for_first_sync => it[RequestTimer].interval > 0

Beat(d, c) ==
    /\ d.waiting_for_first_sync = c.waiting_for_first_sync
    /\ d.delayReqTicks = c.delayReqTicks

\* Steps that leave the request timer and its period alone.
LEMMA SameBeat ==
    ASSUME NEW c, NEW d, NEW it, NEW jt, RequestsOK(c, it), Beat(d, c), State(d, c),
           jt[RequestTimer].interval = it[RequestTimer].interval
    PROVE  RequestsOK(d, jt)
BY DEF RequestsOK, Beat, State

\* A port that enters a state starts without a timer of its own to keep.
LEMMA ToStateBeat ==
    ASSUME PeriodsFit, NEW c \in PtpClock, NEW to \in PortStates, NEW it, NEW jt, RequestsOK(c, it)
    PROVE  RequestsOK(toState(c, to), jt)
<1> DEFINE d == toState(c, to)
<1>1. /\ d.portState = to
      /\ to = "SLAVE" => d.waiting_for_first_sync = TRUE
      /\ d.delayReqTicks \in {InitialDelayReqTicks, c.delayReqTicks}
  BY DEF toState, PtpClock
<1> HIDE DEF d
<1> QED BY <1>1 DEF RequestsOK, PeriodsFit, d

LEMMA RequestTimerType == RequestTimer \in Timers /\ RequestTimer # "ANNOUNCE_RECEIPT"
BY DEF RequestTimer, Timers

\* Asking a timer changes no interval.
LEMMA AskedBeat ==
    ASSUME itimer \in [Timers -> Timer], NEW t \in Timers
    PROVE  AfterExpired(t)[RequestTimer].interval = itimer[RequestTimer].interval
<1>1. timerUpdate(itimer, elapsed) = [u \in Timers |-> Advance(itimer[u], elapsed)]
  BY DEF timerUpdate
<1>2. Advance(itimer[RequestTimer], elapsed).interval = itimer[RequestTimer].interval
  BY DEF Advance
<1> QED BY <1>1, <1>2, RequestTimerType DEF AfterExpired, Acknowledge

\* Becoming one's own grandmaster touches neither the period nor the state.
LEMMA M1Beat ==
    ASSUME NEW c \in PtpClock
    PROVE  m1(c) \in PtpClock /\ Beat(m1(c), c) /\ State(m1(c), c)
<1>1. m1(c) \in PtpClock
  BY M1OK
<1>2. Beat(m1(c), c) /\ State(m1(c), c)
  BY DEF m1, PtpClock, Beat, State
<1> QED BY <1>1, <1>2

\* A state decision touches neither the timer of the requests nor its period.
LEMMA BmcExecBeat ==
    ASSUME NEW c \in PtpClock PROVE Beat(bmcExec(c).clk, c)
<1> DEFINE b   == Best(c.foreign, c.number_foreign_records, c.parentPortIdentity.clock)
           r   == c.foreign[b]
           cb  == [c EXCEPT !.foreign_record_best = b]
           cmp == bmcDataSetComparison(D0, r, c.parentPortIdentity.clock)
<1>1. cb \in PtpClock /\ Beat(cb, c)
  <2>1. b \in 0..(MaxForeign - 1)
    BY BestInUse, BmcAssumption DEF PtpClock
  <2> HIDE DEF b
  <2> QED BY <2>1 DEF PtpClock, Beat
<1> HIDE DEF b, r, cb, cmp
<1>2. Beat(m1(c), c) /\ Beat(m1(cb), c) /\ Beat(s1(cb, r.src, r.ds), c)
  BY <1>1 DEF m1, s1, PtpClock, Beat
<1>3. bmcExec(c).clk \in {m1(c), m1(cb), cb, s1(cb, r.src, r.ds)}
  BY Zenon DEF bmcExec, b, r, cb, cmp
<1> QED BY <1>1, <1>2, <1>3

\* Nor does an Announce.
LEMMA RecordAnnounceBeat ==
    ASSUME NEW c \in PtpClock, NEW f \in Frame
    PROVE  LET d == [RecordAnnounce(c, f) EXCEPT !.record_update = TRUE]
           IN  Beat(d, c) /\ State(d, c)
<1>1. RecordAnnounce(c, f) \in PtpClock /\ State(RecordAnnounce(c, f), c)
  BY RecordAnnounceType DEF State
<1>2. Beat(RecordAnnounce(c, f), c)
  BY DEF RecordAnnounce, addForeign, s1, PtpClock, Beat
<1> QED BY <1>1, <1>2 DEF PtpClock, Beat, State

\* A handler that restarts the timer gives it an interval above zero.
LEMMA DispatchBeat ==
    ASSUME PeriodsFit, NEW c \in PtpClock, NEW f \in Frames, itimer \in [Timers -> Timer],
           RequestsOK(c, itimer), Dispatch(c, f)
    PROVE  RequestsOK(ptpClock', itimer')
<1>0. f \in Frame
  BY ProtocolAssumption
<1>1. ASSUME NEW d, Ignore(d), Beat(d, c), State(d, c) PROVE RequestsOK(ptpClock', itimer')
  BY <1>1, SameBeat DEF Ignore
<1>2. Beat(c, c) /\ State(c, c)
  BY DEF Beat, State
<1>3. CASE ToFaulty(c)
  BY <1>3, ToStateBeat DEF ToFaulty, Update, PortStates
<1>4. CASE handleAnnounce(c, f)
  <2> DEFINE d == [RecordAnnounce(c, f) EXCEPT !.record_update = TRUE]
             it == IF Heard(c, f) THEN RestartWatchdog(itimer) ELSE itimer
  <2>1. CASE Ignore(c)
    BY <1>1, <1>2, <2>1
  <2>2. CASE Update(d, it)
    <3>1. Beat(d, c) /\ State(d, c)
      BY <1>0, RecordAnnounceBeat
    <3>2. it[RequestTimer] = itimer[RequestTimer]
      BY RequestTimerType DEF RestartWatchdog, timerStart
    <3> HIDE DEF d, it
    <3> QED BY <2>2, <3>1, <3>2, SameBeat DEF Update
  <2> QED BY <1>4, <2>1, <2>2 DEF handleAnnounce
<1>5. CASE handleSync(c, f)
  <2> DEFINE d == [c EXCEPT !.waiting_for_first_sync = FALSE,
                            !.sync_receive_time = [src |-> f.src, seq |-> f.seq],
                            !.waitingForFollow = f.twoStep,
                            !.recvSyncSequenceId = IF f.twoStep THEN f.seq ELSE @]
             it == ArmRequestTimer(c, itimer)
  <2>1. CASE Ignore(c)
    BY <1>1, <1>2, <2>1
  <2>2. CASE SyncAccepted(c, f) /\ Update(d, it)
    <3>1. d.delayReqTicks = c.delayReqTicks
      BY DEF PtpClock
    <3>2. it[RequestTimer].interval > 0
      <4>1. CASE ~c.waiting_for_first_sync
        BY <2>2, <4>1 DEF ArmRequestTimer, SyncAccepted, RequestsOK
      <4>2. CASE c.waiting_for_first_sync
        <5> DEFINE n == IF DelayMechanism = "E2E" THEN c.delayReqTicks ELSE PdelayReqTicks
        <5>1. n \in 1..IntMax /\ n \in Nat
          BY ProtocolAssumption, IntMaxAssumption DEF RequestsOK, PtpClock
        <5>2. it = timerStart(itimer, RequestTimer, n)
          BY <4>2 DEF ArmRequestTimer
        <5> HIDE DEF n
        <5> QED BY <5>1, <5>2, StartType, RequestTimerType
      <4> QED BY <4>1, <4>2
    <3> HIDE DEF d, it
    <3> QED BY <2>2, <3>1, <3>2 DEF Update, RequestsOK
  <2> QED BY <1>5, <2>1, <2>2 DEF handleSync
<1>6. CASE handleDelayResp(c, f)
  <2> DEFINE d == [c EXCEPT !.waitingForDelayResp = FALSE, !.delayReqTicks = f.interval]
  <2>1. CASE Ignore(c)
    BY <1>1, <1>2, <2>1
  <2>2. CASE Ignore(d)
    <3>1. /\ d.delayReqTicks = f.interval /\ d.portState = c.portState
          /\ d.waiting_for_first_sync = c.waiting_for_first_sync
      BY DEF PtpClock
    <3> HIDE DEF d
    <3> QED BY <2>2, <3>1 DEF Ignore, RequestsOK, PeriodsFit
  <2> QED BY <1>6, <2>1, <2>2, Zenon DEF handleDelayResp
<1>7. CASE handleFollowUp(c, f) \/ handlePDelayResp(c, f) \/ handlePDelayRespFollowUp(c, f)
  <2>1. PICK d : /\ Ignore(d)
                 /\ \/ d = c
                    \/ d = [c EXCEPT !.waitingForFollow = FALSE]
                    \/ d = [c EXCEPT !.pdelay_resp_receive_time = [src |-> f.src, seq |-> f.seq],
                                     !.recvPDelayRespSequenceId = f.seq]
                    \/ d = [c EXCEPT !.pdelay_resp_send_time = [src |-> f.src, seq |-> f.seq]]
    BY <1>7, Zenon DEF handleFollowUp, handlePDelayResp, handlePDelayRespFollowUp
  <2>2. Beat(d, c) /\ State(d, c)
    <3>1. CASE d = c
      BY <1>2, <3>1
    <3>2. CASE d = [c EXCEPT !.waitingForFollow = FALSE]
      BY <3>2 DEF PtpClock, Beat, State
    <3>3. CASE d = [c EXCEPT !.pdelay_resp_receive_time = [src |-> f.src, seq |-> f.seq],
                             !.recvPDelayRespSequenceId = f.seq]
      BY <3>3 DEF PtpClock, Beat, State
    <3>4. CASE d = [c EXCEPT !.pdelay_resp_send_time = [src |-> f.src, seq |-> f.seq]]
      BY <3>4 DEF PtpClock, Beat, State
    <3> QED BY <2>1, <3>1, <3>2, <3>3, <3>4
  <2> QED BY <1>1, <2>1, <2>2
<1>8. CASE handleDelayReq(c, f)
  BY <1>2, <1>8, SameBeat DEF handleDelayReq, Ignore, Reply
<1>9. CASE handlePDelayReq(c, f)
  <2> DEFINE d == [c EXCEPT !.PdelayReqHeader = [src |-> f.src, seq |-> f.seq]]
  <2>1. Beat(d, c) /\ State(d, c)
    BY DEF PtpClock, Beat, State
  <2>2. (ptpClock' = c \/ ptpClock' = d) /\ itimer' = itimer
    BY <1>9, Zenon DEF handlePDelayReq, Ignore, Reply
  <2> HIDE DEF d
  <2> QED BY <1>2, <2>1, <2>2, SameBeat
<1>10. CASE Ignore(c)
  BY <1>1, <1>2, <1>10
<1> QED BY <1>3, <1>4, <1>5, <1>6, <1>7, <1>8, <1>9, <1>10, Zenon DEF Dispatch

\* Every step keeps the timer of a synchronising slave running.
LEMMA RequestsNext ==
    ASSUME PeriodsFit, IInv, RequestsOK(ptpClock, itimer), [Next]_vars
    PROVE  RequestsOK(ptpClock', itimer')
<1>0. /\ ptpClock \in PtpClock /\ itimer \in [Timers -> Timer]
      /\ Beat(ptpClock, ptpClock) /\ State(ptpClock, ptpClock)
  BY PortFacts DEF Beat, State
<1>1. CASE doInit
  <2> DEFINE c == [ptpClock EXCEPT !.number_foreign_records = 0,
                                   !.delayReqTicks = InitialDelayReqTicks]
  <2>1. 0 \in 0..MaxForeign /\ InitialDelayReqTicks \in Nat \ {0}
    BY BmcAssumption, ProtocolAssumption, IntMaxAssumption
  <2>2. c \in PtpClock /\ c.delayReqTicks = InitialDelayReqTicks /\ State(c, ptpClock)
    BY <1>0, <2>1 DEF PtpClock, State
  <2>3. ptpClock' = toState(m1(c), "LISTENING") /\ ptpClock.portState = "INITIALIZING"
    BY <1>1 DEF doInit
  <2> HIDE DEF c
  <2>4. m1(c) \in PtpClock /\ Beat(m1(c), c) /\ State(m1(c), c)
    BY <2>2, M1Beat
  <2>5. RequestsOK(m1(c), itimer)
    BY <2>2, <2>3, <2>4 DEF RequestsOK, PeriodsFit, Beat, State
  <2> QED BY <2>3, <2>4, <2>5, ToStateBeat DEF PortStates
<1>2. CASE StateDecision
  <2> DEFINE c == [ptpClock EXCEPT !.message_activity = FALSE]
             e == [c EXCEPT !.record_update = FALSE]
             d == bmcExec(e)
  <2>1. /\ Beat(c, ptpClock) /\ State(c, ptpClock)
        /\ e \in PtpClock /\ Beat(e, ptpClock) /\ State(e, ptpClock)
    BY <1>0 DEF PtpClock, Beat, State
  <2> HIDE DEF c, e
  <2>2. \/ ptpClock' = c /\ itimer' = itimer
        \/ ptpClock' = d.clk /\ itimer' = itimer
        \/ ptpClock' = toState(d.clk, d.state)
    BY <1>2, Zenon DEF StateDecision, c, d, e
  <2>3. /\ d.clk \in PtpClock /\ d.state \in PortStates
        /\ Beat(d.clk, ptpClock) /\ State(d.clk, ptpClock)
    BY <2>1, BmcExecOK, BmcExecBeat DEF Beat, State
  <2>4. RequestsOK(c, itimer) /\ RequestsOK(d.clk, itimer)
    BY <2>1, <2>3, SameBeat
  <2> HIDE DEF d
  <2> QED BY <2>2, <2>3, <2>4, ToStateBeat
<1>3. CASE FaultCleared
  BY <1>0, <1>3, ToStateBeat DEF FaultCleared, PortStates
<1>4. CASE MasterEnd
  BY <1>0, <1>4, ToStateBeat DEF MasterEnd, PortStates
<1>5. CASE AnnounceReceiptTimeout
  <2> DEFINE c  == [ptpClock EXCEPT !.number_foreign_records = 0, !.foreign_record_i = 0]
             d  == IF MayBeMaster THEN m1(c) ELSE c
             to == IF MayBeMaster THEN "MASTER" ELSE "LISTENING"
             it == AfterExpired("ANNOUNCE_RECEIPT")
  <2>1. c \in PtpClock /\ Beat(c, ptpClock) /\ State(c, ptpClock)
    <3>1. 0 \in 0..MaxForeign /\ 0 \in 0..(MaxForeign - 1)
      BY BmcAssumption
    <3> QED BY <1>0, <3>1 DEF PtpClock, Beat, State
  <2>2. (ptpClock' = ptpClock /\ itimer' = it) \/ ptpClock' = toState(d, to)
    BY <1>5, Zenon DEF AnnounceReceiptTimeout, c, d, to, it
  <2> HIDE DEF c
  <2>3. m1(c) \in PtpClock /\ Beat(m1(c), c) /\ State(m1(c), c)
    BY <2>1, M1Beat
  <2>4. d \in PtpClock /\ Beat(d, ptpClock) /\ State(d, ptpClock) /\ to \in PortStates
    BY <2>1, <2>3 DEF Beat, State, PortStates
  <2>5. it[RequestTimer].interval = itimer[RequestTimer].interval
    BY <1>0, AskedBeat DEF Timers
  <2> HIDE DEF d, to, it
  <2>6. RequestsOK(d, itimer)
    BY <2>4, SameBeat
  <2> QED BY <1>0, <2>2, <2>4, <2>5, <2>6, SameBeat, ToStateBeat
<1>6. CASE handle
  <2>1. CASE rx.frame = NoFrame
    BY <1>6, <2>1 DEF handle, Ignore
  <2>2. CASE rx.frame # NoFrame
    <3> DEFINE c == [ptpClock EXCEPT !.message_activity = TRUE]
    <3>1. c \in PtpClock /\ Beat(c, ptpClock) /\ State(c, ptpClock)
      BY <1>0 DEF PtpClock, Beat, State
    <3> HIDE DEF c
    <3>2. Dispatch(c, rx.frame) /\ rx.frame \in Frames
      BY <1>6, <2>2, Zenon DEF handle, c, IInv, InputOK
    <3>3. RequestsOK(c, itimer)
      BY <3>1, SameBeat
    <3> QED BY <1>0, <3>1, <3>2, <3>3, DispatchBeat
  <2> QED BY <2>1, <2>2
<1>7. CASE DelayReqSent
  <2>1. Beat(ptpClock', ptpClock) /\ State(ptpClock', ptpClock)
    BY <1>0, <1>7 DEF DelayReqSent, PtpClock, Beat, State
  <2>2. PICK n \in 0..(2 * ptpClock.delayReqTicks) :
          itimer' = timerStart(itimer, RequestTimer, n)
    BY <1>7 DEF DelayReqSent, RequestTimer
  <2>3. n \in Nat /\ n <= IntMax
    BY <1>0, <2>2, IntMaxAssumption DEF RequestsOK
  <2>4. itimer'[RequestTimer].interval > 0
    BY <1>0, <2>2, <2>3, RequestTimerType, IntMaxAssumption DEF timerStart, Ticks, ToInt
  <2> QED BY <2>1, <2>4 DEF RequestsOK, Beat, State
<1>8. CASE SlaveRequest \/ MasterRequest \/ issueSync \/ issueAnnounce
  <2>1. ptpClock' = ptpClock /\ \E t \in Timers : itimer' = AfterExpired(t)
    BY <1>8, RequestTimerType DEF SlaveRequest, MasterRequest, IssueRequest, issueSync, issueAnnounce,
       Timers
  <2> QED BY <1>0, <2>1, AskedBeat, SameBeat
<1>9. CASE FirstAnnounce \/ SyncSent \/ PDelayReqSent
  <2>1. Beat(ptpClock', ptpClock) /\ State(ptpClock', ptpClock)
    <3>1. CASE FirstAnnounce
      BY <1>0, <3>1 DEF FirstAnnounce, PtpClock, Beat, State
    <3>2. CASE SyncSent
      BY <1>0, <3>2 DEF SyncSent, PtpClock, Beat, State
    <3>3. CASE PDelayReqSent
      BY <1>0, <3>3 DEF PDelayReqSent, PtpClock, Beat, State
    <3> QED BY <1>9, <3>1, <3>2, <3>3
  <2>2. itimer' = itimer
    BY <1>9 DEF FirstAnnounce, SyncSent, PDelayReqSent
  <2> QED BY <2>1, <2>2, SameBeat
<1>10. CASE Moves \/ Environment \/ UNCHANGED vars
  BY <1>10 DEF Moves, SlaveBranch, MasterBranch, netSelect, netRecv, issuePDelayRespFollowUp,
     Environment, Tick, Transmit, Arrive, vars
<1> QED BY <1>1, <1>2, <1>3, <1>4, <1>5, <1>6, <1>7, <1>8, <1>9, <1>10
    DEF Next, PortStep, PassStep, ReceiveStep, SlaveStep, MasterStep, Moves

\* The timer of a slave's delay requests never stops once it has heard a Sync, if
\* the periods fit: whatever period handleDelayResp takes over, the pause that is
\* drawn from it after a request is above zero, for one of zero stops the timer.
THEOREM RequestTimerAlwaysArmed ==
    ASSUME PeriodsFit PROVE Spec => []RequestTimerArmed
<1>1. Init => RequestsOK(ptpClock, itimer)
  BY DEF Init, InitialClock, RequestsOK, PeriodsFit
<1>2. IInv /\ RequestsOK(ptpClock, itimer) /\ [Next]_vars => RequestsOK(ptpClock, itimer)'
  BY RequestsNext
<1>3. RequestsOK(ptpClock, itimer) => RequestTimerArmed
  BY DEF RequestsOK, RequestTimerArmed, Armed
<1> QED BY <1>1, <1>2, <1>3, InductiveInvariant, PTL DEF Spec

-----------------------------------------------------------------------------
(* A port under management: the replies *)

Replies == {"RESPONSE", "ACKNOWLEDGE"}

\* r does not answer a reply, but for an error status.
Final(m, r) ==
    m.action \in Replies => r.tlv = "MANAGEMENT_ERROR_STATUS" \/ r.action \notin Replies

LEMMA ErrorsAreFinal ==
    ASSUME NEW c, NEW m, NEW error
    PROVE  Final(m, handleErrorManagementMessage(c, m, error))
  BY DEF Final, handleErrorManagementMessage

LEMMA NothingIsFinal == ASSUME NEW c, NEW m PROVE Final(m, Nothing(c))
  BY DEF Final, Nothing, Answer, Replies

LEMMA DataSetsAreFinal ==
    ASSUME NEW c, NEW m, NEW members
    PROVE  /\ Final(m, ReadOnly(c, m, members))
           /\ Final(m, Settable(c, m, members))
           /\ Final(m, SettableUnheard(c, m, members))
<1>1. Final(m, NotSupported(c, m))
  BY ErrorsAreFinal DEF NotSupported
<1>2. Final(m, ReadOnly(c, m, members))
  BY <1>1, NothingIsFinal DEF ReadOnly, Final, Replies
<1>3. Final(m, Settable(c, m, members))
  BY <1>2 DEF Settable, Final, Replies
<1>. QED
  BY <1>1, <1>2, <1>3 DEF SettableUnheard

\* The ids whose handlers are no plain data set.
LEMMA CommandsAreFinal ==
    ASSUME NEW c, NEW m
    PROVE  /\ Final(m, handleMMNullManagement(c, m))
           /\ Final(m, handleMMInitialize(c, m))
           /\ Final(m, handleMMEnablePort(c, m))
           /\ Final(m, handleMMDisablePort(c, m))
           /\ Final(m, handleMMTime(c, m))
<1>1. Final(m, NotSupported(c, m)) /\ Final(m, Nothing(c))
  BY ErrorsAreFinal, NothingIsFinal DEF NotSupported
<1>2. Final(m, handleMMNullManagement(c, m))
  BY <1>1 DEF handleMMNullManagement
<1>3. Final(m, handleMMInitialize(c, m))
  BY <1>1 DEF handleMMInitialize, Final, Replies
<1>4. Final(m, handleMMEnablePort(c, m)) /\ Final(m, handleMMDisablePort(c, m))
  BY <1>1 DEF handleMMEnablePort, handleMMDisablePort, Final, Replies
<1>5. Final(m, handleMMTime(c, m))
  BY <1>1 DEF handleMMTime, Final, Replies
<1>. QED
  BY <1>2, <1>3, <1>4, <1>5

LEMMA UserDescriptionIsFinal ==
    ASSUME NEW c, NEW m
    PROVE  Final(m, handleMMUserDescription(c, m))
<1>1. CASE m.action = "SET"
  BY <1>1 DEF Final, Replies
<1>2. CASE m.action # "SET"
  BY <1>2, DataSetsAreFinal DEF handleMMUserDescription
<1>. QED
  BY <1>1, <1>2

LEMMA DefaultDataSetIsFinal ==
    ASSUME NEW c, NEW m
    PROVE  Final(m, handleMMDefaultDataSet(c, m))
<1>1. CASE m.action = "GET"
  BY <1>1 DEF Final, Replies
<1>2. CASE m.action # "GET"
  BY <1>2, DataSetsAreFinal DEF handleMMDefaultDataSet
<1>. QED
  BY <1>1, <1>2

LEMMA HandlersAreFinal ==
    ASSUME NEW c, NEW m
    PROVE  Final(m, handleMM(c, m))
<1>1. /\ Final(m, handleMMClockDescription(c, m))
      /\ Final(m, handleMMSlaveOnly(c, m))
      /\ Final(m, handleMMCurrentDataSet(c, m))
      /\ Final(m, handleMMParentDataSet(c, m))
      /\ Final(m, handleMMTimePropertiesDataSet(c, m))
      /\ Final(m, handleMMPortDataSet(c, m))
  BY DataSetsAreFinal
  DEF handleMMClockDescription, handleMMSlaveOnly, handleMMCurrentDataSet,
      handleMMParentDataSet, handleMMTimePropertiesDataSet, handleMMPortDataSet
<1>2. /\ Final(m, handleMMPriority1(c, m))
      /\ Final(m, handleMMPriority2(c, m))
      /\ Final(m, handleMMDomain(c, m))
      /\ Final(m, handleMMLogAnnounceInterval(c, m))
      /\ Final(m, handleMMAnnounceReceiptTimeout(c, m))
      /\ Final(m, handleMMLogSyncInterval(c, m))
      /\ Final(m, handleMMVersionNumber(c, m))
  BY DataSetsAreFinal
  DEF handleMMPriority1, handleMMPriority2, handleMMDomain, handleMMLogAnnounceInterval,
      handleMMAnnounceReceiptTimeout, handleMMLogSyncInterval, handleMMVersionNumber
<1>3. /\ Final(m, handleMMClockAccuracy(c, m))
      /\ Final(m, handleMMUtcProperties(c, m))
      /\ Final(m, handleMMTraceabilityProperties(c, m))
      /\ Final(m, handleMMDelayMechanism(c, m))
      /\ Final(m, handleMMLogMinPdelayReqInterval(c, m))
  BY DataSetsAreFinal
  DEF handleMMClockAccuracy, handleMMUtcProperties, handleMMTraceabilityProperties,
      handleMMDelayMechanism, handleMMLogMinPdelayReqInterval
<1>4. /\ Final(m, handleMMSaveInNonVolatileStorage(c, m))
      /\ Final(m, handleMMResetNonVolatileStorage(c, m))
      /\ Final(m, NotSupported(c, m))
      /\ Final(m, handleErrorManagementMessage(c, m, "NO_SUCH_ID"))
  BY ErrorsAreFinal
  DEF handleMMSaveInNonVolatileStorage, handleMMResetNonVolatileStorage, NotSupported
<1>. QED
  BY <1>1, <1>2, <1>3, <1>4, CommandsAreFinal, UserDescriptionIsFinal, DefaultDataSetIsFinal
  DEF handleMM

\* A message that is answered is of a higher kind than its answer: no two ports
\* keep a conversation going, though neither looks at who was addressed.
THEOREM RepliesDescend ==
    ASSUME NEW c, NEW m, IsHandled(m), IsSent(handleMM(c, m))
    PROVE  Precedence(handleMM(c, m).tlv, handleMM(c, m).action) < Precedence(m.tlv, m.action)
<1>. DEFINE r == handleMM(c, m)
<1>1. Final(m, r)
  BY HandlersAreFinal
<1>2. CASE r.tlv = "MANAGEMENT_ERROR_STATUS"
  BY <1>2 DEF Precedence, IsHandled
<1>3. CASE r.tlv # "MANAGEMENT_ERROR_STATUS"
  <2>1. r.action \in Replies
    BY <1>3 DEF IsSent, Replies
  <2>2. m.action \notin Replies
    BY <1>1, <1>3, <2>1 DEF Final
  <2>. QED
    BY <2>1, <2>2 DEF Precedence, IsHandled, Replies
<1>. QED
  BY <1>2, <1>3

-----------------------------------------------------------------------------
(* What a management message does to the port state *)

LEMMA ReadsKeepClock ==
    ASSUME NEW c, NEW m, NEW members
    PROVE  ReadOnly(c, m, members).clk = c /\ NotSupported(c, m).clk = c
BY DEF ReadOnly, Answer, Nothing, NotSupported, handleErrorManagementMessage

\* A data set handler leaves every member alone that is not its own.
LEMMA SettingsKeepState ==
    ASSUME NEW c, "portState" \in DOMAIN c, NEW m, NEW members, "portState" \notin members
    PROVE  /\ Settable(c, m, members).clk.portState = c.portState
           /\ SettableUnheard(c, m, members).clk.portState = c.portState
<1>1. Assign(c, m.value, members).portState = c.portState
  BY DEF Assign
<1>2. Settable(c, m, members).clk \in {c, Assign(c, m.value, members)}
  BY ReadsKeepClock DEF Settable, Answer
<1>. QED
  BY <1>1, <1>2, ReadsKeepClock DEF SettableUnheard

LEMMA DataSetsKeepState ==
    ASSUME NEW c, "portState" \in DOMAIN c, NEW m
    PROVE  /\ handleMMUserDescription(c, m).clk.portState = c.portState
           /\ handleMMSlaveOnly(c, m).clk.portState = c.portState
           /\ handleMMPriority1(c, m).clk.portState = c.portState
           /\ handleMMPriority2(c, m).clk.portState = c.portState
           /\ handleMMDomain(c, m).clk.portState = c.portState
           /\ handleMMLogAnnounceInterval(c, m).clk.portState = c.portState
           /\ handleMMAnnounceReceiptTimeout(c, m).clk.portState = c.portState
           /\ handleMMLogSyncInterval(c, m).clk.portState = c.portState
           /\ handleMMVersionNumber(c, m).clk.portState = c.portState
           /\ handleMMClockAccuracy(c, m).clk.portState = c.portState
           /\ handleMMUtcProperties(c, m).clk.portState = c.portState
           /\ handleMMTraceabilityProperties(c, m).clk.portState = c.portState
           /\ handleMMDelayMechanism(c, m).clk.portState = c.portState
           /\ handleMMLogMinPdelayReqInterval(c, m).clk.portState = c.portState
BY SettingsKeepState
DEF handleMMUserDescription, handleMMSlaveOnly, handleMMPriority1, handleMMPriority2,
    handleMMDomain, handleMMLogAnnounceInterval, handleMMAnnounceReceiptTimeout,
    handleMMLogSyncInterval, handleMMVersionNumber, handleMMClockAccuracy,
    handleMMUtcProperties, handleMMTraceabilityProperties, handleMMDelayMechanism,
    handleMMLogMinPdelayReqInterval

LEMMA ReadersKeepClock ==
    ASSUME NEW c, NEW m
    PROVE  /\ handleMMNullManagement(c, m).clk = c
           /\ handleMMClockDescription(c, m).clk = c
           /\ handleMMSaveInNonVolatileStorage(c, m).clk = c
           /\ handleMMResetNonVolatileStorage(c, m).clk = c
           /\ handleMMDefaultDataSet(c, m).clk = c
           /\ handleMMCurrentDataSet(c, m).clk = c
           /\ handleMMParentDataSet(c, m).clk = c
           /\ handleMMTimePropertiesDataSet(c, m).clk = c
           /\ handleMMPortDataSet(c, m).clk = c
           /\ handleMMTime(c, m).clk = c
<1>1. handleMMDefaultDataSet(c, m).clk = c
  <2>1. CASE m.action = "GET"
    BY <2>1 DEF handleMMDefaultDataSet, ReadOnly, Answer
  <2>2. CASE m.action # "GET"
    BY <2>2, ReadsKeepClock DEF handleMMDefaultDataSet
  <2>. QED
    BY <2>1, <2>2
<1>2. handleMMNullManagement(c, m).clk = c /\ handleMMTime(c, m).clk = c
  BY ReadsKeepClock DEF handleMMNullManagement, handleMMTime, Answer, Nothing
<1>. QED
  BY <1>1, <1>2, ReadsKeepClock
  DEF handleMMClockDescription, handleMMSaveInNonVolatileStorage,
      handleMMResetNonVolatileStorage, handleMMCurrentDataSet, handleMMParentDataSet,
      handleMMTimePropertiesDataSet, handleMMPortDataSet

\* The commands that write the port state.
LEMMA CommandsState ==
    ASSUME NEW c, "portState" \in DOMAIN c, NEW m
    PROVE  /\ handleMMInitialize(c, m).clk.portState \in {c.portState, "INITIALIZING"}
           /\ handleMMEnablePort(c, m).clk.portState \in {c.portState, "INITIALIZING"}
           /\ handleMMDisablePort(c, m).clk.portState \in {c.portState, "DISABLED"}
<1>1. NotSupported(c, m).clk = c /\ Nothing(c).clk = c
  BY DEF NotSupported, handleErrorManagementMessage, Nothing, Answer
<1>2. /\ [c EXCEPT !.portState = "INITIALIZING"].portState = "INITIALIZING"
      /\ [c EXCEPT !.portState = "DISABLED"].portState = "DISABLED"
  OBVIOUS
<1>3. handleMMInitialize(c, m).clk \in {c, [c EXCEPT !.portState = "INITIALIZING"]}
  BY <1>1 DEF handleMMInitialize, Answer
<1>4. handleMMEnablePort(c, m).clk \in {c, [c EXCEPT !.portState = "INITIALIZING"]}
  BY <1>1 DEF handleMMEnablePort, Answer
<1>5. handleMMDisablePort(c, m).clk \in {c, [c EXCEPT !.portState = "DISABLED"]}
  BY <1>1 DEF handleMMDisablePort, Answer
<1>. QED
  BY <1>2, <1>3, <1>4, <1>5

\* The handler with the result r has left the port state alone.
Stays(c, r) == r.clk.portState = c.portState

LEMMA OthersStay ==
    ASSUME NEW c, "portState" \in DOMAIN c, NEW m,
           m.id \notin {"INITIALIZE", "ENABLE_PORT", "DISABLE_PORT"}
    PROVE  Stays(c, handleMM(c, m))
<1>1. Stays(c, NotSupported(c, m)) /\ Stays(c, handleErrorManagementMessage(c, m, "NO_SUCH_ID"))
  BY DEF Stays, NotSupported, handleErrorManagementMessage
<1>2. /\ Stays(c, handleMMUserDescription(c, m)) /\ Stays(c, handleMMSlaveOnly(c, m))
      /\ Stays(c, handleMMPriority1(c, m)) /\ Stays(c, handleMMPriority2(c, m))
      /\ Stays(c, handleMMDomain(c, m)) /\ Stays(c, handleMMLogAnnounceInterval(c, m))
      /\ Stays(c, handleMMAnnounceReceiptTimeout(c, m)) /\ Stays(c, handleMMLogSyncInterval(c, m))
      /\ Stays(c, handleMMVersionNumber(c, m)) /\ Stays(c, handleMMClockAccuracy(c, m))
      /\ Stays(c, handleMMUtcProperties(c, m)) /\ Stays(c, handleMMTraceabilityProperties(c, m))
      /\ Stays(c, handleMMDelayMechanism(c, m))
      /\ Stays(c, handleMMLogMinPdelayReqInterval(c, m))
  BY DataSetsKeepState DEF Stays
<1>3. /\ Stays(c, handleMMNullManagement(c, m)) /\ Stays(c, handleMMClockDescription(c, m))
      /\ Stays(c, handleMMSaveInNonVolatileStorage(c, m))
      /\ Stays(c, handleMMResetNonVolatileStorage(c, m))
      /\ Stays(c, handleMMDefaultDataSet(c, m)) /\ Stays(c, handleMMCurrentDataSet(c, m))
      /\ Stays(c, handleMMParentDataSet(c, m)) /\ Stays(c, handleMMTimePropertiesDataSet(c, m))
      /\ Stays(c, handleMMPortDataSet(c, m)) /\ Stays(c, handleMMTime(c, m))
  BY ReadersKeepClock DEF Stays
<1>. QED
  BY <1>1, <1>2, <1>3 DEF handleMM

\* Only a command moves the port, and only to these two states.
LEMMA OnlyCommandsMove ==
    ASSUME NEW c, "portState" \in DOMAIN c, NEW m, NEW to, to = handleMM(c, m).clk.portState
    PROVE  \/ to = c.portState
           \/ to = "INITIALIZING" /\ m.id \in {"INITIALIZE", "ENABLE_PORT"}
           \/ to = "DISABLED"
<1>1. CASE m.id = "INITIALIZE"
  <2>1. handleMM(c, m) = handleMMInitialize(c, m)
    BY <1>1 DEF handleMM, UnsupportedIds
  <2>. QED
    BY <1>1, <2>1, CommandsState
<1>2. CASE m.id = "ENABLE_PORT"
  <2>1. handleMM(c, m) = handleMMEnablePort(c, m)
    BY <1>2 DEF handleMM, UnsupportedIds
  <2>. QED
    BY <1>2, <2>1, CommandsState
<1>3. CASE m.id = "DISABLE_PORT"
  <2>1. handleMM(c, m) = handleMMDisablePort(c, m)
    BY <1>3 DEF handleMM, UnsupportedIds
  <2>. QED
    BY <2>1, CommandsState
<1>. QED
  BY <1>1, <1>2, <1>3, OthersStay DEF Stays

-----------------------------------------------------------------------------
(* The invariant of a port under management *)

Watched(state, it) ==
    /\ DOMAIN it = Timers
    /\ \A t \in Needed(state) : it[t].interval > 0

\* The clock c has a port state, and it the timers that this state needs.
Safe(c, it) == "portState" \in DOMAIN c /\ Watched(c.portState, it)

\* A pass of a disabled port does nothing but receive, and is over once a
\* message has moved the port.
QuietPass ==
    branch = "disabled" =>
        /\ pc \in {"top", "switch", "poll", "recv", "burst", "end"}
        /\ pc \in {"poll", "recv", "burst"} => ptpClock.portState = "DISABLED"
        /\ tx.type \in {"NONE", "MANAGEMENT"}

Settings == {"domainNumber", "priority1", "delayMechanism"}

ManagedInv ==
    /\ DOMAIN settings = Settings
    /\ Safe(ptpClock, itimer)
    /\ QuietPass

\* The step sends nothing, or no reply.
NoReply == tx' = tx \/ tx'.type # "MANAGEMENT"

-----------------------------------------------------------------------------
(* The timers *)

LEMMA NeededTimers == ASSUME NEW state PROVE Needed(state) \subseteq Timers
BY DEF Needed, Timers

LEMMA StartWatched ==
    ASSUME NEW state, NEW it, DOMAIN it = Timers, NEW t \in Timers, NEW n,
           \A u \in Needed(state) : u = t \/ it[u].interval > 0,
           t \in Needed(state) => n \in 1..IntMax
    PROVE  Watched(state, timerStart(it, t, n))
<1>1. n \in 1..IntMax => Ticks(n) > 0
  BY IntMaxAssumption DEF Ticks, ToInt
<1>2. /\ DOMAIN timerStart(it, t, n) = Timers
      /\ timerStart(it, t, n)[t].interval = Ticks(n)
      /\ \A u \in Timers : u # t => timerStart(it, t, n)[u] = it[u]
  BY DEF timerStart
<1>. QED
  BY <1>1, <1>2, NeededTimers DEF Watched

LEMMA EnterWatched ==
    ASSUME NEW it, DOMAIN it = Timers, NEW to
    PROVE  Watched(to, EnterTimers(it, to))
<1>p. /\ ListenTicks \in 1..IntMax /\ AnnounceReceiptTicks \in 1..IntMax
      /\ AnnounceTicks \in 1..IntMax /\ SyncTicks \in 1..IntMax
  BY ProtocolAssumption
<1>t. {"PDELAYREQ_INTERVAL", "SYNC_INTERVAL", "ANNOUNCE_INTERVAL", "ANNOUNCE_RECEIPT"} \subseteq Timers
  BY DEF Timers
<1>n. ASSUME NEW jt, NEW t, NEW n, DOMAIN jt = Timers PROVE DOMAIN timerStart(jt, t, n) = Timers
  BY <1>n DEF timerStart
<1>1. CASE to = "LISTENING"
  <2> DEFINE stopped == StopAll(it, Timers \ {"ANNOUNCE_RECEIPT"})
  <2>1. DOMAIN stopped = Timers
    BY DEF StopAll
  <2>2. EnterTimers(it, to) = timerStart(stopped, "ANNOUNCE_RECEIPT", ListenTicks)
    BY <1>1 DEF EnterTimers
  <2>3. \A u \in Needed(to) : u = "ANNOUNCE_RECEIPT"
    BY <1>1 DEF Needed
  <2> HIDE DEF stopped
  <2>. QED
    BY <1>p, <1>t, <2>1, <2>2, <2>3, StartWatched
<1>2. CASE to = "MASTER"
  <2> DEFINE it1 == timerStart(it, "SYNC_INTERVAL", SyncTicks)
             it2 == timerStart(it1, "ANNOUNCE_INTERVAL", AnnounceTicks)
  <2>1. DOMAIN it1 = Timers /\ DOMAIN it2 = Timers
    BY <1>n
  <2>2. EnterTimers(it, to) = timerStart(it2, "PDELAYREQ_INTERVAL", PdelayReqTicks)
    BY <1>2 DEF EnterTimers
  <2>3. Ticks(SyncTicks) > 0 /\ Ticks(AnnounceTicks) > 0
    BY <1>p, IntMaxAssumption DEF Ticks, ToInt
  <2>4. it2["SYNC_INTERVAL"].interval > 0 /\ it2["ANNOUNCE_INTERVAL"].interval > 0
    BY <1>t, <2>3 DEF timerStart
  <2>5. \A u \in Needed(to) : u # "PDELAYREQ_INTERVAL" /\ it2[u].interval > 0
    BY <1>2, <2>4 DEF Needed
  <2> HIDE DEF it1, it2
  <2>. QED
    BY <1>t, <2>1, <2>2, <2>5, StartWatched
<1>3. CASE to = "PASSIVE"
  <2> DEFINE it1 == timerStart(it, "PDELAYREQ_INTERVAL", PdelayReqTicks)
  <2>1. DOMAIN it1 = Timers
    BY <1>n
  <2>2. EnterTimers(it, to) = timerStart(it1, "ANNOUNCE_RECEIPT", AnnounceReceiptTicks)
    BY <1>3 DEF EnterTimers
  <2>3. \A u \in Needed(to) : u = "ANNOUNCE_RECEIPT"
    BY <1>3 DEF Needed
  <2> HIDE DEF it1
  <2>. QED
    BY <1>p, <1>t, <2>1, <2>2, <2>3, StartWatched
<1>4. CASE to = "SLAVE"
  <2>1. EnterTimers(it, to) = timerStart(it, "ANNOUNCE_RECEIPT", AnnounceReceiptTicks)
    BY <1>4 DEF EnterTimers
  <2>2. \A u \in Needed(to) : u = "ANNOUNCE_RECEIPT"
    BY <1>4 DEF Needed
  <2>. QED
    BY <1>p, <1>t, <2>1, <2>2, StartWatched
<1>5. CASE to \notin {"LISTENING", "MASTER", "PASSIVE", "SLAVE"}
  BY <1>5 DEF EnterTimers, Watched, Needed
<1>. QED
  BY <1>1, <1>2, <1>3, <1>4, <1>5

\* The timers do not depend on the settings, but for those stopped on leaving.
LEMMA EngineTimers ==
    ASSUME NEW m, NEW o, NEW it, NEW t, NEW n, NEW to
    PROVE  /\ Engine(m, o)!timerStart(it, t, n) = timerStart(it, t, n)
           /\ Engine(m, o)!EnterTimers(it, to) = EnterTimers(it, to)
<1>1. \A jt, u, k : Engine(m, o)!timerStart(jt, u, k) = timerStart(jt, u, k)
  BY DEF Engine!timerStart, Engine!Ticks, Engine!ToInt, timerStart, Ticks, ToInt
<1>2. \A jt, S : Engine(m, o)!StopAll(jt, S) = StopAll(jt, S)
  BY DEF Engine!StopAll, Engine!timerStop, StopAll, timerStop
<1>. QED
  BY <1>1, <1>2 DEF Engine!EnterTimers, EnterTimers, Engine!Timers, Timers

LEMMA ToStateWatched ==
    ASSUME NEW m, NEW o, NEW it, DOMAIN it = Timers, NEW from, NEW to
    PROVE  /\ Watched(to, Engine(m, o)!ToStateTimers(it, from, to))
           /\ Watched(to, ToStateTimers(it, from, to))
<1>1. DOMAIN Engine(m, o)!LeaveTimers(it, from) = Timers
  BY DEF Engine!LeaveTimers, Engine!StopAll
<1>2. DOMAIN LeaveTimers(it, from) = Timers
  BY DEF LeaveTimers, StopAll
<1>. QED
  BY <1>1, <1>2, EnterWatched, EngineTimers DEF Engine!ToStateTimers, ToStateTimers

\* Asking a timer stops none.
LEMMA AskedWatched ==
    ASSUME NEW m, NEW o, NEW state, Watched(state, itimer), NEW t
    PROVE  Watched(state, Engine(m, o)!AfterExpired(t))
<1> DEFINE up == [u \in DOMAIN itimer |-> Engine(m, o)!Advance(itimer[u], elapsed)]
<1>1. \A tm : Engine(m, o)!Advance(tm, elapsed).interval = tm.interval
  BY DEF Engine!Advance
<1>2. DOMAIN up = Timers /\ \A u \in Timers : up[u].interval = itimer[u].interval
  BY <1>1 DEF Watched
<1>3. Engine(m, o)!AfterExpired(t) =
        [up EXCEPT ![t] = [interval |-> @.interval, left |-> @.left, expire |-> FALSE]]
  BY DEF Engine!AfterExpired, Engine!Acknowledge, Engine!timerUpdate
<1> HIDE DEF up
<1>4. /\ DOMAIN Engine(m, o)!AfterExpired(t) = Timers
      /\ \A u \in Timers : Engine(m, o)!AfterExpired(t)[u].interval = itimer[u].interval
  BY <1>2, <1>3
<1>. QED
  BY <1>4, NeededTimers DEF Watched

-----------------------------------------------------------------------------
(* The data sets *)

\* d is a clock in the same state as c.
SameState(d, c) == DOMAIN d = DOMAIN c /\ d.portState = c.portState

LEMMA ToState ==
    ASSUME NEW m, NEW o, NEW c, "portState" \in DOMAIN c, NEW to
    PROVE  /\ "portState" \in DOMAIN Engine(m, o)!toState(c, to)
           /\ Engine(m, o)!toState(c, to).portState = to
           /\ "portState" \in DOMAIN toState(c, to)
           /\ toState(c, to).portState = to
<1>1. "portState" \in DOMAIN Engine(m, o)!toState(c, to) /\ Engine(m, o)!toState(c, to).portState = to
  BY DEF Engine!toState
<1>2. "portState" \in DOMAIN toState(c, to) /\ toState(c, to).portState = to
  BY DEF toState
<1>. QED
  BY <1>1, <1>2

LEMMA DataSetsSameState ==
    ASSUME NEW m, NEW o, NEW c, "portState" \in DOMAIN c, NEW f, NEW src, NEW ds
    PROVE  /\ SameState(Engine(m, o)!m1(c), c)
           /\ SameState(Engine(m, o)!s1(c, src, ds), c)
           /\ SameState(Engine(m, o)!addForeign(c, f), c)
           /\ SameState(m1(c), c)
<1>1. SameState(Engine(m, o)!m1(c), c) /\ SameState(m1(c), c)
  BY DEF SameState, Engine!m1, m1
<1>2. SameState(Engine(m, o)!s1(c, src, ds), c)
  BY DEF SameState, Engine!s1
<1>3. SameState(Engine(m, o)!addForeign(c, f), c)
  BY DEF SameState, Engine!addForeign
<1>. QED
  BY <1>1, <1>2, <1>3

LEMMA RecordAnnounceSameState ==
    ASSUME NEW m, NEW o, NEW c, "portState" \in DOMAIN c, NEW f
    PROVE  SameState(Engine(m, o)!RecordAnnounce(c, f), c)
<1> DEFINE s == Engine(m, o)!s1(c, f.src, f.ds)
<1>1. SameState(s, c) /\ SameState(Engine(m, o)!addForeign(c, f), c)
  BY DataSetsSameState
<1> HIDE DEF s
<1>2. \A i, r : SameState([s EXCEPT !.foreign[i] = r], c)
  BY <1>1 DEF SameState
<1>. QED
  BY <1>1, <1>2 DEF Engine!RecordAnnounce, s

LEMMA BmcExecSameState ==
    ASSUME NEW m, NEW o, NEW c, "portState" \in DOMAIN c
    PROVE  SameState(Engine(m, o)!bmcExec(c).clk, c)
<1> DEFINE b   == Engine(m, o)!Best(c.foreign, c.number_foreign_records, c.parentPortIdentity.clock)
           r   == c.foreign[b]
           cb  == [c EXCEPT !.foreign_record_best = b]
<1>1. SameState(cb, c)
  BY DEF SameState
<1>2. Engine(m, o)!bmcExec(c).clk \in
        {Engine(m, o)!m1(c), Engine(m, o)!m1(cb), cb, Engine(m, o)!s1(cb, r.src, r.ds)}
  BY DEF Engine!bmcExec
<1> HIDE DEF cb, r, b
<1>3. "portState" \in DOMAIN cb
  BY <1>1 DEF SameState
<1>4. /\ SameState(Engine(m, o)!m1(c), c)
      /\ SameState(Engine(m, o)!m1(cb), cb)
      /\ SameState(Engine(m, o)!s1(cb, r.src, r.ds), cb)
  BY <1>3, DataSetsSameState
<1>. QED
  BY <1>1, <1>2, <1>4 DEF SameState

-----------------------------------------------------------------------------
(* The handlers *)

\* A clock in the same state is as safe as the other.
LEMMA SameSafe ==
    ASSUME NEW c, NEW d, NEW it, Safe(c, it), SameState(d, c)
    PROVE  Safe(d, it)
BY DEF Safe, SameState

LEMMA EngineOut ==
    ASSUME NEW m, NEW o, NEW c, NEW type, NEW seq, NEW req
    PROVE  Engine(m, o)!Out(c, type, seq, req).type = type
BY DEF Engine!Out

\* A step leaves a clock and timers that are safe, and sends no reply.
StepSafe == Safe(ptpClock', itimer') /\ NoReply

LEMMA IgnoreWorked ==
    ASSUME NEW m, NEW o, NEW c, Safe(c, itimer), Engine(m, o)!Ignore(c)
    PROVE  StepSafe
BY DEF Engine!Ignore, StepSafe, NoReply

LEMMA ToFaultyWorked ==
    ASSUME NEW m, NEW o, NEW c, Safe(c, itimer), Engine(m, o)!ToFaulty(c)
    PROVE  StepSafe
<1> DEFINE d == Engine(m, o)!toState(c, "FAULTY")
           it == Engine(m, o)!ToStateTimers(itimer, c.portState, "FAULTY")
<1>1. ptpClock' = d /\ itimer' = it /\ tx' = tx
  BY DEF Engine!ToFaulty, Engine!Update
<1>2. "portState" \in DOMAIN c /\ DOMAIN itimer = Timers
  BY DEF Safe, Watched
<1>3. "portState" \in DOMAIN d /\ d.portState = "FAULTY"
  BY <1>2, ToState
<1>4. Watched("FAULTY", it)
  BY <1>2, ToStateWatched
<1> HIDE DEF d, it
<1>. QED
  BY <1>1, <1>3, <1>4 DEF StepSafe, NoReply, Safe

LEMMA AnnounceWorked ==
    ASSUME NEW m, NEW o, NEW c, Safe(c, itimer), NEW f, Engine(m, o)!handleAnnounce(c, f)
    PROVE  StepSafe
<1> DEFINE e == Engine(m, o)!RecordAnnounce(c, f)
           d == [e EXCEPT !.record_update = TRUE]
<1>1. CASE Engine(m, o)!Ignore(c)
  BY <1>1, IgnoreWorked
<1>2. CASE Engine(m, o)!Update(d, IF Engine(m, o)!Heard(c, f)
                                  THEN Engine(m, o)!RestartWatchdog(itimer) ELSE itimer)
  <2>1. SameState(e, c)
    BY RecordAnnounceSameState DEF Safe
  <2> HIDE DEF e
  <2>2. SameState(d, c)
    BY <2>1 DEF Safe, SameState
  <2> HIDE DEF d
  <2>3. AnnounceReceiptTicks \in 1..IntMax
    BY ProtocolAssumption
  <2>4. Watched(c.portState, timerStart(itimer, "ANNOUNCE_RECEIPT", AnnounceReceiptTicks))
    BY <2>3, StartWatched DEF Safe, Watched, Timers
  <2>5. Engine(m, o)!RestartWatchdog(itimer)
          = timerStart(itimer, "ANNOUNCE_RECEIPT", AnnounceReceiptTicks)
    BY EngineTimers DEF Engine!RestartWatchdog
  <2>6. ptpClock' = d /\ tx' = tx /\ Watched(c.portState, itimer')
    BY <1>2, <2>4, <2>5 DEF Engine!Update, Safe
  <2>. QED
    BY <2>2, <2>6 DEF StepSafe, NoReply, Safe, SameState
<1>. QED
  BY <1>1, <1>2 DEF Engine!handleAnnounce

LEMMA SyncWorked ==
    ASSUME NEW m, NEW o, NEW c, Safe(c, itimer), NEW f, Engine(m, o)!handleSync(c, f)
    PROVE  StepSafe
<1> DEFINE d == [c EXCEPT !.waiting_for_first_sync = FALSE,
                          !.sync_receive_time = [src |-> f.src, seq |-> f.seq],
                          !.waitingForFollow = f.twoStep,
                          !.recvSyncSequenceId = IF f.twoStep THEN f.seq ELSE @]
           t == Engine(m, o)!RequestTimer
           n == IF m = "E2E" THEN c.delayReqTicks ELSE PdelayReqTicks
<1>1. CASE Engine(m, o)!Ignore(c)
  BY <1>1, IgnoreWorked
<1>2. CASE Engine(m, o)!Update(d, Engine(m, o)!ArmRequestTimer(c, itimer))
  <2>1. SameState(d, c)
    BY DEF Safe, SameState
  <2>2. t \in Timers /\ t \notin Needed(c.portState)
    BY DEF Engine!RequestTimer, Timers, Needed
  <2>3. Engine(m, o)!ArmRequestTimer(c, itimer) \in {itimer, timerStart(itimer, t, n)}
    BY EngineTimers DEF Engine!ArmRequestTimer
  <2> HIDE DEF d, t, n
  <2>4. Watched(c.portState, timerStart(itimer, t, n))
    BY <2>2, StartWatched DEF Safe, Watched
  <2>5. ptpClock' = d /\ tx' = tx /\ Watched(c.portState, itimer')
    BY <1>2, <2>3, <2>4 DEF Engine!Update, Safe
  <2>. QED
    BY <2>1, <2>5 DEF StepSafe, NoReply, Safe, SameState
<1>. QED
  BY <1>1, <1>2 DEF Engine!handleSync

\* The handlers that only note what they receive.
LEMMA NotedWorked ==
    ASSUME NEW m, NEW o, NEW c, Safe(c, itimer), NEW f,
           \/ Engine(m, o)!handleFollowUp(c, f)
           \/ Engine(m, o)!handleDelayResp(c, f)
           \/ Engine(m, o)!handlePDelayResp(c, f)
           \/ Engine(m, o)!handlePDelayRespFollowUp(c, f)
    PROVE  StepSafe
<1>1. ASSUME NEW d, SameState(d, c), Engine(m, o)!Ignore(d) PROVE StepSafe
  BY <1>1, SameSafe, IgnoreWorked
<1>2. \A S : /\ SameState([c EXCEPT !.waitingForFollow = S], c)
             /\ SameState([c EXCEPT !.pdelay_resp_send_time = S], c)
  BY DEF Safe, SameState
<1>3. \A S, r : /\ SameState([c EXCEPT !.waitingForDelayResp = S, !.delayReqTicks = r], c)
                /\ SameState([c EXCEPT !.pdelay_resp_receive_time = S,
                                       !.recvPDelayRespSequenceId = r], c)
  BY DEF Safe, SameState
<1>4. SameState(c, c)
  BY DEF SameState
<1>5. CASE Engine(m, o)!handleFollowUp(c, f)
  BY <1>1, <1>2, <1>4, <1>5 DEF Engine!handleFollowUp
<1>6. CASE Engine(m, o)!handleDelayResp(c, f)
  BY <1>1, <1>3, <1>4, <1>6 DEF Engine!handleDelayResp
<1>7. CASE Engine(m, o)!handlePDelayResp(c, f)
  BY <1>1, <1>3, <1>4, <1>7 DEF Engine!handlePDelayResp
<1>8. CASE Engine(m, o)!handlePDelayRespFollowUp(c, f)
  BY <1>1, <1>2, <1>4, <1>8 DEF Engine!handlePDelayRespFollowUp
<1>. QED
  BY <1>5, <1>6, <1>7, <1>8

\* The handlers that answer.
LEMMA AnsweredWorked ==
    ASSUME NEW m, NEW o, NEW c, Safe(c, itimer), NEW f,
           Engine(m, o)!handleDelayReq(c, f) \/ Engine(m, o)!handlePDelayReq(c, f)
    PROVE  StepSafe
<1>1. ASSUME NEW d, SameState(d, c), NEW x, NEW next, x.type # "MANAGEMENT",
             Engine(m, o)!Reply(d, x, next)
      PROVE  StepSafe
  <2>1. Safe(d, itimer)
    BY <1>1, SameSafe
  <2>. QED
    BY <1>1, <2>1 DEF Engine!Reply, StepSafe, NoReply
<1>2. SameState(c, c) /\ \A S : SameState([c EXCEPT !.PdelayReqHeader = S], c)
  BY DEF Safe, SameState
<1>3. \A d, seq, req : /\ Engine(m, o)!Out(d, "DELAY_RESP", seq, req).type # "MANAGEMENT"
                       /\ Engine(m, o)!Out(d, "PDELAY_RESP", seq, req).type # "MANAGEMENT"
  BY EngineOut
<1>4. CASE Engine(m, o)!handleDelayReq(c, f)
  BY <1>1, <1>2, <1>3, <1>4, IgnoreWorked DEF Engine!handleDelayReq
<1>5. CASE Engine(m, o)!handlePDelayReq(c, f)
  BY <1>1, <1>2, <1>3, <1>5, IgnoreWorked DEF Engine!handlePDelayReq
<1>. QED
  BY <1>4, <1>5

LEMMA DispatchWorked ==
    ASSUME NEW m, NEW o, NEW c, Safe(c, itimer), NEW f, Engine(m, o)!Dispatch(c, f)
    PROVE  StepSafe
<1>1. \/ Engine(m, o)!Ignore(c) \/ Engine(m, o)!ToFaulty(c)
      \/ Engine(m, o)!handleAnnounce(c, f) \/ Engine(m, o)!handleSync(c, f)
      \/ Engine(m, o)!handleFollowUp(c, f) \/ Engine(m, o)!handleDelayResp(c, f)
      \/ Engine(m, o)!handlePDelayResp(c, f) \/ Engine(m, o)!handlePDelayRespFollowUp(c, f)
      \/ Engine(m, o)!handleDelayReq(c, f) \/ Engine(m, o)!handlePDelayReq(c, f)
  BY DEF Engine!Dispatch
<1>. QED
  BY <1>1, IgnoreWorked, ToFaultyWorked, AnnounceWorked, SyncWorked, NotedWorked, AnsweredWorked

\* What is no proper message is neither answered nor recorded: it is ignored,
\* or it sends the port to FAULTY.
LEMMA ImproperDispatch ==
    ASSUME NEW m, NEW o, NEW c, NEW f, f.form # "full", Engine(m, o)!Dispatch(c, f)
    PROVE  /\ tx' = tx
           /\ pc' = AfterHandle
           /\ ptpClock' = c \/ f.form \in {"runt", "short"}
<1>1. \/ Engine(m, o)!Ignore(c)
      \/ Engine(m, o)!ToFaulty(c) /\ f.form \in {"runt", "short"}
  BY DEF Engine!Dispatch
<1>. QED
  BY <1>1 DEF Engine!Ignore, Engine!ToFaulty, Engine!Update, Engine!GoTo, Engine!AfterHandle, AfterHandle

-----------------------------------------------------------------------------
(* The steps of the protocol *)

LEMMA StateDecisionWorked ==
    ASSUME NEW m, NEW o, Safe(ptpClock, itimer), Engine(m, o)!StateDecision
    PROVE  StepSafe
<1> DEFINE a == [ptpClock EXCEPT !.message_activity = FALSE]
           b == [a EXCEPT !.record_update = FALSE]
           d == Engine(m, o)!bmcExec(b)
<1>1. SameState(a, ptpClock) /\ SameState(b, ptpClock)
  BY DEF Safe, SameState
<1>2. SameState(d.clk, b)
  <2>1. "portState" \in DOMAIN b
    BY <1>1 DEF Safe, SameState
  <2> HIDE DEF b
  <2>. QED
    BY <2>1, BmcExecSameState
<1>3. \/ /\ ptpClock' = Engine(m, o)!toState(d.clk, d.state)
         /\ itimer' = Engine(m, o)!ToStateTimers(itimer, a.portState, d.state)
      \/ ptpClock' \in {d.clk, a} /\ itimer' = itimer
  BY DEF Engine!StateDecision
<1>4. tx' = tx
  BY DEF Engine!StateDecision
<1> HIDE DEF a, b, d
<1>5. "portState" \in DOMAIN d.clk /\ SameState(d.clk, ptpClock)
  BY <1>1, <1>2 DEF Safe, SameState
<1>6. CASE /\ ptpClock' = Engine(m, o)!toState(d.clk, d.state)
           /\ itimer' = Engine(m, o)!ToStateTimers(itimer, a.portState, d.state)
  <2>1. DOMAIN itimer = Timers
    BY DEF Safe, Watched
  <2>2. Watched(d.state, itimer')
    BY <1>6, <2>1, ToStateWatched
  <2>3. "portState" \in DOMAIN ptpClock' /\ ptpClock'.portState = d.state
    BY <1>5, <1>6, ToState
  <2>. QED
    BY <1>4, <2>2, <2>3 DEF StepSafe, NoReply, Safe
<1>7. CASE ptpClock' \in {d.clk, a} /\ itimer' = itimer
  BY <1>1, <1>4, <1>5, <1>7, SameSafe DEF StepSafe, NoReply
<1>. QED
  BY <1>3, <1>6, <1>7

LEMMA MovesWorked ==
    ASSUME NEW m, NEW o, Safe(ptpClock, itimer),
           \/ Engine(m, o)!SlaveBranch \/ Engine(m, o)!MasterBranch
           \/ Engine(m, o)!netSelect \/ Engine(m, o)!netRecv
    PROVE  StepSafe
BY DEF Engine!SlaveBranch, Engine!MasterBranch, Engine!netSelect, Engine!netRecv,
       StepSafe, NoReply

LEMMA ToStateWorked ==
    ASSUME NEW m, NEW o, NEW c, SameState(c, ptpClock), Safe(ptpClock, itimer), NEW it,
           DOMAIN it = Timers, NEW from, NEW to, tx' = tx,
           ptpClock' = Engine(m, o)!toState(c, to),
           itimer' = Engine(m, o)!ToStateTimers(it, from, to)
    PROVE  StepSafe
<1>1. "portState" \in DOMAIN c
  BY DEF Safe, SameState
<1>. QED
  BY <1>1, ToState, ToStateWatched DEF StepSafe, NoReply, Safe

LEMMA FaultsWorked ==
    ASSUME NEW m, NEW o, Safe(ptpClock, itimer),
           Engine(m, o)!FaultCleared \/ Engine(m, o)!MasterEnd
    PROVE  StepSafe
<1>1. SameState(ptpClock, ptpClock) /\ DOMAIN itimer = Timers
  BY DEF SameState, Safe, Watched
<1>2. CASE Engine(m, o)!FaultCleared
  BY <1>1, <1>2, ToStateWorked DEF Engine!FaultCleared
<1>3. CASE Engine(m, o)!MasterEnd
  <2>1. CASE Engine(m, o)!OnlyAsSlave
    BY <1>1, <1>3, <2>1, ToStateWorked DEF Engine!MasterEnd
  <2>2. CASE ~Engine(m, o)!OnlyAsSlave
    BY <1>3, <2>2 DEF Engine!MasterEnd, StepSafe, NoReply
  <2>. QED
    BY <2>1, <2>2
<1>. QED
  BY <1>2, <1>3

LEMMA TimeoutWorked ==
    ASSUME NEW m, NEW o, Safe(ptpClock, itimer), Engine(m, o)!AnnounceReceiptTimeout
    PROVE  StepSafe
<1> DEFINE c == [ptpClock EXCEPT !.number_foreign_records = 0, !.foreign_record_i = 0]
           to == IF Engine(m, o)!MayBeMaster THEN "MASTER" ELSE "LISTENING"
           d == IF Engine(m, o)!MayBeMaster THEN Engine(m, o)!m1(c) ELSE c
           it == Engine(m, o)!AfterExpired("ANNOUNCE_RECEIPT")
<1>1. SameState(c, ptpClock)
  BY DEF Safe, SameState
<1>2. tx' = tx
  BY DEF Engine!AnnounceReceiptTimeout
<1>3. \/ /\ ptpClock' = Engine(m, o)!toState(d, to)
         /\ itimer' = Engine(m, o)!ToStateTimers(it, c.portState, to)
      \/ ptpClock' = ptpClock /\ itimer' = it
  BY DEF Engine!AnnounceReceiptTimeout
<1> HIDE DEF c, to, it
<1>4. SameState(d, ptpClock)
  BY <1>1, DataSetsSameState DEF Safe, SameState
<1>5. Watched(ptpClock.portState, it)
  BY AskedWatched DEF Safe, it
<1> HIDE DEF d
<1>6. DOMAIN it = Timers
  BY <1>5 DEF Watched
<1>7. CASE ptpClock' = ptpClock /\ itimer' = it
  BY <1>2, <1>5, <1>7 DEF StepSafe, NoReply, Safe
<1>. QED
  BY <1>2, <1>3, <1>4, <1>6, <1>7, ToStateWorked

\* The steps that ask a timer, and send what is due.
LEMMA AskedWorked ==
    ASSUME NEW m, NEW o, Safe(ptpClock, itimer),
           \/ Engine(m, o)!SlaveRequest \/ Engine(m, o)!MasterRequest
           \/ Engine(m, o)!issueSync \/ Engine(m, o)!issueAnnounce
    PROVE  StepSafe
<1>1. NoFrame.type # "MANAGEMENT" /\ Engine(m, o)!NoFrame = NoFrame
  BY DEF NoFrame, Engine!NoFrame
<1>2. /\ ptpClock' = ptpClock
      /\ \E t : itimer' = Engine(m, o)!AfterExpired(t)
  BY DEF Engine!SlaveRequest, Engine!MasterRequest, Engine!IssueRequest, Engine!issueSync,
         Engine!issueAnnounce
<1>3. Safe(ptpClock', itimer')
  BY <1>2, AskedWatched DEF Safe
<1>4. \/ tx' = tx \/ tx' = NoFrame
      \/ \E c, type, seq, req : /\ tx' = Engine(m, o)!Out(c, type, seq, req)
                                /\ type # "MANAGEMENT"
  <2>1. "DELAY_REQ" # "MANAGEMENT" /\ "PDELAY_REQ" # "MANAGEMENT"
        /\ "SYNC" # "MANAGEMENT" /\ "ANNOUNCE" # "MANAGEMENT"
    OBVIOUS
  <2>2. CASE Engine(m, o)!SlaveRequest \/ Engine(m, o)!MasterRequest
    BY <2>1, <2>2, Zenon DEF Engine!SlaveRequest, Engine!MasterRequest, Engine!IssueRequest
  <2>3. CASE Engine(m, o)!issueSync
    BY <2>1, <2>3, Zenon DEF Engine!issueSync
  <2>4. CASE Engine(m, o)!issueAnnounce
    BY <1>1, <2>1, <2>4, Zenon DEF Engine!issueAnnounce
  <2>. QED
    BY <2>2, <2>3, <2>4
<1>. QED
  BY <1>1, <1>3, <1>4, EngineOut DEF StepSafe, NoReply

\* The steps after a transmission, and the first Announce.
LEMMA SentWorked ==
    ASSUME NEW m, NEW o, Safe(ptpClock, itimer),
           \/ Engine(m, o)!issuePDelayRespFollowUp \/ Engine(m, o)!SyncSent
           \/ Engine(m, o)!FirstAnnounce
    PROVE  StepSafe
<1>1. NoFrame.type # "MANAGEMENT" /\ Engine(m, o)!NoFrame = NoFrame
  BY DEF NoFrame, Engine!NoFrame
<1>2. itimer' = itimer
  BY DEF Engine!issuePDelayRespFollowUp, Engine!SyncSent, Engine!FirstAnnounce
<1>3. SameState(ptpClock', ptpClock)
  BY DEF Engine!issuePDelayRespFollowUp, Engine!SyncSent, Engine!FirstAnnounce, Safe, SameState
<1>4. NoReply
  <2>1. CASE Engine(m, o)!issuePDelayRespFollowUp
    BY <1>1, <2>1, EngineOut DEF Engine!issuePDelayRespFollowUp, NoReply
  <2>2. CASE Engine(m, o)!SyncSent
    BY <1>1, <2>2, EngineOut DEF Engine!SyncSent, NoReply
  <2>3. CASE Engine(m, o)!FirstAnnounce
    BY <2>3, EngineOut DEF Engine!FirstAnnounce, NoReply
  <2>. QED
    BY <2>1, <2>2, <2>3
<1>. QED
  BY <1>2, <1>3, <1>4 DEF StepSafe, Safe, SameState

LEMMA RequestSentWorked ==
    ASSUME NEW m, NEW o, Safe(ptpClock, itimer),
           Engine(m, o)!DelayReqSent \/ Engine(m, o)!PDelayReqSent
    PROVE  StepSafe
<1>1. tx' = tx
  BY DEF Engine!DelayReqSent, Engine!PDelayReqSent
<1>2. SameState(ptpClock', ptpClock)
  BY DEF Engine!DelayReqSent, Engine!PDelayReqSent, Safe, SameState
<1>3. Watched(ptpClock.portState, itimer')
  <2>1. CASE Engine(m, o)!DelayReqSent
    <3>1. PICK n : itimer' = timerStart(itimer, "DELAYREQ_INTERVAL", n)
      <4>1. PICK n : itimer' = Engine(m, o)!timerStart(itimer, "DELAYREQ_INTERVAL", n)
        BY <2>1 DEF Engine!DelayReqSent
      <4>. QED
        BY <4>1, EngineTimers
    <3>2. "DELAYREQ_INTERVAL" \in Timers \ Needed(ptpClock.portState)
      BY DEF Timers, Needed
    <3>. QED
      BY <3>1, <3>2, StartWatched DEF Safe, Watched
  <2>2. CASE Engine(m, o)!PDelayReqSent
    BY <2>2 DEF Engine!PDelayReqSent, Safe
  <2>. QED
    BY <2>1, <2>2
<1>. QED
  BY <1>1, <1>2, <1>3 DEF StepSafe, NoReply, Safe, SameState

LEMMA PassWorked ==
    ASSUME NEW m, NEW o, Safe(ptpClock, itimer), RestOfPass(m, o)
    PROVE  StepSafe
BY MovesWorked, FaultsWorked, TimeoutWorked, AskedWorked, SentWorked, RequestSentWorked
DEF RestOfPass, Engine!SlaveStep

-----------------------------------------------------------------------------
(* The steps of the managed port *)

LEMMA HeededSafe == ASSUME Safe(ptpClock, itimer) PROVE Safe(Heeded, itimer) /\ SameState(Heeded, ptpClock)
BY DEF Heeded, Safe, SameState

\* Initialisation starts the timer of a listening port, whatever ran before.
LEMMA ReinitialiseOK == ManagedInv /\ Reinitialise => ManagedInv'
<1> SUFFICES ASSUME ManagedInv, Reinitialise PROVE ManagedInv'
  OBVIOUS
<1> DEFINE c == [ptpClock EXCEPT !.number_foreign_records = 0, !.delayReqTicks = InitialDelayReqTicks]
<1>1. /\ ptpClock' = toState(m1(c), "LISTENING")
      /\ itimer' = ToStateTimers(itimer, "INITIALIZING", "LISTENING")
      /\ pc = "top" /\ pc' = "top" /\ branch' = branch /\ tx' = tx
  BY DEF Reinitialise, doInit, At
<1>2. SameState(c, ptpClock)
  BY DEF ManagedInv, Safe, SameState
<1> HIDE DEF c
<1>3. "portState" \in DOMAIN m1(c)
  BY <1>2, DataSetsSameState DEF ManagedInv, Safe, SameState
<1>4. DOMAIN itimer = Timers
  BY DEF ManagedInv, Safe, Watched
<1>5. Safe(ptpClock', itimer')
  BY <1>1, <1>3, <1>4, ToState, ToStateWatched DEF Safe
<1>6. DOMAIN settings' = Settings
  BY DEF Reinitialise, DefaultSettings, Settings
<1>7. QuietPass'
  BY <1>1 DEF ManagedInv, QuietPass
<1>. QED
  BY <1>5, <1>6, <1>7 DEF ManagedInv

LEMMA ManagedDecisionOK == ManagedInv /\ Decision => ManagedInv'
<1> SUFFICES ASSUME ManagedInv, Decision PROVE ManagedInv'
  OBVIOUS
<1>1. settings' = settings /\ branch' = branch /\ tx' = tx /\ pc' = "switch" /\ pc = "top"
  BY DEF Decision, Engine!StateDecision, Engine!GoTo, Engine!At, At, GoTo
<1>2. Safe(ptpClock', itimer')
  <2>1. CASE ptpClock.portState = "DISABLED"
    BY <2>1 DEF Decision, ManagedInv, Safe
  <2>2. CASE ptpClock.portState # "DISABLED"
    BY <2>2, StateDecisionWorked DEF Decision, ManagedInv, StepSafe
  <2>. QED
    BY <2>1, <2>2
<1>3. QuietPass'
  BY <1>1 DEF ManagedInv, QuietPass
<1>. QED
  BY <1>1, <1>2, <1>3 DEF ManagedInv

LEMMA DisabledOK == ManagedInv /\ (DisabledBranch \/ DisabledEnd) => ManagedInv'
<1> SUFFICES ASSUME ManagedInv, DisabledBranch \/ DisabledEnd PROVE ManagedInv'
  OBVIOUS
<1>1. settings' = settings /\ ptpClock' = ptpClock /\ itimer' = itimer /\ tx = NoFrame /\ tx' = tx
  BY DEF DisabledBranch, DisabledEnd, At
<1>2. QuietPass'
  BY <1>1 DEF DisabledBranch, DisabledEnd, GoTo, QuietPass, NoFrame
<1>. QED
  BY <1>1, <1>2 DEF ManagedInv

\* The data sets that a message sees name the state of the port.
LEMMA ManagedClockState ==
    ASSUME DOMAIN settings = Settings
    PROVE  "portState" \in DOMAIN ManagedClock /\ ManagedClock.portState = ptpClock.portState
BY DEF ManagedClock, Settings

\* What a management message does.
LEMMA ManagementEffect ==
    ASSUME ManagedInv, ManagementArrived
    PROVE  /\ DOMAIN settings' = Settings
           /\ itimer' = itimer /\ branch' = branch
           /\ pc' = AfterHandle
           /\ tx' = tx \/ tx'.type = "MANAGEMENT"
           /\ "portState" \in DOMAIN ptpClock'
           /\ \/ ptpClock'.portState = ptpClock.portState
              \/ /\ ptpClock'.portState = "INITIALIZING"
                 /\ rx.frame.id \in {"INITIALIZE", "ENABLE_PORT"}
              \/ ptpClock'.portState = "DISABLED"
<1> DEFINE m == rx.frame
           r == handleMM(ManagedClock, m)
<1>1. /\ SameState(Heeded, ptpClock) /\ "portState" \in DOMAIN Heeded
      /\ DOMAIN settings = Settings
  BY HeededSafe DEF ManagedInv, Safe
<1>2. itimer' = itimer /\ branch' = branch /\ pc' = AfterHandle /\ tx = NoFrame
  BY DEF ManagementArrived, handleManagement, Ignore, GoTo, At
<1>3. \/ settings' = settings /\ ptpClock' = Heeded /\ tx' = tx
      \/ /\ settings' = Restrict(r.clk, DOMAIN settings)
         /\ ptpClock' = [Heeded EXCEPT !.portState = r.clk.portState]
         /\ tx' = IF IsSent(r) THEN OutReply(m, r) ELSE NoFrame
  BY DEF ManagementArrived, handleManagement, Ignore
<1>4. CASE settings' = settings /\ ptpClock' = Heeded /\ tx' = tx
  BY <1>1, <1>2, <1>4 DEF SameState
<1>5. CASE /\ settings' = Restrict(r.clk, DOMAIN settings)
           /\ ptpClock' = [Heeded EXCEPT !.portState = r.clk.portState]
           /\ tx' = IF IsSent(r) THEN OutReply(m, r) ELSE NoFrame
  <2>1. \/ r.clk.portState = ptpClock.portState
        \/ r.clk.portState = "INITIALIZING" /\ m.id \in {"INITIALIZE", "ENABLE_PORT"}
        \/ r.clk.portState = "DISABLED"
    BY <1>1, ManagedClockState, OnlyCommandsMove
  <2> HIDE DEF r
  <2>2. DOMAIN settings' = Settings
    BY <1>1, <1>5 DEF Restrict
  <2>3. tx' = tx \/ tx'.type = "MANAGEMENT"
    BY <1>2, <1>5 DEF OutReply
  <2>4. "portState" \in DOMAIN ptpClock' /\ ptpClock'.portState = r.clk.portState
    BY <1>1, <1>5
  <2>. QED
    BY <1>2, <2>1, <2>2, <2>3, <2>4
<1>. QED
  BY <1>3, <1>4, <1>5

LEMMA ManagementArrivedOK == ManagedInv /\ ManagementArrived => ManagedInv'
<1> SUFFICES ASSUME ManagedInv, ManagementArrived PROVE ManagedInv'
  OBVIOUS
<1>1. Watched(ptpClock'.portState, itimer')
  BY ManagementEffect DEF ManagedInv, Safe, Watched, Needed
<1>2. QuietPass'
  BY ManagementEffect DEF ManagedInv, QuietPass, AfterHandle, NoFrame
<1>. QED
  BY <1>1, <1>2, ManagementEffect DEF ManagedInv, Safe

LEMMA MessageDroppedOK == ManagedInv /\ MessageDropped => ManagedInv'
<1> SUFFICES ASSUME ManagedInv, MessageDropped PROVE ManagedInv'
  OBVIOUS
<1>1. /\ ptpClock' = Heeded /\ itimer' = itimer /\ tx' = tx /\ settings' = settings
      /\ pc' = AfterHandle /\ branch' = branch
  BY DEF MessageDropped, Ignore, GoTo
<1>2. QuietPass'
  BY <1>1 DEF ManagedInv, QuietPass, AfterHandle
<1>. QED
  BY <1>1, <1>2, HeededSafe DEF ManagedInv

\* A disabled port passes nothing on to the protocol but what is no message.
LEMMA HandledWhenDisabled ==
    ASSUME MessageHandled, ptpClock.portState = "DISABLED", "portState" \in DOMAIN ptpClock
    PROVE  /\ tx' = tx
           /\ pc' = AfterHandle
           /\ ptpClock'.portState = "DISABLED" \/ Unparsable
<1>1. PICK m, o : Engine(m, o)!handle
  BY DEF MessageHandled
<1> DEFINE c == [ptpClock EXCEPT !.message_activity = TRUE]
<1>2. CASE rx.frame = NoFrame
  <2>1. Engine(m, o)!Ignore(ptpClock)
    BY <1>1, <1>2 DEF Engine!handle, Engine!NoFrame, NoFrame
  <2>. QED
    BY <2>1 DEF Engine!Ignore, Engine!GoTo, Engine!AfterHandle, AfterHandle
<1>3. CASE rx.frame # NoFrame
  <2>1. Engine(m, o)!Dispatch(c, rx.frame)
    BY <1>1, <1>3 DEF Engine!handle, Engine!NoFrame, NoFrame
  <2>2. rx.frame.form # "full"
    BY <1>3 DEF MessageHandled, IsDropped
  <2>3. c.portState = "DISABLED"
    OBVIOUS
  <2> HIDE DEF c
  <2>. QED
    BY <1>3, <2>1, <2>2, <2>3, ImproperDispatch DEF Unparsable
<1>. QED
  BY <1>2, <1>3

LEMMA MessageHandledOK == ManagedInv /\ MessageHandled => ManagedInv' /\ NoReply
<1> SUFFICES ASSUME ManagedInv, MessageHandled PROVE ManagedInv' /\ NoReply
  OBVIOUS
<1>1. PICK m, o : Engine(m, o)!handle
  BY DEF MessageHandled
<1>2. settings' = settings /\ branch' = branch /\ pc = "burst"
  BY <1>1 DEF MessageHandled, Engine!handle, Engine!At
<1> DEFINE c == [ptpClock EXCEPT !.message_activity = TRUE]
<1>3. Safe(ptpClock, itimer) /\ Safe(c, itimer)
  BY DEF ManagedInv, Safe
<1>4. Engine(m, o)!Ignore(ptpClock) \/ Engine(m, o)!Dispatch(c, rx.frame)
  BY <1>1 DEF Engine!handle
<1> HIDE DEF c
<1>5. StepSafe
  BY <1>3, <1>4, IgnoreWorked, DispatchWorked
<1>6. QuietPass'
  <2>1. SUFFICES ASSUME branch = "disabled" PROVE QuietPass'
    BY <1>2 DEF QuietPass
  <2>2. ptpClock.portState = "DISABLED"
    BY <1>2, <2>1 DEF ManagedInv, QuietPass
  <2>3. tx' = tx /\ pc' = AfterHandle
    BY <1>3, <2>2, HandledWhenDisabled DEF Safe
  <2>. QED
    BY <1>2, <2>1, <2>3 DEF ManagedInv, QuietPass, AfterHandle
<1>. QED
  BY <1>2, <1>5, <1>6 DEF ManagedInv, StepSafe

\* A quiet pass takes none of the steps of the protocol but these.
LEMMA QuietSteps ==
    ASSUME NEW m, NEW o, QuietPass, branch = "disabled", RestOfPass(m, o)
    PROVE  /\ pc' \in {"top", "recv", "burst", "end"} \/ branch' # "disabled"
           /\ ptpClock' = ptpClock \/ ptpClock.portState = "FAULTY"
           /\ pc \in {"poll", "recv"} \/ pc' = "top" \/ branch' # "disabled"
           /\ tx' = tx
<1>1. \/ Engine(m, o)!FaultCleared \/ Engine(m, o)!SlaveBranch \/ Engine(m, o)!MasterBranch
      \/ Engine(m, o)!netSelect \/ Engine(m, o)!netRecv
  BY DEF QuietPass, RestOfPass, Engine!SlaveStep, Engine!At, Engine!issuePDelayRespFollowUp,
         Engine!AnnounceReceiptTimeout, Engine!SlaveRequest, Engine!DelayReqSent,
         Engine!PDelayReqSent, Engine!FirstAnnounce, Engine!issueSync, Engine!SyncSent,
         Engine!issueAnnounce, Engine!MasterRequest
<1>. QED
  BY <1>1 DEF Engine!FaultCleared, Engine!SlaveBranch, Engine!MasterBranch, Engine!netSelect,
              Engine!netRecv, Engine!GoTo, Engine!At, Engine!AfterHandle

LEMMA PassGoesOnOK == ManagedInv /\ PassGoesOn => ManagedInv' /\ NoReply
<1> SUFFICES ASSUME ManagedInv, PassGoesOn PROVE ManagedInv' /\ NoReply
  OBVIOUS
<1>1. PICK m, o : RestOfPass(m, o)
  BY DEF PassGoesOn
<1>2. StepSafe /\ settings' = settings
  BY <1>1, PassWorked DEF PassGoesOn, ManagedInv
<1>3. branch' \in {branch, "slave", "master"}
  BY <1>1 DEF RestOfPass, Engine!SlaveStep, Engine!FaultCleared, Engine!SlaveBranch,
     Engine!MasterBranch, Engine!netSelect, Engine!netRecv, Engine!issuePDelayRespFollowUp,
     Engine!AnnounceReceiptTimeout, Engine!SlaveRequest, Engine!DelayReqSent,
     Engine!PDelayReqSent, Engine!FirstAnnounce, Engine!issueSync, Engine!SyncSent,
     Engine!issueAnnounce, Engine!MasterRequest, Engine!IssueRequest, Engine!MasterEnd
<1>4. QuietPass'
  <2>1. SUFFICES ASSUME branch = "disabled", branch' = "disabled" PROVE QuietPass'
    BY <1>3 DEF QuietPass
  <2>2. /\ pc' \in {"top", "recv", "burst", "end"}
        /\ ptpClock' = ptpClock \/ ptpClock.portState = "FAULTY"
        /\ pc \in {"poll", "recv"} \/ pc' = "top"
        /\ tx' = tx
    BY <1>1, <2>1, QuietSteps DEF ManagedInv
  <2>. QED
    BY <2>1, <2>2 DEF ManagedInv, QuietPass
<1>. QED
  BY <1>2, <1>4 DEF ManagedInv, StepSafe

LEMMA ManagedEnvironmentOK == ManagedInv /\ ManagedEnvironment => ManagedInv' /\ NoReply
<1> SUFFICES ASSUME ManagedInv, ManagedEnvironment PROVE ManagedInv' /\ NoReply
  OBVIOUS
<1>1. /\ settings' = settings /\ ptpClock' = ptpClock /\ itimer' = itimer
      /\ pc' = pc /\ branch' = branch /\ tx' \in {tx, NoFrame}
  BY DEF ManagedEnvironment, Tick, Transmit, Arrive
<1>. QED
  BY <1>1 DEF ManagedInv, QuietPass, NoReply, NoFrame

-----------------------------------------------------------------------------
(* The theorems *)

LEMMA ManagedInitOK == ManagedInit => ManagedInv
<1> SUFFICES ASSUME ManagedInit PROVE ManagedInv
  OBVIOUS
<1>1. "portState" \in DOMAIN ptpClock /\ ptpClock.portState = "INITIALIZING"
  BY DEF ManagedInit, Init, InitialClock
<1>2. DOMAIN itimer = Timers
  BY DEF ManagedInit, Init
<1>3. DOMAIN settings = Settings
  BY DEF ManagedInit, DefaultSettings, Settings
<1>4. QuietPass
  BY DEF ManagedInit, Init, QuietPass
<1>. QED
  BY <1>1, <1>2, <1>3, <1>4 DEF ManagedInv, Safe, Watched, Needed

LEMMA ManagedNextOK == ManagedInv /\ [ManagedNext]_managedVars => ManagedInv'
<1>1. ManagedInv /\ UNCHANGED managedVars => ManagedInv'
  BY DEF ManagedInv, managedVars, vars, QuietPass
<1>. QED
  BY <1>1, ReinitialiseOK, ManagedDecisionOK, DisabledOK, ManagementArrivedOK, MessageDroppedOK,
     MessageHandledOK, PassGoesOnOK, ManagedEnvironmentOK
  DEF ManagedNext, ManagedStep

\* The invariant of a managed port.
THEOREM ManagedInvariant == ManagedSpec => []ManagedInv
<1>. QED
  BY ManagedInitOK, ManagedNextOK, PTL DEF ManagedSpec

\* No command, setting or reply that is overheard leaves a port without the
\* timers its state needs, though the commands write the state behind the back
\* of toState.
THEOREM WatchdogSurvivesManagement == ManagedSpec => []WatchdogArmed
<1>1. ManagedInv => WatchdogArmed
  BY DEF ManagedInv, Safe, Watched, Needed, WatchdogArmed, Armed
<1>. QED
  BY <1>1, ManagedInvariant, PTL

\* A settled disabled port sends replies to managers and nothing else.
THEOREM QuietWhileDisabled == ManagedSpec => []DisabledQuiet
<1>1. ManagedInv => DisabledQuiet
  BY DEF ManagedInv, QuietPass, DisabledQuiet
<1>. QED
  BY <1>1, ManagedInvariant, PTL

\* A settled disabled port leaves that state for a command or for a frame it
\* cannot parse.
THEOREM DisabledUntilCommanded == ManagedSpec => DisabledHolds
<1> DEFINE Leaves == /\ ptpClock.portState = "DISABLED" /\ branch = "disabled"
                     /\ ptpClock'.portState # "DISABLED"
           Called == pc = "burst" /\ (Unparsable \/ rx.frame.id \in {"ENABLE_PORT", "INITIALIZE"})
<1>1. ASSUME ManagedInv, [ManagedNext]_managedVars, Leaves PROVE Called
  <2>1. "portState" \in DOMAIN ptpClock
    BY <1>1 DEF ManagedInv, Safe
  <2>2. CASE ManagementArrived
    BY <1>1, <2>2, ManagementEffect DEF ManagementArrived, At
  <2>3. CASE MessageHandled
    <3>1. pc = "burst"
      BY <2>3 DEF MessageHandled, Engine!handle, Engine!At
    <3>. QED
      BY <1>1, <2>1, <2>3, <3>1, HandledWhenDisabled
  <2>4. CASE PassGoesOn
    <3>1. PICK m, o : RestOfPass(m, o)
      BY <2>4 DEF PassGoesOn
    <3>. QED
      BY <1>1, <3>1, QuietSteps DEF ManagedInv
  <2>5. CASE Reinitialise \/ Decision
    BY <1>1, <2>1, <2>5 DEF Reinitialise, doInit, Decision
  <2>6. CASE MessageDropped
    BY <1>1, <2>6, HeededSafe DEF ManagedInv, MessageDropped, Ignore, SameState
  <2>7. CASE DisabledBranch \/ DisabledEnd \/ ManagedEnvironment \/ UNCHANGED managedVars
    <3>1. ptpClock' = ptpClock
      BY <2>7 DEF DisabledBranch, DisabledEnd, ManagedEnvironment, Tick, Transmit, Arrive,
                  managedVars, vars
    <3>. QED
      BY <1>1, <3>1
  <2>. QED
    BY <1>1, <2>2, <2>3, <2>4, <2>5, <2>6, <2>7 DEF ManagedNext, ManagedStep
<1>2. ManagedInv /\ [ManagedNext]_managedVars => [Leaves => Called]_managedVars
  BY <1>1
<1>. QED
  BY <1>2, ManagedInvariant, PTL DEF ManagedSpec, DisabledHolds, Leaves, Called

\* Every exchange of management messages dies out: a reply is of a lower kind
\* than the message it answers, in every state of the port.
THEOREM ExchangesEnd == ManagedSpec => ConversationsEnd
<1> DEFINE Answers == tx' # tx /\ tx'.type = "MANAGEMENT"
           Lower == Precedence(tx'.tlv, tx'.action)
                      < Precedence(rx.frame.tlv, rx.frame.action)
<1>1. ASSUME ManagedInv, [ManagedNext]_managedVars, Answers PROVE Lower
  <2>1. CASE ManagementArrived
    <3> DEFINE r == handleMM(ManagedClock, rx.frame)
    <3>1. /\ IsHandled(rx.frame)
          /\ tx' = IF IsSent(r) THEN OutReply(rx.frame, r) ELSE NoFrame
      BY <1>1, <2>1 DEF ManagementArrived, handleManagement, Ignore
    <3>2. IsSent(r)
      BY <1>1, <3>1 DEF NoFrame
    <3>3. Precedence(r.tlv, r.action) < Precedence(rx.frame.tlv, rx.frame.action)
      BY <3>1, <3>2, RepliesDescend
    <3> HIDE DEF r
    <3>4. tx'.tlv = r.tlv /\ tx'.action = r.action
      BY <3>1, <3>2 DEF OutReply
    <3>. QED
      BY <3>3, <3>4
  <2>2. CASE MessageHandled \/ PassGoesOn \/ ManagedEnvironment
    BY <1>1, <2>2, MessageHandledOK, PassGoesOnOK, ManagedEnvironmentOK DEF NoReply
  <2>3. CASE \/ Reinitialise \/ Decision \/ DisabledBranch \/ MessageDropped \/ DisabledEnd
             \/ UNCHANGED managedVars
    <3>1. tx' = tx
      BY <2>3 DEF Reinitialise, doInit, Decision, Engine!StateDecision, DisabledBranch,
                  MessageDropped, Ignore, DisabledEnd, managedVars, vars
    <3>. QED
      BY <1>1, <3>1
  <2>. QED
    BY <1>1, <2>1, <2>2, <2>3 DEF ManagedNext, ManagedStep
<1>2. ManagedInv /\ [ManagedNext]_managedVars => [Answers => Lower]_managedVars
  BY <1>1
<1>. QED
  BY <1>2, ManagedInvariant, PTL DEF ManagedSpec, ConversationsEnd, Answers, Lower
=============================================================================
