------------------------------ MODULE Protocol ------------------------------
(***************************************************************************)
(* The port state machine of the daemon (src/esl/sw/protocol.cpp).  The    *)
(* single protocol thread runs doState over and over; one pass is cut into *)
(* the steps between which it accesses registers or waits, so that ticks   *)
(* of the timer interrupt, arriving frames and the end of a transmission   *)
(* fall between any two of them.                                           *)
(*                                                                         *)
(* The times the servo is fed are represented by the identity of the       *)
(* message they are timestamps of; what the servo computes from them is    *)
(* left out.                                                               *)
(***************************************************************************)
EXTENDS Bmc, PtpTimer

CONSTANTS
    SlaveOnly,              \* rtOpts->slaveOnly
    DelayMechanism,         \* "E2E" or "P2P"
    TwoStep,                \* ptpClock->twoStepFlag
    SeqMod,                 \* 2^16: the sequence ids are UInteger16
    ListenTicks,            \* periods of the timers, in ticks
    AnnounceReceiptTicks,
    AnnounceTicks,
    SyncTicks,
    PdelayReqTicks,
    InitialDelayReqTicks,
    MaxElapsed,             \* bound: ticks pending between two timerUpdate calls
    Frames,                 \* the frames the network may deliver
    TxTimestampMayMiss      \* can the wait for a transmit timestamp time out

PortStates == {"INITIALIZING", "FAULTY", "LISTENING", "MASTER", "PASSIVE", "SLAVE"}

Timers == {"PDELAYREQ_INTERVAL", "DELAYREQ_INTERVAL", "SYNC_INTERVAL",
           "ANNOUNCE_RECEIPT", "ANNOUNCE_INTERVAL"}

MessageTypes == {"ANNOUNCE", "SYNC", "FOLLOW_UP", "DELAY_REQ", "DELAY_RESP",
                 "PDELAY_REQ", "PDELAY_RESP", "PDELAY_RESP_FOLLOW_UP"}

SequenceIds == 0..(SeqMod - 1)

\* A received frame.  "form" says whether the message is complete, shorter
\* than a header ("runt") or than its type allows ("short"), or of another
\* version or domain ("alien");
\* "req" is requestingPortIdentity, "interval" is 2^logMessageInterval in ticks.
Frame == [type : MessageTypes, form : {"full", "runt", "short", "alien"},
          src : PortIdentity, seq : SequenceIds, twoStep : BOOLEAN,
          req : PortIdentity, ds : DataSet, interval : Nat \ {0}]

NoFrame == [type |-> "NONE"]

\* The message a timestamp belongs to, or NoStamp: a cleared time.
Stamp == [src : PortIdentity, seq : SequenceIds \cup {-1}]
NoStamp == [src |-> ZeroPort, seq |-> -1]

PtpClock ==
    [portState : PortStates, message_activity : BOOLEAN, record_update : BOOLEAN,
     foreign : [0..(MaxForeign - 1) -> ForeignRecord],
     number_foreign_records : 0..MaxForeign,
     foreign_record_i : 0..(MaxForeign - 1), foreign_record_best : 0..(MaxForeign - 1),
     parentPortIdentity : PortIdentity,
     grandmaster : [quality : Quality, gm : Clocks], stepsRemoved : Nat,
     master_has_sent_announce : BOOLEAN,
     delayReqTicks : Nat \ {0},            \* 2^logMinDelayReqInterval, in ticks
     waiting_for_first_sync : BOOLEAN, waitingForFollow : BOOLEAN,
     recvSyncSequenceId : SequenceIds, sync_receive_time : Stamp,
     waitingForDelayResp : BOOLEAN, sentDelayReqSequenceId : SequenceIds,
     delay_req_send_time : Stamp, sentSyncSequenceId : SequenceIds,
     sentPDelayReqSequenceId : SequenceIds, pdelay_req_send_time : Stamp,
     recvPDelayRespSequenceId : SequenceIds, pdelay_resp_receive_time : Stamp,
     pdelay_resp_send_time : Stamp, PdelayReqHeader : Stamp]

ASSUME ProtocolAssumption ==
    /\ SlaveOnly \in BOOLEAN
    /\ DelayMechanism \in {"E2E", "P2P"}
    /\ TwoStep \in BOOLEAN
    /\ SeqMod \in Nat \ {0}
    /\ {ListenTicks, AnnounceReceiptTicks, AnnounceTicks, SyncTicks,
        PdelayReqTicks, InitialDelayReqTicks} \subseteq 1..IntMax
    /\ MaxElapsed \in Nat \ {0}
    /\ Frames \subseteq Frame
    /\ TxTimestampMayMiss \in BOOLEAN

VARIABLES
    pc,         \* where the protocol thread is in its pass
    branch,     \* the case of doState's switch the pass is in
    ptpClock,   \* the data sets and flags of struct PtpClock
    itimer,     \* the interval timers
    elapsed,    \* ticks counted by the interrupt since the last timerUpdate
    rx,         \* the receive buffer: last frame, and its data_rdy flag
    tx          \* the frame the MAC is sending, or NoFrame

vars == <<pc, branch, ptpClock, itimer, elapsed, rx, tx>>

\* A slave-only port, or one of clock class 255, never acts as a master.
MayBeMaster == ~SlaveOnly /\ clockClass # 255

OnlyAsSlave == SlaveOnly \/ clockClass = 255

-----------------------------------------------------------------------------
(* toState, on the timers: what leaving a state stops, what entering starts *)

\* The timer of the port's own delay requests.
RequestTimer ==
    IF DelayMechanism = "E2E" THEN "DELAYREQ_INTERVAL" ELSE "PDELAYREQ_INTERVAL"

StopAll(it, S) ==
    [t \in DOMAIN it |-> IF t \in S THEN timerStop(it, t)[t] ELSE it[t]]

LeaveTimers(it, from) ==
    StopAll(it,
      IF from = "MASTER" THEN {"SYNC_INTERVAL", "ANNOUNCE_INTERVAL", "PDELAYREQ_INTERVAL"}
      ELSE IF from = "SLAVE" THEN {"ANNOUNCE_RECEIPT", RequestTimer}
      ELSE IF from = "PASSIVE" THEN {"PDELAYREQ_INTERVAL", "ANNOUNCE_RECEIPT"}
      ELSE IF from = "LISTENING" THEN {"ANNOUNCE_RECEIPT"}
      ELSE {})

EnterTimers(it, to) ==
    IF to = "LISTENING"
    THEN timerStart(StopAll(it, Timers \ {"ANNOUNCE_RECEIPT"}), "ANNOUNCE_RECEIPT", ListenTicks)
    ELSE IF to = "MASTER"
    THEN timerStart(timerStart(timerStart(it,
           "SYNC_INTERVAL", SyncTicks), "ANNOUNCE_INTERVAL", AnnounceTicks),
           "PDELAYREQ_INTERVAL", PdelayReqTicks)
    ELSE IF to = "PASSIVE"
    THEN timerStart(timerStart(it, "PDELAYREQ_INTERVAL", PdelayReqTicks),
           "ANNOUNCE_RECEIPT", AnnounceReceiptTicks)
    ELSE IF to = "SLAVE" THEN timerStart(it, "ANNOUNCE_RECEIPT", AnnounceReceiptTicks)
    ELSE it

\* Seeded fault: the state is left after the next one has been entered.
EnterThenLeave(it, from, to) == LeaveTimers(EnterTimers(it, to), from)

ToStateTimers(it, from, to) == EnterTimers(LeaveTimers(it, from), to)

\* toState, on the data: the flags a state is entered with.
toState(c, to) ==
    IF to = "LISTENING"
    THEN [c EXCEPT !.portState = to, !.message_activity = TRUE,
                   !.delayReqTicks = InitialDelayReqTicks,
                   !.master_has_sent_announce = @ /\ c.portState = "LISTENING"]
    ELSE IF to = "SLAVE"
    THEN [c EXCEPT !.portState = to, !.message_activity = TRUE,
                   !.waitingForFollow = FALSE, !.waitingForDelayResp = FALSE,
                   !.delay_req_send_time = NoStamp, !.pdelay_req_send_time = NoStamp,
                   !.pdelay_resp_receive_time = NoStamp, !.pdelay_resp_send_time = NoStamp,
                   !.waiting_for_first_sync = TRUE]
    ELSE [c EXCEPT !.portState = to, !.message_activity = TRUE]

-----------------------------------------------------------------------------
(* The foreign master table *)

\* The i-th slot addForeign looks at: it starts at foreign_record_best and
\* goes round the slots in use.
Slot(c, i) ==
    IF i = 0 THEN c.foreign_record_best
    ELSE (c.foreign_record_best + i) % c.number_foreign_records

\* Seeded fault: the search starts at the second slot.
MatchesFromOne(c, id) ==
    {i \in 1..(c.number_foreign_records - 1) : c.foreign[Slot(c, i)].id = id}

Matches(c, id) ==
    {i \in 0..(c.number_foreign_records - 1) : c.foreign[Slot(c, i)].id = id}

FirstMatch(c, id) ==
    Slot(c, CHOOSE i \in Matches(c, id) : \A k \in Matches(c, id) : i <= k)

\* A known sender's record is refreshed; a new one goes to the slot
\* foreign_record_i, overwriting the oldest when the table is full.
addForeign(c, f) ==
    IF Matches(c, f.src) # {}
    THEN [c EXCEPT !.foreign[FirstMatch(c, f.src)] = [id |-> @.id, src |-> f.src, ds |-> f.ds]]
    ELSE [c EXCEPT !.number_foreign_records = IF @ < MaxForeign THEN @ + 1 ELSE @,
                   !.foreign[c.foreign_record_i] = [id |-> f.src, src |-> f.src, ds |-> f.ds],
                   !.foreign_record_i = (@ + 1) % MaxForeign]

-----------------------------------------------------------------------------
(* Steps of the protocol thread *)

\* The thread stands at p.  It is blocked while the MAC sends its frame: every
\* issue function waits for the transmission and a guard interval.
At(p) == pc = p /\ tx = NoFrame

GoTo(p) == pc' = p

\* Seeded fault: every branch goes on with the timers of the slave branch.
AfterHandleOfSlave == "watchdog"

AfterHandle == IF branch = "slave" THEN "watchdog" ELSE "end"

AfterRequest == IF branch = "slave" THEN "top" ELSE "poll"

\* timerExpired(t): what it returns, and what it leaves behind.
Expired(t) == timerExpired(itimer, elapsed, t)

AfterExpired(t) == Acknowledge(itimer, elapsed, t)

\* A message of this port.  The data set is the one an Announce carries; the
\* receiver of another type does not look at it.
Out(c, type, seq, req) ==
    [type |-> type, form |-> "full", src |-> SelfPort, seq |-> seq,
     twoStep |-> TwoStep /\ type \in {"SYNC", "PDELAY_RESP"}, req |-> req,
     ds |-> [quality |-> c.grandmaster.quality, gm |-> c.grandmaster.gm,
             stepsRemoved |-> c.stepsRemoved],
     interval |-> c.delayReqTicks]

\* Seeded fault: a counter wider than the field it is sent in.
NextIdWide(n) == n + 1

NextId(n) == (n + 1) % SeqMod

\* doInit.  initData empties the table but leaves its two cursors alone;
\* initTimer discards the pending ticks but leaves itimer alone.
doInit ==
    /\ At("top")
    /\ ptpClock.portState = "INITIALIZING"
    /\ ptpClock' = toState(m1([ptpClock EXCEPT !.number_foreign_records = 0,
                                               !.delayReqTicks = InitialDelayReqTicks]),
                           "LISTENING")
    /\ itimer' = ToStateTimers(itimer, "INITIALIZING", "LISTENING")
    /\ elapsed' = 0
    /\ UNCHANGED <<pc, branch, rx, tx>>

\* bmcExec and bmcStateDecision: the state recommended, and the data sets.
bmcExec(c) ==
    IF c.number_foreign_records = 0 /\ c.portState = "MASTER"
    THEN [state |-> "MASTER", clk |-> m1(c)]
    ELSE LET b   == Best(c.foreign, c.number_foreign_records, c.parentPortIdentity.clock)
             r   == c.foreign[b]
             cb  == [c EXCEPT !.foreign_record_best = b]
             cmp == bmcDataSetComparison(D0, r, c.parentPortIdentity.clock)
         IN  IF SlaveOnly THEN [state |-> "SLAVE", clk |-> s1(cb, r.src, r.ds)]
             ELSE IF c.number_foreign_records = 0 /\ c.portState = "LISTENING"
             THEN [state |-> "LISTENING", clk |-> cb]
             ELSE IF cmp < 0 THEN [state |-> "MASTER", clk |-> m1(cb)]
             ELSE IF cmp > 0
             THEN [state |-> IF clockClass < 128 THEN "PASSIVE" ELSE "SLAVE",
                   clk |-> s1(cb, r.src, r.ds)]
             ELSE [state |-> "FAULTY", clk |-> cb]

\* Seeded fault: the message activity of the last pass is not forgotten.
StateDecisionKeepsActivity ==
    /\ At("top")
    /\ ptpClock.portState # "INITIALIZING"
    /\ LET c == ptpClock
           d == bmcExec([c EXCEPT !.record_update = FALSE])
       IN  IF c.record_update /\ c.portState # "FAULTY"
           THEN IF d.state # c.portState
                THEN /\ ptpClock' = toState(d.clk, d.state)
                     /\ itimer' = ToStateTimers(itimer, c.portState, d.state)
                ELSE /\ ptpClock' = d.clk
                     /\ UNCHANGED itimer
           ELSE /\ ptpClock' = c
                /\ UNCHANGED itimer
    /\ GoTo("switch")
    /\ UNCHANGED <<branch, elapsed, rx, tx>>

\* doState, first switch: the state decision event.
StateDecision ==
    /\ At("top")
    /\ ptpClock.portState # "INITIALIZING"
    /\ LET c == [ptpClock EXCEPT !.message_activity = FALSE]
           d == bmcExec([c EXCEPT !.record_update = FALSE])
       IN  IF c.record_update /\ c.portState # "FAULTY"
           THEN IF d.state # c.portState
                THEN /\ ptpClock' = toState(d.clk, d.state)
                     /\ itimer' = ToStateTimers(itimer, c.portState, d.state)
                ELSE /\ ptpClock' = d.clk
                     /\ UNCHANGED itimer
           ELSE /\ ptpClock' = c
                /\ UNCHANGED itimer
    /\ GoTo("switch")
    /\ UNCHANGED <<branch, elapsed, rx, tx>>

\* doState, second switch.
FaultCleared ==
    /\ At("switch")
    /\ ptpClock.portState = "FAULTY"
    /\ ptpClock' = toState(ptpClock, "INITIALIZING")
    /\ itimer' = ToStateTimers(itimer, "FAULTY", "INITIALIZING")
    /\ GoTo("top")
    /\ UNCHANGED <<branch, elapsed, rx, tx>>

SlaveBranch ==
    /\ At("switch")
    /\ ptpClock.portState \in {"LISTENING", "SLAVE", "PASSIVE"}
    /\ branch' = "slave"
    /\ GoTo("poll")
    /\ UNCHANGED <<ptpClock, itimer, elapsed, rx, tx>>

MasterBranch ==
    /\ At("switch")
    /\ ptpClock.portState = "MASTER"
    /\ branch' = "master"
    /\ GoTo("firstAnnounce")
    /\ UNCHANGED <<ptpClock, itimer, elapsed, rx, tx>>

-----------------------------------------------------------------------------
(* handle(): poll the receive buffer, fetch the frame, dispatch on its type *)

\* After a state change of this pass handle() does not poll: it fetches
\* whatever the buffer holds, read or unread.
netSelect ==
    /\ At("poll")
    /\ GoTo(IF ptpClock.message_activity \/ rx.ready THEN "recv" ELSE AfterHandle)
    /\ UNCHANGED <<branch, ptpClock, itimer, elapsed, rx, tx>>

Ignore(c) == /\ ptpClock' = c
             /\ GoTo(AfterHandle)
             /\ UNCHANGED <<itimer, tx>>

Update(c, it) == /\ ptpClock' = c
                 /\ itimer' = it
                 /\ GoTo(AfterHandle)
                 /\ UNCHANGED tx

Reply(c, m, next) == /\ ptpClock' = c
                     /\ tx' = m
                     /\ GoTo(next)
                     /\ UNCHANGED itimer

ToFaulty(c) == Update(toState(c, "FAULTY"), ToStateTimers(itimer, c.portState, "FAULTY"))

IsFromSelf(f) == f.src = SelfPort

\* Seeded fault: only the port numbers are compared.
IsFromParentsPort(c, f) == f.src.port = c.parentPortIdentity.port

IsFromCurrentParent(c, f) == f.src = c.parentPortIdentity

\* The announce receipt timer is restarted by what a slave hears from any
\* master, and by what a passive port hears from its parent.
Heard(c, f) == c.portState = "SLAVE" \/ (c.portState = "PASSIVE" /\ IsFromCurrentParent(c, f))

RestartWatchdog(it) == timerStart(it, "ANNOUNCE_RECEIPT", AnnounceReceiptTicks)

\* Only a slave copies its parent's Announce into the foreign master table.
RecordAnnounce(c, f) ==
    IF c.portState = "SLAVE" /\ IsFromCurrentParent(c, f)
    THEN [s1(c, f.src, f.ds) EXCEPT
            !.foreign[c.foreign_record_best] = [id |-> @.id, src |-> f.src, ds |-> f.ds]]
    ELSE IF c.portState = "PASSIVE" /\ IsFromCurrentParent(c, f) THEN s1(c, f.src, f.ds)
    ELSE addForeign(c, f)

handleAnnounce(c, f) ==
    \/ IsFromSelf(f) /\ Ignore(c)
    \/ /\ ~IsFromSelf(f)
       /\ Update([RecordAnnounce(c, f) EXCEPT !.record_update = TRUE],
                 IF Heard(c, f) THEN RestartWatchdog(itimer) ELSE itimer)

\* Seeded fault: the timer of the other delay mechanism is armed.
ArmOtherTimer(c, it) ==
    IF c.waiting_for_first_sync
    THEN timerStart(it, IF DelayMechanism = "E2E" THEN "PDELAYREQ_INTERVAL" ELSE "DELAYREQ_INTERVAL",
                    IF DelayMechanism = "E2E" THEN c.delayReqTicks ELSE PdelayReqTicks)
    ELSE it

\* The first Sync of the parent arms the timer of our own delay requests.
ArmRequestTimer(c, it) ==
    IF c.waiting_for_first_sync
    THEN timerStart(it, RequestTimer,
                    IF DelayMechanism = "E2E" THEN c.delayReqTicks ELSE PdelayReqTicks)
    ELSE it

SyncAccepted(c, f) == c.portState = "SLAVE" /\ ~IsFromSelf(f) /\ IsFromCurrentParent(c, f)

\* Seeded fault: a one-step Sync leaves the wait for an older FollowUp alone.
handleSyncKeepsWaiting(c, f) ==
    \/ ~SyncAccepted(c, f) /\ Ignore(c)
    \/ /\ SyncAccepted(c, f)
       /\ Update([c EXCEPT !.waiting_for_first_sync = FALSE,
                           !.sync_receive_time = [src |-> f.src, seq |-> f.seq],
                           !.waitingForFollow = @ \/ f.twoStep,
                           !.recvSyncSequenceId = IF f.twoStep THEN f.seq ELSE @],
                 ArmRequestTimer(c, itimer))

\* A one-step Sync feeds the servo at once; a two-step one waits for its
\* FollowUp.
handleSync(c, f) ==
    \/ ~SyncAccepted(c, f) /\ Ignore(c)
    \/ /\ SyncAccepted(c, f)
       /\ Update([c EXCEPT !.waiting_for_first_sync = FALSE,
                           !.sync_receive_time = [src |-> f.src, seq |-> f.seq],
                           !.waitingForFollow = f.twoStep,
                           !.recvSyncSequenceId = IF f.twoStep THEN f.seq ELSE @],
                 ArmRequestTimer(c, itimer))

FollowUpAccepted(c, f) ==
    /\ c.portState = "SLAVE"
    /\ ~IsFromSelf(f)
    /\ IsFromCurrentParent(c, f)
    /\ c.waitingForFollow
    /\ c.recvSyncSequenceId = f.seq

handleFollowUp(c, f) ==
    Ignore(IF FollowUpAccepted(c, f) THEN [c EXCEPT !.waitingForFollow = FALSE] ELSE c)

handleDelayReq(c, f) ==
    LET answered == DelayMechanism = "E2E" /\ c.portState = "MASTER"
    IN  \/ ~answered /\ Ignore(c)
        \/ answered /\ Reply(c, Out(c, "DELAY_RESP", f.seq, f.src), AfterHandle)

\* Seeded fault: the response's sequence id is not looked at.
AnyDelayRespAccepted(c, f) ==
    /\ DelayMechanism = "E2E"
    /\ c.portState = "SLAVE"
    /\ f.req = SelfPort
    /\ IsFromCurrentParent(c, f)
    /\ c.waitingForDelayResp

\* The sequence ids are 16 bits wide, but the expression sent - 1 is an int.
DelayRespAccepted(c, f) ==
    /\ DelayMechanism = "E2E"
    /\ c.portState = "SLAVE"
    /\ f.req = SelfPort
    /\ c.sentDelayReqSequenceId - 1 = f.seq
    /\ IsFromCurrentParent(c, f)
    /\ c.waitingForDelayResp

handleDelayResp(c, f) ==
    Ignore(IF DelayRespAccepted(c, f)
           THEN [c EXCEPT !.waitingForDelayResp = FALSE, !.delayReqTicks = f.interval]
           ELSE c)

\* Seeded fault: the header for the FollowUp is not saved.
handlePDelayReqUnsaved(c, f) ==
    LET answered == /\ DelayMechanism = "P2P"
                    /\ c.portState \in {"SLAVE", "MASTER", "PASSIVE"}
                    /\ ~IsFromSelf(f)
    IN  \/ ~answered /\ Ignore(c)
        \/ /\ answered
           /\ Reply(c, Out(c, "PDELAY_RESP", f.seq, f.src),
                    IF TwoStep THEN "pdelayFollowUp" ELSE AfterHandle)

\* The two-step responder goes on in step issuePDelayRespFollowUp.
handlePDelayReq(c, f) ==
    LET answered == /\ DelayMechanism = "P2P"
                    /\ c.portState \in {"SLAVE", "MASTER", "PASSIVE"}
                    /\ ~IsFromSelf(f)
    IN  \/ ~answered /\ Ignore(c)
        \/ /\ answered
           /\ Reply([c EXCEPT !.PdelayReqHeader = [src |-> f.src, seq |-> f.seq]],
                    Out(c, "PDELAY_RESP", f.seq, f.src),
                    IF TwoStep THEN "pdelayFollowUp" ELSE AfterHandle)

PDelayRespAccepted(c, f) ==
    /\ DelayMechanism = "P2P"
    /\ c.portState \in {"SLAVE", "MASTER", "PASSIVE"}
    /\ c.sentPDelayReqSequenceId - 1 = f.seq
    /\ f.req = SelfPort

\* No flag says that a response is awaited: a second copy is taken again.
handlePDelayResp(c, f) ==
    Ignore(IF PDelayRespAccepted(c, f)
           THEN [c EXCEPT !.pdelay_resp_receive_time = [src |-> f.src, seq |-> f.seq],
                          !.recvPDelayRespSequenceId = f.seq]
           ELSE c)

PDelayFollowUpAccepted(c, f) ==
    /\ DelayMechanism = "P2P"
    /\ c.portState \in {"SLAVE", "MASTER"}
    /\ f.seq = c.sentPDelayReqSequenceId - 1
    /\ f.seq = c.recvPDelayRespSequenceId

handlePDelayRespFollowUp(c, f) ==
    Ignore(IF PDelayFollowUpAccepted(c, f)
           THEN [c EXCEPT !.pdelay_resp_send_time = [src |-> f.src, seq |-> f.seq]]
           ELSE c)

\* A message of the other delay mechanism is dropped before its length is
\* looked at.
WrongMechanism(f) ==
    f.type \in (IF DelayMechanism = "E2E"
                THEN {"PDELAY_REQ", "PDELAY_RESP", "PDELAY_RESP_FOLLOW_UP"}
                ELSE {"DELAY_REQ", "DELAY_RESP"})

Dispatch(c, f) ==
    \/ f.form = "runt" /\ ToFaulty(c)
    \/ f.form = "alien" /\ Ignore(c)
    \/ f.form = "short" /\ WrongMechanism(f) /\ Ignore(c)
    \/ f.form = "short" /\ ~WrongMechanism(f) /\ ToFaulty(c)
    \/ /\ f.form = "full"
       /\ \/ f.type = "ANNOUNCE"    /\ handleAnnounce(c, f)
          \/ f.type = "SYNC"        /\ handleSync(c, f)
          \/ f.type = "FOLLOW_UP"   /\ handleFollowUp(c, f)
          \/ f.type = "DELAY_REQ"   /\ handleDelayReq(c, f)
          \/ f.type = "DELAY_RESP"  /\ handleDelayResp(c, f)
          \/ f.type = "PDELAY_REQ"  /\ handlePDelayReq(c, f)
          \/ f.type = "PDELAY_RESP" /\ handlePDelayResp(c, f)
          \/ f.type = "PDELAY_RESP_FOLLOW_UP" /\ handlePDelayRespFollowUp(c, f)

\* netRecv reads the length register, which clears data_rdy, and then the
\* buffer: a frame that arrives in between is the one that is handled, and is
\* still marked unread.  The two reads are the only steps here: a frame that
\* arrives while the words are read one by one leaves a mixed or a cut copy,
\* which is out of this model (see ReceivedInOrder of module Nic).
netRecv ==
    /\ At("recv")
    /\ rx' = [rx EXCEPT !.ready = FALSE]
    /\ GoTo("burst")
    /\ UNCHANGED <<branch, ptpClock, itimer, elapsed, tx>>

handle ==
    /\ At("burst")
    /\ IF rx.frame = NoFrame
       THEN Ignore(ptpClock)
       ELSE Dispatch([ptpClock EXCEPT !.message_activity = TRUE], rx.frame)
    /\ UNCHANGED <<branch, elapsed, rx>>

-----------------------------------------------------------------------------
(* The timers of the slave branch *)

\* No Announce came in time.  The table is emptied; a port that may be master
\* takes over, any other listens again.
AnnounceReceiptTimeout ==
    /\ At("watchdog")
    /\ elapsed' = 0
    /\ LET c  == [ptpClock EXCEPT !.number_foreign_records = 0, !.foreign_record_i = 0]
           to == IF MayBeMaster THEN "MASTER" ELSE "LISTENING"
       IN  IF Expired("ANNOUNCE_RECEIPT")
           THEN /\ ptpClock' = toState(IF MayBeMaster THEN m1(c) ELSE c, to)
                /\ itimer' = ToStateTimers(AfterExpired("ANNOUNCE_RECEIPT"), c.portState, to)
           ELSE /\ itimer' = AfterExpired("ANNOUNCE_RECEIPT")
                /\ UNCHANGED ptpClock
    /\ GoTo("request")
    /\ UNCHANGED <<branch, rx, tx>>

\* Send a DelayReq or PDelayReq when its timer says so: a slave branch's last
\* step, and in P2P one of a master's.
IssueRequest(next) ==
    /\ elapsed' = 0
    /\ itimer' = AfterExpired(RequestTimer)
    /\ IF Expired(RequestTimer)
       THEN /\ tx' = IF DelayMechanism = "E2E"
                     THEN Out(ptpClock, "DELAY_REQ", ptpClock.sentDelayReqSequenceId, ZeroPort)
                     ELSE Out(ptpClock, "PDELAY_REQ", ptpClock.sentPDelayReqSequenceId, ZeroPort)
            /\ GoTo("requestSent")
       ELSE /\ GoTo(next)
            /\ UNCHANGED tx
    /\ UNCHANGED <<branch, ptpClock, rx>>

SlaveRequest == At("request") /\ IssueRequest("top")

\* Does the transmit timestamp register hold our frame when we read it?
TxTimestampMatches == {TRUE} \cup (IF TxTimestampMayMiss THEN {FALSE} ELSE {})

\* issueDelayReq, after the transmission.
DelayReqSent ==
    /\ At("requestSent")
    /\ DelayMechanism = "E2E"
    /\ \E match \in TxTimestampMatches :
         ptpClock' =
           [ptpClock EXCEPT
              !.waitingForDelayResp = @ \/ match,
              !.delay_req_send_time =
                IF match THEN [src |-> SelfPort, seq |-> ptpClock.sentDelayReqSequenceId] ELSE @,
              !.sentDelayReqSequenceId = NextId(@)]
    /\ \E n \in 0..(2 * ptpClock.delayReqTicks) :
         itimer' = timerStart(itimer, "DELAYREQ_INTERVAL", n)
    /\ GoTo(AfterRequest)
    /\ UNCHANGED <<branch, elapsed, rx, tx>>

\* issuePDelayReq, after the transmission.
PDelayReqSent ==
    /\ At("requestSent")
    /\ DelayMechanism = "P2P"
    /\ \E match \in TxTimestampMatches :
         ptpClock' =
           [ptpClock EXCEPT
              !.pdelay_req_send_time =
                IF match THEN [src |-> SelfPort, seq |-> ptpClock.sentPDelayReqSequenceId] ELSE @,
              !.sentPDelayReqSequenceId = NextId(@)]
    /\ GoTo(AfterRequest)
    /\ UNCHANGED <<branch, itimer, elapsed, rx, tx>>

-----------------------------------------------------------------------------
(* The timers of the master branch *)

FirstAnnounce ==
    /\ At("firstAnnounce")
    /\ IF ptpClock.master_has_sent_announce
       THEN UNCHANGED <<ptpClock, tx>>
       ELSE /\ tx' = Out(ptpClock, "ANNOUNCE", 0, ZeroPort)
            /\ ptpClock' = [ptpClock EXCEPT !.master_has_sent_announce = TRUE]
    /\ GoTo("sync")
    /\ UNCHANGED <<branch, itimer, elapsed, rx>>

issueSync ==
    /\ At("sync")
    /\ elapsed' = 0
    /\ itimer' = AfterExpired("SYNC_INTERVAL")
    /\ IF Expired("SYNC_INTERVAL")
       THEN /\ tx' = Out(ptpClock, "SYNC", ptpClock.sentSyncSequenceId, ZeroPort)
            /\ GoTo("syncSent")
       ELSE /\ GoTo("announce")
            /\ UNCHANGED tx
    /\ UNCHANGED <<branch, ptpClock, rx>>

\* After the transmission; a two-step master sends the FollowUp if it found
\* the timestamp of this Sync.
SyncSent ==
    /\ At("syncSent")
    /\ \E match \in IF TwoStep THEN TxTimestampMatches ELSE {FALSE} :
         tx' = IF match THEN Out(ptpClock, "FOLLOW_UP", ptpClock.sentSyncSequenceId, ZeroPort)
               ELSE NoFrame
    /\ ptpClock' = [ptpClock EXCEPT !.sentSyncSequenceId = NextId(@)]
    /\ GoTo("announce")
    /\ UNCHANGED <<branch, itimer, elapsed, rx>>

issueAnnounce ==
    /\ At("announce")
    /\ elapsed' = 0
    /\ itimer' = AfterExpired("ANNOUNCE_INTERVAL")
    /\ tx' = IF Expired("ANNOUNCE_INTERVAL") THEN Out(ptpClock, "ANNOUNCE", 0, ZeroPort)
             ELSE NoFrame
    /\ GoTo(IF DelayMechanism = "P2P" THEN "pdelay" ELSE "poll")
    /\ UNCHANGED <<branch, ptpClock, rx>>

MasterRequest == At("pdelay") /\ IssueRequest("poll")

\* The responder's FollowUp repeats the header saved with the request.
issuePDelayRespFollowUp ==
    /\ At("pdelayFollowUp")
    /\ \E match \in TxTimestampMatches :
         tx' = IF match
               THEN Out(ptpClock, "PDELAY_RESP_FOLLOW_UP",
                        ptpClock.PdelayReqHeader.seq, ptpClock.PdelayReqHeader.src)
               ELSE NoFrame
    /\ GoTo(AfterHandle)
    /\ UNCHANGED <<branch, ptpClock, itimer, elapsed, rx>>

\* Seeded fault: the slave-only clock class is forgotten.
MasterEndOfSlaveOnly ==
    /\ At("end")
    /\ IF SlaveOnly
       THEN /\ ptpClock' = toState(ptpClock, "LISTENING")
            /\ itimer' = ToStateTimers(itimer, ptpClock.portState, "LISTENING")
       ELSE UNCHANGED <<ptpClock, itimer>>
    /\ GoTo("top")
    /\ UNCHANGED <<branch, elapsed, rx, tx>>

MasterEnd ==
    /\ At("end")
    /\ IF OnlyAsSlave
       THEN /\ ptpClock' = toState(ptpClock, "LISTENING")
            /\ itimer' = ToStateTimers(itimer, ptpClock.portState, "LISTENING")
       ELSE UNCHANGED <<ptpClock, itimer>>
    /\ GoTo("top")
    /\ UNCHANGED <<branch, elapsed, rx, tx>>

-----------------------------------------------------------------------------
(* The hardware around the thread *)

\* catch_alarm: the interrupt service routine counts a tick.
Tick ==
    /\ elapsed < MaxElapsed
    /\ elapsed' = elapsed + 1
    /\ UNCHANGED <<pc, branch, ptpClock, itimer, rx, tx>>

\* A frame overwrites the single receive buffer, read or unread.
Arrive(f) ==
    /\ rx' = [frame |-> f, ready |-> TRUE]
    /\ UNCHANGED <<pc, branch, ptpClock, itimer, elapsed, tx>>

\* The MAC has sent the frame.
Transmit ==
    /\ tx # NoFrame
    /\ tx' = NoFrame
    /\ UNCHANGED <<pc, branch, ptpClock, itimer, elapsed, rx>>

-----------------------------------------------------------------------------
(* The specification *)

InitialClock ==
    [portState |-> "INITIALIZING", message_activity |-> TRUE, record_update |-> FALSE,
     foreign |-> [i \in 0..(MaxForeign - 1) |-> ZeroRecord],
     number_foreign_records |-> 0, foreign_record_i |-> 0, foreign_record_best |-> 0,
     parentPortIdentity |-> ZeroPort,
     grandmaster |-> [quality |-> [i \in 1..5 |-> 0], gm |-> 0], stepsRemoved |-> 0,
     master_has_sent_announce |-> FALSE, delayReqTicks |-> InitialDelayReqTicks,
     waiting_for_first_sync |-> FALSE, waitingForFollow |-> FALSE,
     recvSyncSequenceId |-> 0, sync_receive_time |-> NoStamp,
     waitingForDelayResp |-> FALSE, sentDelayReqSequenceId |-> 0,
     delay_req_send_time |-> NoStamp, sentSyncSequenceId |-> 0,
     sentPDelayReqSequenceId |-> 0, pdelay_req_send_time |-> NoStamp,
     recvPDelayRespSequenceId |-> 0, pdelay_resp_receive_time |-> NoStamp,
     pdelay_resp_send_time |-> NoStamp, PdelayReqHeader |-> NoStamp]

Init ==
    /\ pc = "top"
    /\ branch = "slave"
    /\ ptpClock = InitialClock
    /\ itimer = [t \in Timers |-> StoppedTimer]
    /\ elapsed = 0
    /\ rx = [frame |-> NoFrame, ready |-> FALSE]
    /\ tx = NoFrame

PassStep == doInit \/ StateDecision \/ FaultCleared \/ SlaveBranch \/ MasterBranch
ReceiveStep == netSelect \/ netRecv \/ handle \/ issuePDelayRespFollowUp
SlaveStep == AnnounceReceiptTimeout \/ SlaveRequest \/ DelayReqSent \/ PDelayReqSent
MasterStep == FirstAnnounce \/ issueSync \/ SyncSent \/ issueAnnounce \/ MasterRequest \/ MasterEnd

PortStep == PassStep \/ ReceiveStep \/ SlaveStep \/ MasterStep

Environment == Tick \/ Transmit \/ \E f \in Frames : Arrive(f)

Next == PortStep \/ Environment

Spec == Init /\ [][Next]_vars

\* The scheduler runs the protocol thread, the tick generator never stops and
\* the MAC drains its buffer; nothing is assumed of the network.
Fairness == WF_vars(PortStep) /\ WF_vars(Tick) /\ WF_vars(Transmit)

FairSpec == Spec /\ Fairness
=============================================================================
