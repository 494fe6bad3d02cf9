------------------------- MODULE ProtocolProperties -------------------------
(***************************************************************************)
(* What the port promises.  The invariants and action properties of this   *)
(* module are checked by the MC modules and, where it says so in the       *)
(* README, proved in ProtocolProofs.                                       *)
(***************************************************************************)
EXTENDS Protocol

\* The program counter of the protocol thread.
Places == {"top", "switch", "poll", "recv", "burst", "watchdog", "request", "requestSent",
           "firstAnnounce", "sync", "syncSent", "announce", "pdelay",
           "pdelayFollowUp", "end"}

\* Every variable has its type: in particular the cursors of the foreign
\* master table stay inside the table and the sequence ids wrap.
TypeOK ==
    /\ pc \in Places
    /\ branch \in {"slave", "master"}
    /\ ptpClock \in PtpClock
    /\ itimer \in [Timers -> Timer]
    /\ elapsed \in 0..MaxElapsed
    /\ rx \in [frame : Frames \cup {NoFrame}, ready : BOOLEAN]
    /\ tx \in Frame \cup {NoFrame}

Armed(t) == itimer[t].interval > 0

\* A port that waits for a master has its announce receipt timer running, and
\* a master has the timers of its Syncs and Announces running: whatever the
\* order of frames, timeouts, faults and state decisions, toState and the
\* handlers leave no state from which the port would wait for ever.
WatchdogArmed ==
    /\ ptpClock.portState \in {"LISTENING", "SLAVE", "PASSIVE"} => Armed("ANNOUNCE_RECEIPT")
    /\ ptpClock.portState = "MASTER" => Armed("SYNC_INTERVAL") /\ Armed("ANNOUNCE_INTERVAL")

\* A master is its own grandmaster and parent (m1): no Announce it stored on
\* the way to mastership shows through in the data sets it announces, neither
\* after a timeout, nor after a state decision, nor after a fault.
MasterDataset ==
    ptpClock.portState = "MASTER" =>
        /\ ptpClock.parentPortIdentity = [clock |-> Self, port |-> 0]
        /\ ptpClock.grandmaster = [quality |-> OwnQuality, gm |-> Self]
        /\ ptpClock.stepsRemoved = 0

\* The record a slave's parent refreshes on every Announce is the parent's
\* own: foreign_record_best and parentPortIdentity are set together by the
\* state decision and never drift apart until the next decision is due.
SlaveRecordIsParent ==
    ptpClock.portState = "SLAVE" /\ ~ptpClock.record_update =>
        LET r == ptpClock.foreign[ptpClock.foreign_record_best]
        IN  r.id = ptpClock.parentPortIdentity /\ r.src = ptpClock.parentPortIdentity

Known == {i \in 0..(MaxForeign - 1) : i < ptpClock.number_foreign_records}

\* addForeign keeps one record per foreign port, though it searches the table
\* from foreign_record_best and inserts at foreign_record_i.
NoDuplicateRecords ==
    \A i, j \in Known : ptpClock.foreign[i].id = ptpClock.foreign[j].id => i = j

\* A clock that other clocks are compared by: the order of figure 27.
Rank(ds) == Append(ds.quality, ds.gm)

\* The state decision takes every record into account: once it is made, a
\* master is at least as good as every foreign master it knows, and the
\* grandmaster a slave follows is at least as good as every one it knows.
ElectionSound ==
    ~ptpClock.record_update =>
        \A i \in Known :
            /\ ptpClock.portState = "MASTER" =>
                 ~LexLess(Rank(ptpClock.foreign[i].ds), Rank(D0.ds))
            /\ ptpClock.portState = "SLAVE" =>
                 ~LexLess(Rank(ptpClock.foreign[i].ds), Rank(ptpClock.grandmaster))

\* A slave that has heard a Sync of its master keeps the timer of its delay
\* requests running: the measurement of the path never just stops.
RequestTimerArmed ==
    ptpClock.portState = "SLAVE" /\ ~ptpClock.waiting_for_first_sync => Armed(RequestTimer)

-----------------------------------------------------------------------------
(* What a step may never do *)

\* A frame handled in this step, of this type.
Handled(type) == pc = "burst" /\ pc' # pc /\ rx.frame # NoFrame /\ rx.frame.type = type

\* The path delay is measured from one exchange: when a DelayResp ends the
\* wait, the transmit time it is combined with is that of the very request it
\* answers, though requests are lost, repeated and answered late.
DelayRespPaired ==
    [][ Handled("DELAY_RESP") /\ ptpClock.waitingForDelayResp /\ ~ptpClock'.waitingForDelayResp
        => ptpClock.delay_req_send_time = [src |-> SelfPort, seq |-> rx.frame.seq] ]_vars

FollowUpTaken ==
    Handled("FOLLOW_UP") /\ ptpClock.waitingForFollow /\ ~ptpClock'.waitingForFollow

\* A FollowUp is combined with the receive time of the Sync of its sequence
\* id, whatever mixture of one-step and two-step Syncs came before.
FollowUpPaired ==
    [][ FollowUpTaken => ptpClock.sync_receive_time.seq = rx.frame.seq ]_vars

\* The peer a PDelayResp went to gets the FollowUp of that same response: the
\* saved request header is not overwritten while the MAC sends.
PeerFollowUpAnswers ==
    tx.type \in {"PDELAY_RESP", "PDELAY_RESP_FOLLOW_UP"} =>
        ptpClock.PdelayReqHeader = [src |-> tx.req, seq |-> tx.seq]

\* A port of the slave-only class that the election made a master gives that
\* up in the same pass of doState.
SlaveClassYields == pc = "top" /\ OnlyAsSlave => ptpClock.portState # "MASTER"

\* The port implements the contract PortRole.
Role == INSTANCE PortRole WITH
            role <- ptpClock.portState, gm <- ptpClock.grandmaster.gm, sending <- tx.type

RefinesPortRole == Role!Spec

-----------------------------------------------------------------------------
(* What must happen in the end *)

\* When the network falls silent for good, the port ends up on its own: as a
\* master if it may be one, else listening.
SilenceResolves ==
    <>[](~rx.ready) =>
        <>[](ptpClock.portState = (IF MayBeMaster THEN "MASTER" ELSE "LISTENING"))

\* A slave that has heard its master's Sync sends a delay request, and then
\* another, for as long as it stays the slave of a master it has heard.
Synchronising == ptpClock.portState = "SLAVE" /\ ~ptpClock.waiting_for_first_sync

RequestsGoOn == []<>(~Synchronising \/ tx.type \in {"DELAY_REQ", "PDELAY_REQ"})
=============================================================================
