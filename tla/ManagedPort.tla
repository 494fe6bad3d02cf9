----------------------------- MODULE ManagedPort -----------------------------
(***************************************************************************)
(* The port of module Protocol under management.  A management message     *)
(* (protocol.cpp, handleManagement) writes data sets that the protocol     *)
(* goes on to use, and the port state itself: the commands DISABLE_PORT,   *)
(* ENABLE_PORT and INITIALIZE do not go through toState.                   *)
(*                                                                         *)
(* The constants of Protocol are the options the daemon was started with;  *)
(* Engine is the protocol with the values in force. Of the settings, those *)
(* that change the protocol's behaviour in different ways are state here:  *)
(* domainNumber, priority1 and delayMechanism.                             *)
(***************************************************************************)
EXTENDS ProtocolProperties, Management

CONSTANTS
    ManagementFrames,   \* the management messages the network may deliver
    Priorities1         \* the values of priority1, configured or set

VARIABLE settings           \* the members of the data sets that can be set

managedVars == <<vars, settings>>

Engine(mechanism, own) == INSTANCE Protocol WITH DelayMechanism <- mechanism, OwnQuality <- own

OwnWith(priority1) == [OwnQuality EXCEPT ![1] = priority1]

Mechanisms == {"E2E", "P2P"}
Qualities == {OwnWith(p) : p \in Priorities1}

InForce(mechanism, own) ==
    settings.delayMechanism = mechanism /\ OwnWith(settings.priority1) = own

\* The options the daemon was started with.
DefaultSettings ==
    [domainNumber |-> 0, priority1 |-> OwnQuality[1], delayMechanism |-> DelayMechanism]

\* The data sets a management message sees.
ManagedClock ==
    [x \in DOMAIN settings \cup {"portState", "parentPortIdentity", "grandmaster", "stepsRemoved"}
       |-> IF x \in DOMAIN settings THEN settings[x] ELSE ptpClock[x]]

-----------------------------------------------------------------------------
(* handleManagement *)

\* The reply on its way out.
OutReply(m, r) ==
    [type |-> "MANAGEMENT", src |-> SelfPort, tlv |-> r.tlv, action |-> r.action,
     value |-> r.value, id |-> m.id, header |-> initOutgoingMsgManagement(ManagedClock, m)]

\* The message m is taken in; c is the clock with the message noted.
handleManagement(c, m) ==
    \/ /\ IsFromSelf(m) \/ ~IsHandled(m)
       /\ Ignore(c)
       /\ UNCHANGED settings
    \/ /\ ~IsFromSelf(m)
       /\ IsHandled(m)
       /\ LET r == handleMM(ManagedClock, m)
          IN  /\ settings' = Restrict(r.clk, DOMAIN settings)
              /\ ptpClock' = [c EXCEPT !.portState = r.clk.portState]
              /\ tx' = IF IsSent(r) THEN OutReply(m, r) ELSE NoFrame
       /\ GoTo(AfterHandle)
       /\ UNCHANGED itimer

\* The messages of the protocol are those of the domain the daemon started in.
DomainOf(f) == IF f.type = "MANAGEMENT" THEN f.domain ELSE DefaultSettings.domainNumber

Heeded == [ptpClock EXCEPT !.message_activity = TRUE]

ManagementArrived ==
    /\ At("burst")
    /\ rx.frame.type = "MANAGEMENT"
    /\ rx.frame.domain = settings.domainNumber
    /\ handleManagement(Heeded, rx.frame)
    /\ UNCHANGED <<branch, elapsed, rx>>

\* A frame of another domain is dropped, and so is every proper message of the
\* protocol while the port is disabled.
IsDropped(f) ==
    \/ f.form # "runt" /\ DomainOf(f) # settings.domainNumber
    \/ f.form = "full" /\ f.type # "MANAGEMENT" /\ ptpClock.portState = "DISABLED"

MessageDropped ==
    /\ At("burst")
    /\ rx.frame # NoFrame
    /\ IsDropped(rx.frame)
    /\ Ignore(Heeded)
    /\ UNCHANGED <<branch, elapsed, rx, settings>>

\* The rest is handled by the protocol.
MessageHandled ==
    /\ rx.frame # NoFrame => rx.frame.type # "MANAGEMENT" /\ ~IsDropped(rx.frame)
    /\ \E mechanism \in Mechanisms, own \in Qualities :
         InForce(mechanism, own) /\ Engine(mechanism, own)!handle
    /\ UNCHANGED settings

-----------------------------------------------------------------------------
(* A pass of doState *)

\* initData restores what the daemon was started with.
Reinitialise == doInit /\ settings' = DefaultSettings

\* doState's first switch knows nothing of a disabled port.
Decision ==
    \/ /\ ptpClock.portState # "DISABLED"
       /\ \E mechanism \in Mechanisms, own \in Qualities :
            InForce(mechanism, own) /\ Engine(mechanism, own)!StateDecision
       /\ UNCHANGED settings
    \/ /\ At("top")
       /\ ptpClock.portState = "DISABLED"
       /\ ptpClock' = [ptpClock EXCEPT !.message_activity = FALSE]
       /\ GoTo("switch")
       /\ UNCHANGED <<branch, itimer, elapsed, rx, tx, settings>>

\* Seeded fault: a disabled port goes through the timers of a master.
DisabledLikeMaster ==
    /\ At("switch")
    /\ ptpClock.portState = "DISABLED"
    /\ branch' = "disabled"
    /\ GoTo("firstAnnounce")
    /\ UNCHANGED <<ptpClock, itimer, elapsed, rx, tx, settings>>

DisabledBranch ==
    /\ At("switch")
    /\ ptpClock.portState = "DISABLED"
    /\ branch' = "disabled"
    /\ GoTo("poll")
    /\ UNCHANGED <<ptpClock, itimer, elapsed, rx, tx, settings>>

DisabledEnd ==
    /\ At("end")
    /\ branch = "disabled"
    /\ GoTo("top")
    /\ UNCHANGED <<branch, ptpClock, itimer, elapsed, rx, tx, settings>>

\* The steps of the protocol that management does not change.
RestOfPass(mechanism, own) ==
    \/ Engine(mechanism, own)!FaultCleared
    \/ Engine(mechanism, own)!SlaveBranch
    \/ Engine(mechanism, own)!MasterBranch
    \/ Engine(mechanism, own)!netSelect
    \/ Engine(mechanism, own)!netRecv
    \/ Engine(mechanism, own)!issuePDelayRespFollowUp
    \/ Engine(mechanism, own)!SlaveStep
    \/ Engine(mechanism, own)!FirstAnnounce
    \/ Engine(mechanism, own)!issueSync
    \/ Engine(mechanism, own)!SyncSent
    \/ Engine(mechanism, own)!issueAnnounce
    \/ Engine(mechanism, own)!MasterRequest
    \/ branch = "master" /\ Engine(mechanism, own)!MasterEnd

PassGoesOn ==
    /\ \E mechanism \in Mechanisms, own \in Qualities :
         InForce(mechanism, own) /\ RestOfPass(mechanism, own)
    /\ UNCHANGED settings

-----------------------------------------------------------------------------
(* The specification *)

ManagedInit == Init /\ settings = DefaultSettings

ManagedStep ==
    \/ Reinitialise
    \/ Decision
    \/ DisabledBranch
    \/ ManagementArrived
    \/ MessageDropped
    \/ MessageHandled
    \/ DisabledEnd
    \/ PassGoesOn

ManagedEnvironment ==
    /\ Tick \/ Transmit \/ \E f \in Frames \cup ManagementFrames : Arrive(f)
    /\ UNCHANGED settings

ManagedNext == ManagedStep \/ ManagedEnvironment

ManagedSpec == ManagedInit /\ [][ManagedNext]_managedVars

-----------------------------------------------------------------------------
(* Properties *)

\* Every exchange of management messages dies out, though every port answers
\* whatever it hears, addressed to it or not: a reply is of a lower kind than
\* the message it answers.
ConversationsEnd ==
    [][ tx' # tx /\ tx'.type = "MANAGEMENT" =>
          Precedence(tx'.tlv, tx'.action) < Precedence(rx.frame.tlv, rx.frame.action) ]_managedVars

\* A frame the port cannot parse sends it to FAULTY, disabled or not.
Unparsable == rx.frame # NoFrame /\ rx.frame.form \in {"runt", "short"}

\* A port that has settled in DISABLED leaves that state for a command or for a
\* frame it cannot parse: no announcement, timer or state decision takes it out.
DisabledHolds ==
    [][ ptpClock.portState = "DISABLED" /\ branch = "disabled" /\ ptpClock'.portState # "DISABLED"
        => pc = "burst" /\ (Unparsable \/ rx.frame.id \in {"ENABLE_PORT", "INITIALIZE"}) ]_managedVars

\* A settled disabled port sends replies to its managers and nothing else,
\* whatever its timers have latched.
DisabledQuiet ==
    ptpClock.portState = "DISABLED" /\ branch = "disabled" =>
        tx.type \in {"NONE", "MANAGEMENT"}
=============================================================================
