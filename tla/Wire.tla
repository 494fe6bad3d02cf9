-------------------------------- MODULE Wire --------------------------------
(***************************************************************************)
(* One port's output buffer, the frame it is sent in and what another port *)
(* reads of it.  The thread packs every message into the same buffer       *)
(* (msgObuf) and clears nothing in between; the transmit path of the       *)
(* timestamp unit rewrites the messages of a one-step clock on their way   *)
(* (tx_emb_ts.v, tx_rcst.v), the receive path embeds the time of arrival   *)
(* in event messages (rx_emb_ts.v).                                        *)
(***************************************************************************)
EXTENDS Messages, Transport

CONSTANTS
    PACKET_SIZE,            \* octets of msgObuf and of msgIbuf: 300
    USER_DESCRIPTION_MAX,   \* the longest text that is stored: 128
    DataSets,               \* the management replies that are sent: [set, text]
    Options                 \* the encodings of frames that are tried

\* The buffer takes the longest reply: 54 octets and the clock description, whose
\* 49 octets around the user's text may be followed by one of padding.
ASSUME WireAssumption ==
    /\ PACKET_SIZE \in 104..300
    /\ USER_DESCRIPTION_MAX \in 0..PACKET_SIZE - 104
    /\ DataSets \subseteq [set : STRING, text : 0..USER_DESCRIPTION_MAX]
    /\ Options \subseteq Encodings

VARIABLES
    port,           \* the options of the sender: [oneStep, delayMechanism, encoding]
    msgObuf,        \* octet -> [is, fresh]: what it holds, and whether the last
                    \* message packed wrote it
    frame           \* the frame on the line, or NoFrame

vars == <<port, msgObuf, frame>>

NoFrame == [type |-> "none"]
OnLine == frame.type # "none"
Octets == 0..PACKET_SIZE - 1

\* Zeros are the same whoever wrote them.
Holds(field, fresh) == [is |-> field, fresh |-> fresh \/ field = "zero"]

\* An octet of the buffer after a message that writes this field into it.
Written(octet, field) ==
    IF field = Kept THEN Holds(octet.is, FALSE) ELSE Holds(field, TRUE)

\* doInit packs a header into the zeroed structure of the clock.
Init ==
    /\ port \in [oneStep : BOOLEAN, delayMechanism : {"E2E", "P2P"}, encoding : Options]
    /\ msgObuf = [o \in Octets |->
                    Written(Holds("zero", TRUE), msgPackHeader(o, port.oneStep))]
    /\ frame = NoFrame

-----------------------------------------------------------------------------
(* The timestamp unit, on the octets of the message.  Software sets it up    *)
(* with emb_ingressTime.                                                     *)

InField(octets, first, last, field) ==
    \A o \in first..last : octets[o] = Holds(field, TRUE)

\* tx_rcst: the correction of an outgoing message.
EgressCorrection(octets, type) ==
    IF type = "Sync" THEN "egressFraction"
    ELSE IF InField(octets, 16, 19, "requestReceiptNanoseconds") THEN "turnaround"
    ELSE "sinceAnotherRequest"

\* tx_emb_ts: the octets of messageTypeSpecific that held the time of receipt.
TxEmbedded(type, oneStep) == IF type \in EventMessages /\ oneStep THEN 16..19 ELSE {}

\* The octets of the timestamp of a one-step Sync, and of the correction.
TxTime(type, oneStep) == IF type = "Sync" /\ oneStep THEN 34..43 ELSE {}
TxCorrection(type, oneStep) ==
    IF type \in {"Sync", "PDelayResp"} /\ oneStep THEN 8..15 ELSE {}

\* tx_emb_ts and tx_rcst.
TxTimestamp(octets, type, oneStep) ==
    [o \in DOMAIN octets |->
        CASE o \in TxEmbedded(type, oneStep)   -> Holds("zero", TRUE)
          [] o \in TxTime(type, oneStep)       -> Holds("egressTimestamp", TRUE)
          [] o \in TxCorrection(type, oneStep) -> Holds(EgressCorrection(octets, type), TRUE)
          [] OTHER                             -> octets[o]]

\* rx_emb_ts: every event message receives the nanoseconds of its arrival.
RxEmbedded(type) == IF type \in EventMessages THEN 16..19 ELSE {}

RxTimestamp(octets, type) ==
    [o \in DOMAIN octets |->
        IF o \in RxEmbedded(type) THEN Holds("ingressNanoseconds", TRUE) ELSE octets[o]]

-----------------------------------------------------------------------------

\* The messages that the port sends.
Sendable(type) ==
    CASE type = "FollowUp"                     -> ~port.oneStep
      [] type \in {"DelayReq", "DelayResp"}    -> port.delayMechanism = "E2E"
      [] type \in {"PDelayReq", "PDelayResp"}  -> port.delayMechanism = "P2P"
      [] type = "PDelayRespFollowUp"           -> port.delayMechanism = "P2P" /\ ~port.oneStep
      [] OTHER                                 -> TRUE

\* The issue function of a message: pack it, put it into a frame and wait until
\* it is sent.
Issue(type, id) ==
    LET len == LengthOf(type, id)
    IN  /\ ~OnLine
        /\ Sendable(type)
        /\ msgObuf' = [o \in Octets |->
                        Written(msgObuf[o], Pack(o, type, id, port.oneStep))]
        /\ frame' = [type |-> type, id |-> id,
                     headers |-> Headers(port.encoding, len, MessageType(type)),
                     message |-> TxTimestamp([o \in 0..len - 1 |-> msgObuf'[o]],
                                             type, port.oneStep)]
        /\ UNCHANGED port

IssueMessage ==
    \E type \in {"Sync", "FollowUp", "Announce", "DelayReq", "DelayResp", "PDelayReq",
                 "PDelayResp", "PDelayRespFollowUp"} :
        Issue(type, [set |-> "EMPTY", text |-> 0])

IssueManagement == \E id \in DataSets : Issue("Management", id)

\* The line is free again; the receiver may have read the frame or lost it.
FrameGone == /\ OnLine
             /\ frame' = NoFrame
             /\ UNCHANGED <<port, msgObuf>>

Next == IssueMessage \/ IssueManagement \/ FrameGone

Spec == Init /\ [][Next]_vars

-----------------------------------------------------------------------------
(* The receiver *)

\* transport::receive: the octets of the message behind the headers, where the
\* parser found it; others hold whatever the buffer held before.
Received(f) ==
    LET base == parse_frame(f.headers)
        here == 2 * Len(f.headers)
        msg  == RxTimestamp(f.message, f.type)
    IN  [o \in Octets |->
            IF base # -1 /\ o + base - here \in DOMAIN msg THEN msg[o + base - here]
            ELSE Holds("unknown", FALSE)]

-----------------------------------------------------------------------------
(* Properties *)

\* Whatever was sent before, every octet that the receiver of a message acts on
\* holds what was packed, or inserted by the hardware, for this message: no
\* octet of an earlier message in the reused buffer is taken for a field, and
\* the parser finds the message in every kind of frame.
ReadAsPacked ==
    OnLine =>
        LET msgIbuf == Received(frame)
        IN  \A o \in Octets :
                LET read == Unpack(o, frame.type, frame.id, port.oneStep)
                IN  read # Ignored => msgIbuf[o] = Holds(read, TRUE)

\* Frames keep to what both ends can take, the longest replies included: the
\* message fits into msgObuf and msgIbuf, the frame is no shorter than the 64
\* octets of Ethernet without its VLAN tags and no longer than the 9 bits of the
\* length register, and a management TLV has an even length (5.3.8 of IEEE 1588,
\* as the pack functions say).
FrameLegal ==
    OnLine =>
        LET len == LengthOf(frame.type, frame.id)
            all == frame_len(port.encoding, len, MessageType(frame.type))
        IN  /\ len <= PACKET_SIZE
            /\ all - 4 * port.encoding.vlanTag >= 64
            /\ all < 512
            /\ len % 2 = 0
=============================================================================
