------------------------------ MODULE Messages ------------------------------
(***************************************************************************)
(* The octets of the PTP messages (src/esl/sw/dep/msg.cpp): what each pack *)
(* function writes into octet o of the output buffer, and what the         *)
(* receiver of a message takes octet o of the input buffer for.            *)
(*                                                                         *)
(* The value of an octet is the name of the field it belongs to; whether   *)
(* the port is a one-step clock is the parameter oneStep.                  *)
(***************************************************************************)
EXTENDS Integers

\* An octet that a message does not write, or that its receiver does not act on.
Kept    == "kept"
Ignored == "ignored"

EventMessages == {"Sync", "DelayReq", "PDelayReq", "PDelayResp"}

MessageType(type) ==
    CASE type = "Sync"       -> 0  [] type = "DelayReq"           -> 1
      [] type = "PDelayReq"  -> 2  [] type = "PDelayResp"         -> 3
      [] type = "FollowUp"   -> 8  [] type = "DelayResp"          -> 9
      [] type = "PDelayRespFollowUp" -> 10 [] type = "Announce"   -> 11
      [] type = "Management" -> 13

-----------------------------------------------------------------------------
(* Management data sets: the octets they take, field by field *)

DefaultDataSet        == 1 + 1 + 2 + 1 + 4 + 1 + 8 + 1 + 1
CurrentDataSet        == 2 + 8 + 8
ParentDataSet         == 10 + 1 + 1 + 2 + 4 + 1 + 4 + 1 + 8
TimePropertiesDataSet == 2 + 1 + 1
PortDataSet           == 10 + 1 + 1 + 8 + 1 + 1 + 1 + 1 + 1 + 0 + 1
UtcProperties         == 2 + 1 + 1
VersionNumber         == 0 + 1 + 1
Initialize            == 2

Time                  == 10

\* The data sets of a single octet, which a reserved one makes even.
OneOctet              == 1 + 1
OneOctetSets ==
    {"PRIORITY1", "PRIORITY2", "DOMAIN", "SLAVE_ONLY", "LOG_ANNOUNCE_INTERVAL",
     "ANNOUNCE_RECEIPT_TIMEOUT", "LOG_SYNC_INTERVAL", "CLOCK_ACCURACY",
     "TRACEABILITY_PROPERTIES", "DELAY_MECHANISM", "LOG_MIN_PDELAY_REQ_INTERVAL"}

\* A text of n octets behind its length.
PTPText(n)            == 1 + n
UserDescription(n)    == PTPText(n)

\* The clock type, the protocol "IEEE 802.3", the physical and the protocol
\* address, the manufacturer and a reserved octet, the product ";;", the revision
\* ";;2.2", the user's own text of n octets and the profile.
ClockDescription(n) ==
    (1 + 1) + PTPText(10) + (2 + 6) + (4 + 4) + (3 + 1) + PTPText(2) + PTPText(5) + PTPText(n) + 6

\* The error status carries an empty text.
ErrorStatus           == 2 + 4 + PTPText(0)

\* Seeded fault: no padding.
NoPad(n) == n

\* The three TLVs that end in or contain a text of variable length are followed
\* by an octet of padding where that makes them even.
PadToEven(n) == IF n % 2 = 1 THEN n + 1 ELSE n

\* The commands and NULL_MANAGEMENT carry no data.
DataLength(id) ==
    CASE id.set = "DEFAULT_DATA_SET"         -> DefaultDataSet
      [] id.set = "CURRENT_DATA_SET"         -> CurrentDataSet
      [] id.set = "PARENT_DATA_SET"          -> ParentDataSet
      [] id.set = "TIME_PROPERTIES_DATA_SET" -> TimePropertiesDataSet
      [] id.set = "PORT_DATA_SET"            -> PortDataSet
      [] id.set = "UTC_PROPERTIES"           -> UtcProperties
      [] id.set = "VERSION_NUMBER"           -> VersionNumber
      [] id.set = "INITIALIZE"               -> Initialize
      [] id.set = "USER_DESCRIPTION"         -> PadToEven(UserDescription(id.text))
      [] id.set = "ERROR_STATUS"             -> PadToEven(ErrorStatus)
      [] id.set = "CLOCK_DESCRIPTION"        -> PadToEven(ClockDescription(id.text))
      [] id.set = "TIME"                     -> Time
      [] id.set \in OneOctetSets             -> OneOctet
      [] OTHER                               -> 0

MANAGEMENT_LENGTH == 48
TLV_LENGTH == 6

\* messageLength of the header, which is also the length that is sent.
LengthOf(type, id) ==
    CASE type \in {"Sync", "FollowUp", "DelayReq"} -> 44
      [] type = "Announce"                         -> 64
      [] type = "Management"                       -> MANAGEMENT_LENGTH + TLV_LENGTH + DataLength(id)
      [] OTHER                                     -> 54

-----------------------------------------------------------------------------
(* Packing.  A later write comes first; OTHER leaves what the earlier wrote. *)

\* A header that leaves the correction of the last message in place.
msgPackHeaderUncleared(o, oneStep) ==
    CASE o = 0             -> "messageType"
      [] o = 1             -> "versionPTP"
      [] o = 4             -> "domainNumber"
      [] o = 6 /\ ~oneStep -> "twoStep"
      [] o \in 20..29      -> "sourcePortIdentity"
      [] o = 33            -> "logMessageInterval"
      [] OTHER             -> Kept

msgPackHeader(o, oneStep) ==
    CASE o = 0             -> "messageType"
      [] o = 1             -> "versionPTP"
      [] o = 4             -> "domainNumber"
      [] o = 6 /\ ~oneStep -> "twoStep"
      [] o \in 8..15       -> "zero"
      [] o \in 20..29      -> "sourcePortIdentity"
      [] o = 33            -> "logMessageInterval"
      [] OTHER             -> Kept

\* What every message changes in the header, with the sequence id it sends.
Changes(o, sequenceId, oneStep) ==
    CASE o = 0        -> "messageType"
      [] o \in 2..3   -> "messageLength"
      [] o \in 30..31 -> sequenceId
      [] o = 32       -> "controlField"
      [] o = 33       -> "logMessageInterval"
      [] OTHER        -> msgPackHeader(o, oneStep)

msgPackSync(o, oneStep) ==
    CASE o \in 34..43 -> "originTimestamp"
      [] o \in 8..15  -> "zero"
      [] OTHER        -> Changes(o, "sentSyncSequenceId", oneStep)

\* Octet 46 is reserved and stays what it was.  The quality packed is clockQuality,
\* which m1 makes the grandmaster's: only a master announces.
msgPackAnnounce(o, oneStep) ==
    CASE o \in 34..43 -> "zero"
      [] o \in 44..45 -> "currentUtcOffset"
      [] o = 47       -> "grandmasterPriority1"
      [] o \in 48..51 -> "grandmasterClockQuality"
      [] o = 52       -> "grandmasterPriority2"
      [] o \in 53..60 -> "grandmasterIdentity"
      [] o \in 61..62 -> "stepsRemoved"
      [] o = 63       -> "timeSource"
      [] OTHER        -> Changes(o, "sentAnnounceSequenceId", oneStep)

msgPackFollowUp(o, oneStep) ==
    IF o \in 34..43 THEN "preciseOriginTimestamp"
    ELSE Changes(o, "sentSyncSequenceId", oneStep)

msgPackDelayReq(o, oneStep) ==
    CASE o \in 34..43 -> "originTimestamp"
      [] o \in 8..15  -> "zero"
      [] OTHER        -> Changes(o, "sentDelayReqSequenceId", oneStep)

msgPackPDelayReq(o, oneStep) ==
    CASE o \in 34..43             -> "originTimestamp"
      [] o \in 8..15 \cup 44..53  -> "zero"
      [] OTHER                    -> Changes(o, "sentPDelayReqSequenceId", oneStep)

\* The responses return fields of the request's header.
msgPackDelayResp(o, oneStep) ==
    CASE o = 4        -> "request.domainNumber"
      [] o \in 8..15  -> "request.correctionField"
      [] o \in 34..43 -> "receiveTimestamp"
      [] o \in 44..53 -> "request.sourcePortIdentity"
      [] OTHER        -> Changes(o, "request.sequenceId", oneStep)

\* handlePDelayReq of a one-step clock puts the nanoseconds of the receipt into
\* reserved2 and sends no time.
msgPackPDelayResp(o, oneStep) ==
    CASE o = 4        -> "request.domainNumber"
      [] o \in 8..15  -> "zero"
      [] o \in 16..19 -> IF oneStep THEN "requestReceiptNanoseconds" ELSE "zero"
      [] o \in 34..43 -> IF oneStep THEN "zero" ELSE "requestReceiptTimestamp"
      [] o \in 44..53 -> "request.sourcePortIdentity"
      [] OTHER        -> Changes(o, "request.sequenceId", oneStep)

msgPackPDelayRespFollowUp(o, oneStep) ==
    CASE o \in 8..15  -> "request.correctionField"
      [] o \in 34..43 -> "responseOriginTimestamp"
      [] o \in 44..53 -> "request.sourcePortIdentity"
      [] OTHER        -> Changes(o, "request.sequenceId", oneStep)

\* The whole header of a management message comes from its structure.
packMsgHeader(o) ==
    CASE o = 0        -> "messageType"
      [] o = 1        -> "versionPTP"
      [] o \in 2..3   -> "messageLength"
      [] o = 4        -> "domainNumber"
      [] o \in 5..19  -> "zero"
      [] o \in 20..29 -> "sourcePortIdentity"
      [] o \in 30..31 -> "request.sequenceId"
      [] o = 32       -> "controlField"
      [] o = 33       -> "logMessageInterval"
      [] OTHER        -> Kept

packMsgManagement(o) ==
    CASE o \in 34..43 -> "targetPortIdentity"
      [] o = 44       -> "startingBoundaryHops"
      [] o = 45       -> "boundaryHops"
      [] o = 46       -> "actionField"
      [] o = 47       -> "zero"
      [] OTHER        -> packMsgHeader(o)

packManagementTLV(o) ==
    CASE o \in 48..49 -> "tlvType"
      [] o \in 50..51 -> "lengthField"
      [] o \in 52..53 -> "managementId"

\* issueManagementRespOrAck and issueManagementErrorStatus: first the data and
\* the TLV, then the message in front of them.
PackManagement(o, id) ==
    CASE o \in 0..47                     -> packMsgManagement(o)
      [] o \in 48..53                    -> packManagementTLV(o)
      [] o \in 54..(53 + DataLength(id)) -> "data"
      [] OTHER                           -> Kept

Pack(o, type, id, oneStep) ==
    CASE type = "Sync"               -> msgPackSync(o, oneStep)
      [] type = "FollowUp"           -> msgPackFollowUp(o, oneStep)
      [] type = "Announce"           -> msgPackAnnounce(o, oneStep)
      [] type = "DelayReq"           -> msgPackDelayReq(o, oneStep)
      [] type = "DelayResp"          -> msgPackDelayResp(o, oneStep)
      [] type = "PDelayReq"          -> msgPackPDelayReq(o, oneStep)
      [] type = "PDelayResp"         -> msgPackPDelayResp(o, oneStep)
      [] type = "PDelayRespFollowUp" -> msgPackPDelayRespFollowUp(o, oneStep)
      [] type = "Management"         -> PackManagement(o, id)

-----------------------------------------------------------------------------
(* Unpacking: the octets that the handler of a message acts on, with what  *)
(* it takes them for.                                                      *)

msgUnpackHeader(o, sequenceId, domainNumber) ==
    CASE o = 0        -> "messageType"
      [] o = 1        -> "versionPTP"
      [] o \in 2..3   -> "messageLength"
      [] o = 4        -> domainNumber
      [] o \in 20..29 -> "sourcePortIdentity"
      [] o \in 30..31 -> sequenceId
      [] OTHER        -> Ignored

\* Event messages arrive with the time of their arrival in reserved2, which
\* getPreciseRxTime takes.
EventHeader(o, sequenceId, domainNumber) ==
    IF o \in 16..19 THEN "ingressNanoseconds"
    ELSE msgUnpackHeader(o, sequenceId, domainNumber)

TwoStepFlag(oneStep) == IF oneStep THEN "zero" ELSE "twoStep"

msgUnpackSync(o, oneStep) ==
    CASE o = 6        -> TwoStepFlag(oneStep)
      [] o \in 8..15  -> IF oneStep THEN "egressFraction" ELSE "zero"
      [] o \in 34..43 -> IF oneStep THEN "egressTimestamp" ELSE "originTimestamp"
      [] OTHER        -> EventHeader(o, "sentSyncSequenceId", "domainNumber")

\* s1 also takes the time properties from flagField1, which nobody writes.
msgUnpackAnnounce(o) ==
    CASE o = 7        -> "zero"
      [] o \in 34..43 -> "zero"
      [] o \in 44..45 -> "currentUtcOffset"
      [] o = 47       -> "grandmasterPriority1"
      [] o \in 48..51 -> "grandmasterClockQuality"
      [] o = 52       -> "grandmasterPriority2"
      [] o \in 53..60 -> "grandmasterIdentity"
      [] o \in 61..62 -> "stepsRemoved"
      [] o = 63       -> "timeSource"
      [] OTHER        -> msgUnpackHeader(o, "sentAnnounceSequenceId", "domainNumber")

msgUnpackFollowUp(o) ==
    CASE o \in 8..15  -> "zero"
      [] o \in 34..43 -> "preciseOriginTimestamp"
      [] OTHER        -> msgUnpackHeader(o, "sentSyncSequenceId", "domainNumber")

\* The correction of a request goes back in the response.
msgUnpackDelayReq(o) ==
    CASE o \in 8..15  -> "zero"
      [] o \in 34..43 -> "originTimestamp"
      [] OTHER        -> EventHeader(o, "sentDelayReqSequenceId", "domainNumber")

msgUnpackPDelayReq(o) ==
    CASE o \in 8..15  -> "zero"
      [] o \in 34..43 -> "originTimestamp"
      [] OTHER        -> EventHeader(o, "sentPDelayReqSequenceId", "domainNumber")

msgUnpackDelayResp(o) ==
    CASE o \in 8..15  -> "request.correctionField"
      [] o = 33       -> "logMessageInterval"
      [] o \in 34..43 -> "receiveTimestamp"
      [] o \in 44..53 -> "request.sourcePortIdentity"
      [] OTHER        -> msgUnpackHeader(o, "request.sequenceId", "request.domainNumber")

\* A one-step responder puts the turnaround time into the correction.
msgUnpackPDelayResp(o, oneStep) ==
    CASE o = 6        -> TwoStepFlag(oneStep)
      [] o \in 8..15  -> IF oneStep THEN "turnaround" ELSE "zero"
      [] o \in 34..43 -> IF oneStep THEN "zero" ELSE "requestReceiptTimestamp"
      [] o \in 44..53 -> "request.sourcePortIdentity"
      [] OTHER        -> EventHeader(o, "request.sequenceId", "request.domainNumber")

msgUnpackPDelayRespFollowUp(o) ==
    CASE o \in 8..15  -> "request.correctionField"
      [] o \in 34..43 -> "responseOriginTimestamp"
      [] o \in 44..53 -> "request.sourcePortIdentity"
      [] OTHER        -> msgUnpackHeader(o, "request.sequenceId", "domainNumber")

msgUnpackManagement(o, id) ==
    CASE o \in 34..43                    -> "targetPortIdentity"
      [] o = 44                          -> "startingBoundaryHops"
      [] o = 45                          -> "boundaryHops"
      [] o = 46                          -> "actionField"
      [] o \in 48..49                    -> "tlvType"
      [] o \in 52..53                    -> "managementId"
      [] o \in 54..(53 + DataLength(id)) -> "data"
      [] OTHER                           -> msgUnpackHeader(o, "request.sequenceId", "domainNumber")

Unpack(o, type, id, oneStep) ==
    CASE type = "Sync"               -> msgUnpackSync(o, oneStep)
      [] type = "FollowUp"           -> msgUnpackFollowUp(o)
      [] type = "Announce"           -> msgUnpackAnnounce(o)
      [] type = "DelayReq"           -> msgUnpackDelayReq(o)
      [] type = "DelayResp"          -> msgUnpackDelayResp(o)
      [] type = "PDelayReq"          -> msgUnpackPDelayReq(o)
      [] type = "PDelayResp"         -> msgUnpackPDelayResp(o, oneStep)
      [] type = "PDelayRespFollowUp" -> msgUnpackPDelayRespFollowUp(o)
      [] type = "Management"         -> msgUnpackManagement(o, id)
=============================================================================
