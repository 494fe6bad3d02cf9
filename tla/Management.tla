----------------------------- MODULE Management -----------------------------
(***************************************************************************)
(* The management messages (src/esl/sw/management.cpp): what a port does   *)
(* with each of the management ids, as pure operators.  A handler takes    *)
(* the clock's data sets c and the message m, and returns the data sets    *)
(* and the reply.                                                          *)
(*                                                                         *)
(* A value is a record of the data set members it carries, named as the    *)
(* fields of struct PtpClock.  Flags are Booleans of their own, whatever   *)
(* octet they share in the message.                                        *)
(***************************************************************************)
EXTENDS Integers, Functions

CONSTANT UserDescriptionMax     \* USER_DESCRIPTION_MAX, in octets

ASSUME ManagementAssumption == UserDescriptionMax \in Nat

Actions == {"GET", "SET", "RESPONSE", "COMMAND", "ACKNOWLEDGE"}

\* The ids that are answered with NOT_SUPPORTED, whatever is asked, and those
\* the program does not know.
UnsupportedIds == {"FAULT_LOG", "PATH_TRACE_LIST", "UNICAST_MASTER_TABLE", "PRIMARY_DOMAIN"}
UnknownIds == {"UNKNOWN"}

NoValue == <<>>

-----------------------------------------------------------------------------
(* The replies *)

\* initOutgoingMsgManagement: a reply goes back the way the message came, with
\* as many boundary hops as that one has used up (an octet).
initOutgoingMsgManagement(c, m) ==
    [domain |-> c.domainNumber, seq |-> m.seq, target |-> m.src,
     startingBoundaryHops |-> (m.startingBoundaryHops - m.boundaryHops) % 256,
     boundaryHops |-> (m.startingBoundaryHops - m.boundaryHops) % 256]

\* The action field starts as 0, which is GET: such a reply is not sent.
Answer(c, action, value) ==
    [clk |-> c, tlv |-> "MANAGEMENT", action |-> action, value |-> value]

Nothing(c) == Answer(c, "GET", NoValue)

handleErrorManagementMessage(c, m, error) ==
    [clk |-> c, tlv |-> "MANAGEMENT_ERROR_STATUS",
     action |-> CASE m.action \in {"GET", "SET"} -> "RESPONSE"
                  [] m.action = "RESPONSE"       -> "ACKNOWLEDGE"
                  [] OTHER                       -> "GET",
     value |-> [managementId |-> m.id, errorId |-> error]]

NotSupported(c, m) == handleErrorManagementMessage(c, m, "NOT_SUPPORTED")

\* issueManagementRespOrAck or issueManagementErrorStatus is called.
IsSent(r) ==
    r.tlv = "MANAGEMENT_ERROR_STATUS" \/ r.action \in {"RESPONSE", "ACKNOWLEDGE"}

-----------------------------------------------------------------------------
(* The members of the data sets *)

\* c with those of the members that the value v carries.
Assign(c, v, members) ==
    [x \in DOMAIN c |-> IF x \in members \cap DOMAIN v THEN v[x] ELSE c[x]]

\* A data set that can only be read.
ReadOnly(c, m, members) ==
    CASE m.action = "GET"      -> Answer(c, "RESPONSE", Restrict(c, members))
      [] m.action = "RESPONSE" -> Nothing(c)
      [] OTHER                 -> NotSupported(c, m)

\* Members that can be set: SET falls through to GET.
Settable(c, m, members) ==
    CASE m.action = "SET" -> LET d == Assign(c, m.value, members)
                             IN  Answer(d, "RESPONSE", Restrict(d, members))
      [] OTHER            -> ReadOnly(c, m, members)

\* The same without a case for RESPONSE.
SettableUnheard(c, m, members) ==
    IF m.action = "RESPONSE" THEN NotSupported(c, m) ELSE Settable(c, m, members)

handleMMClockDescription(c, m) == ReadOnly(c, m, {"portIdentity", "user_description"})

handleMMSlaveOnly(c, m) == SettableUnheard(c, m, {"slaveOnly"})

\* Too long a description is not stored, and answered with the old one.
handleMMUserDescription(c, m) ==
    IF m.action = "SET" /\ m.value.user_description > UserDescriptionMax
    THEN SettableUnheard(c, [m EXCEPT !.action = "GET"], {"user_description"})
    ELSE SettableUnheard(c, m, {"user_description"})

\* The flag twoStepFlag, 0 or 1, is shifted out of the octet so_tsc.
handleMMDefaultDataSet(c, m) ==
    LET r == ReadOnly(c, m, {"slaveOnly", "priority1", "clockClass", "clockAccuracy",
                             "priority2", "domainNumber"})
    IN  IF m.action = "GET"
        THEN [r EXCEPT !.value = [so_tsc |-> 2 * @.slaveOnly + c.twoStepFlag \div 2,
                                  members |-> @]]
        ELSE r

\* The offset and the path delay are answered as 0.
handleMMCurrentDataSet(c, m) == ReadOnly(c, m, {"stepsRemoved"})

handleMMParentDataSet(c, m) == ReadOnly(c, m, {"parentPortIdentity", "grandmaster"})

handleMMTimePropertiesDataSet(c, m) ==
    ReadOnly(c, m, {"currentUtcOffset", "currentUtcOffsetValid", "leap59", "leap61",
                    "timeTraceable", "frequencyTraceable", "ptpTimescale", "timeSource"})

handleMMPortDataSet(c, m) ==
    ReadOnly(c, m, {"portIdentity", "portState", "logMinDelayReqInterval",
                    "logAnnounceInterval", "announceReceiptTimeout", "logSyncInterval",
                    "delayMechanism", "logMinPdelayReqInterval", "versionNumber"})

handleMMPriority1(c, m) == Settable(c, m, {"priority1"})

handleMMPriority2(c, m) == Settable(c, m, {"priority2"})

handleMMDomain(c, m) == Settable(c, m, {"domainNumber"})

handleMMLogAnnounceInterval(c, m) == Settable(c, m, {"logAnnounceInterval"})

handleMMAnnounceReceiptTimeout(c, m) == Settable(c, m, {"announceReceiptTimeout"})

handleMMLogSyncInterval(c, m) == Settable(c, m, {"logSyncInterval"})

handleMMVersionNumber(c, m) == Settable(c, m, {"versionNumber"})

handleMMClockAccuracy(c, m) == Settable(c, m, {"clockAccuracy"})

handleMMUtcProperties(c, m) ==
    Settable(c, m, {"currentUtcOffset", "currentUtcOffsetValid", "leap59", "leap61"})

handleMMTraceabilityProperties(c, m) ==
    Settable(c, m, {"frequencyTraceable", "timeTraceable"})

handleMMDelayMechanism(c, m) == Settable(c, m, {"delayMechanism"})

handleMMLogMinPdelayReqInterval(c, m) == Settable(c, m, {"logMinPdelayReqInterval"})

\* The time is neither set nor answered: the reply is given no data, and the
\* pack function reads through its null pointer, so that no run sends TIME.
handleMMTime(c, m) ==
    CASE m.action \in {"SET", "GET"} -> Answer(c, "RESPONSE", NoValue)
      [] m.action = "RESPONSE"       -> Nothing(c)
      [] OTHER                       -> NotSupported(c, m)

-----------------------------------------------------------------------------
(* The commands *)

handleMMNullManagement(c, m) ==
    IF m.action \in {"GET", "SET", "COMMAND"} THEN Nothing(c) ELSE NotSupported(c, m)

handleMMSaveInNonVolatileStorage(c, m) == NotSupported(c, m)

handleMMResetNonVolatileStorage(c, m) == NotSupported(c, m)

\* Seeded fault: the port listens at once, behind the back of doInit.
InitializeListens(c, m) ==
    CASE m.action = "COMMAND"     -> Answer([c EXCEPT !.portState = "LISTENING"],
                                           "ACKNOWLEDGE", m.value)
      [] m.action = "ACKNOWLEDGE" -> Nothing(c)
      [] OTHER                    -> NotSupported(c, m)

\* The state is written without toState: the port's timers go on.
handleMMInitialize(c, m) ==
    CASE m.action = "COMMAND" ->
           Answer(IF m.value.initializeKey = 0 THEN [c EXCEPT !.portState = "INITIALIZING"] ELSE c,
                 "ACKNOWLEDGE", m.value)
      [] m.action = "ACKNOWLEDGE" -> Nothing(c)
      [] OTHER                    -> NotSupported(c, m)

handleMMEnablePort(c, m) ==
    IF m.action = "COMMAND"
    THEN Answer(IF c.portState = "DISABLED" THEN [c EXCEPT !.portState = "INITIALIZING"] ELSE c,
               "ACKNOWLEDGE", NoValue)
    ELSE NotSupported(c, m)

handleMMDisablePort(c, m) ==
    IF m.action = "COMMAND"
    THEN Answer([c EXCEPT !.portState = "DISABLED"], "ACKNOWLEDGE", NoValue)
    ELSE NotSupported(c, m)

-----------------------------------------------------------------------------
(* handleManagement *)

\* The switch on the management id, for a message with a management TLV.
handleMM(c, m) ==
    CASE m.id = "NULL_MANAGEMENT"     -> handleMMNullManagement(c, m)
      [] m.id = "CLOCK_DESCRIPTION"   -> handleMMClockDescription(c, m)
      [] m.id = "USER_DESCRIPTION"    -> handleMMUserDescription(c, m)
      [] m.id = "SAVE_IN_NON_VOLATILE_STORAGE" -> handleMMSaveInNonVolatileStorage(c, m)
      [] m.id = "RESET_NON_VOLATILE_STORAGE"   -> handleMMResetNonVolatileStorage(c, m)
      [] m.id = "INITIALIZE"          -> handleMMInitialize(c, m)
      [] m.id = "DEFAULT_DATA_SET"    -> handleMMDefaultDataSet(c, m)
      [] m.id = "CURRENT_DATA_SET"    -> handleMMCurrentDataSet(c, m)
      [] m.id = "PARENT_DATA_SET"     -> handleMMParentDataSet(c, m)
      [] m.id = "TIME_PROPERTIES_DATA_SET" -> handleMMTimePropertiesDataSet(c, m)
      [] m.id = "PORT_DATA_SET"       -> handleMMPortDataSet(c, m)
      [] m.id = "PRIORITY1"           -> handleMMPriority1(c, m)
      [] m.id = "PRIORITY2"           -> handleMMPriority2(c, m)
      [] m.id = "DOMAIN"              -> handleMMDomain(c, m)
      [] m.id = "SLAVE_ONLY"          -> handleMMSlaveOnly(c, m)
      [] m.id = "LOG_ANNOUNCE_INTERVAL"    -> handleMMLogAnnounceInterval(c, m)
      [] m.id = "ANNOUNCE_RECEIPT_TIMEOUT" -> handleMMAnnounceReceiptTimeout(c, m)
      [] m.id = "LOG_SYNC_INTERVAL"   -> handleMMLogSyncInterval(c, m)
      [] m.id = "VERSION_NUMBER"      -> handleMMVersionNumber(c, m)
      [] m.id = "ENABLE_PORT"         -> handleMMEnablePort(c, m)
      [] m.id = "DISABLE_PORT"        -> handleMMDisablePort(c, m)
      [] m.id = "TIME"                -> handleMMTime(c, m)
      [] m.id = "CLOCK_ACCURACY"      -> handleMMClockAccuracy(c, m)
      [] m.id = "UTC_PROPERTIES"      -> handleMMUtcProperties(c, m)
      [] m.id = "TRACEABILITY_PROPERTIES" -> handleMMTraceabilityProperties(c, m)
      [] m.id = "DELAY_MECHANISM"     -> handleMMDelayMechanism(c, m)
      [] m.id = "LOG_MIN_PDELAY_REQ_INTERVAL" -> handleMMLogMinPdelayReqInterval(c, m)
      [] m.id \in UnsupportedIds      -> NotSupported(c, m)
      [] OTHER                        -> handleErrorManagementMessage(c, m, "NO_SUCH_ID")

\* Seeded fault: an error status is handled like any other TLV.
IsHandledOrError(m) == m.tlv # "NONE"

\* The message has a management TLV.  A message without one, with an error
\* status or with another TLV is taken note of and not answered; nobody looks
\* at targetPortIdentity.
IsHandled(m) == m.tlv = "MANAGEMENT"

-----------------------------------------------------------------------------
\* The kinds of management messages, by what may still follow them: a request
\* may be answered, the answer may be answered with an error status, and that
\* is the end.
Precedence(tlv, action) ==
    IF tlv # "MANAGEMENT" THEN 0 ELSE IF action \in {"RESPONSE", "ACKNOWLEDGE"} THEN 1 ELSE 2
=============================================================================
