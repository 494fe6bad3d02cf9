-------------------------- MODULE ProtocolHistory --------------------------
(***************************************************************************)
(* How often the port handles one and the same message.  A history         *)
(* variable is added to Protocol; it restricts no step of it.              *)
(***************************************************************************)
EXTENDS ProtocolProperties

VARIABLE due    \* how often the message in the buffer is still to be handled

historyVars == <<vars, due>>

\* The messages that are counted.  An Announce is not: it refreshes its record,
\* and is handled again after every change of state it causes.
Countable(f) == f # NoFrame /\ f.type # "ANNOUNCE"

HistoryInit == Init /\ due = 0

\* A message is handled once; but one that arrives at "burst", after the length
\* of its predecessor has been read, is handled in its predecessor's place and,
\* its data_rdy flag still set, once more.
Received(f) ==
    /\ Arrive(f)
    /\ due' = IF ~Countable(f) THEN 0 ELSE IF pc = "burst" THEN 2 ELSE 1

Handling ==
    /\ handle
    /\ due' = due - (IF Countable(rx.frame) THEN 1 ELSE 0)

Uncounted ==
    /\ \/ PassStep \/ SlaveStep \/ MasterStep
       \/ netSelect \/ netRecv \/ issuePDelayRespFollowUp
       \/ Tick \/ Transmit
    /\ UNCHANGED due

HistoryNext == Handling \/ Uncounted \/ \E f \in Frames : Received(f)

HistorySpec == HistoryInit /\ [][HistoryNext]_historyVars

\* A message other than an Announce is handled as often as it is due: never a
\* third time, and a second time only if it broke in between the two reads of
\* its predecessor, whatever handle() fetches without polling after a change of
\* state.  Nor is one passed over: until it has been handled, or a later one has
\* overwritten it, its flag is set or it is being handled.
HandledAsDue ==
    /\ due >= 0
    /\ due > 0 => rx.ready \/ pc = "burst"
=============================================================================
