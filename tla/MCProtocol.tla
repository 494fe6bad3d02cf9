----------------------------- MODULE MCProtocol -----------------------------
(***************************************************************************)
(* Values for the constants of Protocol: the local clock 2 and the frames  *)
(* its neighbours send.                                                    *)
(***************************************************************************)
EXTENDS ProtocolProperties

Attributes(p1, class) == <<p1, class, 1, 1, 1>>

\* The local clock: of the default class, of one that only ever becomes
\* master or passive, and of the class that is only ever slave.
DefaultClass   == Attributes(1, 248)
PrimaryClass   == Attributes(1, 6)
SlaveOnlyClass == Attributes(1, 255)

Port(clock) == [clock |-> clock, port |-> 1]

Message(type, src, seq) ==
    [type |-> type, form |-> "full", src |-> Port(src), seq |-> seq, twoStep |-> FALSE,
     req |-> SelfPort, interval |-> 1,
     ds |-> [quality |-> Attributes(0, 248), gm |-> src, stepsRemoved |-> 0]]

Announce(src, p1, gm, steps) ==
    [Message("ANNOUNCE", src, 0) EXCEPT
       !.ds = [quality |-> Attributes(p1, 248), gm |-> gm, stepsRemoved |-> steps]]

TwoSteps(m) == [m EXCEPT !.twoStep = TRUE]

\* Clock 1 is better than the local clock at times and worse at times; the
\* boundary clocks 3 and 4 announce the better grandmaster 5, one and two steps
\* away; and the local clock hears itself.
ElectionFrames ==
    {Announce(1, 0, 1, 0), Announce(1, 2, 1, 0), Announce(3, 0, 5, 1),
     Announce(4, 0, 5, 2), Announce(2, 1, 2, 0)}

\* Master 1 in both styles, its responses, and the request of another slave.
DelayFrames ==
    {Announce(1, 0, 1, 0), Message("SYNC", 1, 0), TwoSteps(Message("SYNC", 1, 0)),
     TwoSteps(Message("SYNC", 1, 1)), Message("FOLLOW_UP", 1, 0), Message("FOLLOW_UP", 1, 1),
     Message("DELAY_RESP", 1, 0), Message("DELAY_RESP", 1, 1), Message("DELAY_REQ", 3, 0)}

\* A peer that is the master at times, with its requests and responses.
PeerFrames ==
    {Announce(1, 0, 1, 0), Message("SYNC", 1, 0), Message("PDELAY_REQ", 1, 0),
     Message("PDELAY_REQ", 1, 1), TwoSteps(Message("PDELAY_RESP", 1, 0)),
     TwoSteps(Message("PDELAY_RESP", 1, 1)), Message("PDELAY_RESP_FOLLOW_UP", 1, 0),
     Message("PDELAY_RESP_FOLLOW_UP", 1, 1)}

\* Truncated and foreign frames, and an echo of our own Announce with the
\* steps counted up: what the election cannot rank.
FaultFrames ==
    {Announce(1, 0, 1, 0), Announce(3, 0, 2, 1),
     [Message("SYNC", 1, 0) EXCEPT !.form = "runt"],
     [Message("ANNOUNCE", 1, 0) EXCEPT !.form = "short"],
     [Message("PDELAY_REQ", 1, 0) EXCEPT !.form = "short"],
     [Message("SYNC", 1, 0) EXCEPT !.form = "alien"]}

\* A master with everything a slave needs to synchronise.
MasterFrames == {Announce(1, 0, 1, 0), Message("SYNC", 1, 0)}

\* The same, and at times worse than the local clock.
FickleMasterFrames == MasterFrames \cup {Announce(1, 2, 1, 0)}
=============================================================================
