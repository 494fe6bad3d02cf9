------------------------------ MODULE PortRole ------------------------------
(***************************************************************************)
(* What a port promises the clocks around it, whatever it hears from them: *)
(* the order in which it takes on its roles, which grandmaster it stands   *)
(* for in each, and which messages it sends in which role.  Protocol is    *)
(* shown to implement this specification.                                  *)
(***************************************************************************)
EXTENDS Naturals

CONSTANT Self

VARIABLES
    role,       \* the state of the port
    gm,         \* the grandmaster the port stands for
    sending     \* the type of the message on its way out, or "NONE"

roleVars == <<role, gm, sending>>

Listening == {"LISTENING", "SLAVE", "PASSIVE", "MASTER"}
Following == {"SLAVE", "PASSIVE"}

MasterMessages == {"ANNOUNCE", "SYNC", "FOLLOW_UP", "DELAY_RESP"}
Answers == {"PDELAY_RESP", "PDELAY_RESP_FOLLOW_UP"}
Requests == {"DELAY_REQ", "PDELAY_REQ"}

Quiet == sending = "NONE" /\ sending' = "NONE"

Init == role = "INITIALIZING" /\ gm = 0 /\ sending = "NONE"

\* The port starts, or starts again, as a clock of its own.
Start == /\ role = "INITIALIZING" /\ role' = "LISTENING"
         /\ gm' = Self
         /\ Quiet

\* It follows another clock's grandmaster, or a new one.
Follow == /\ role \in Listening /\ role' \in Following
          /\ gm' \in Nat
          /\ Quiet

Lead == /\ role \in Listening /\ role' = "MASTER"
        /\ gm' = Self
        /\ Quiet

\* It gives up its master, or its own mastership, and waits.
Listen == /\ role \in Listening /\ role' = "LISTENING"
          /\ Quiet
          /\ UNCHANGED gm

Fail == /\ role \in Listening /\ role' = "FAULTY"
        /\ Quiet
        /\ UNCHANGED gm

Clear == /\ role = "FAULTY" /\ role' = "INITIALIZING"
         /\ Quiet
         /\ UNCHANGED gm

\* Time and offers of time are a master's to send, and of its own clock only;
\* a peer is answered in any role but before the first.
Send == /\ sending = "NONE"
        /\ \/ /\ sending' \in MasterMessages
              /\ role = "MASTER"
              /\ gm = Self
           \/ sending' \in Answers /\ role \in {"SLAVE", "PASSIVE", "MASTER"}
           \/ sending' \in Requests
        /\ UNCHANGED <<role, gm>>

Sent == /\ sending # "NONE" /\ sending' = "NONE"
        /\ UNCHANGED <<role, gm>>

Next == Start \/ Follow \/ Lead \/ Listen \/ Fail \/ Clear \/ Send \/ Sent

Spec == Init /\ [][Next]_roleVars
=============================================================================
