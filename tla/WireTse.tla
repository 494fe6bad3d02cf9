------------------------------ MODULE WireTse -------------------------------
(***************************************************************************)
(* The frames of Wire in the timestamp unit.  Wire says which octets of a  *)
(* message the unit rewrites; here the parser of the unit itself runs over *)
(* the characters of the line (Tse), and its outputs are compared with     *)
(* what Wire says.                                                         *)
(***************************************************************************)
EXTENDS Wire, Tse

\* Octet by octet: the content matters where the parser looks, and the message
\* counts its octets from 128 on.
HeadOctets(head) ==
    [i \in 1..2 * Len(head) |->
        IF i % 2 = 1 THEN High(head[(i + 1) \div 2]) ELSE Low(head[i \div 2])]

FrameOctets(encoding, len, messageType) ==
    LET head == Headers(encoding, len, messageType)
        pad  == pad_len(encoding, 2 * Len(head), len)
    IN  HeadOctets(head) \o <<messageType>> \o [i \in 1..len - 1 |-> 128 + i]
        \o [i \in 1..pad + 4 |-> 85]

Idles(n) == [i \in 1..n |-> Idle]

\* The characters of a line that carries the frame twice, in both lanes that a
\* frame may start in, 16 characters or more apart; and where the messages start.
Line(head_len, octets) ==
    LET once  == Preamble \o octets \o <<Terminate>>
        first == Idles(8) \o once \o Idles(15)
        more  == first \o Idles((4 - Len(first)) % 8)
        both  == more \o once \o Idles(80)
    IN  [chars    |-> both \o Idles((-Len(both)) % 8),
         messages |-> {n + Len(Preamble) + head_len + 1 : n \in {8, Len(more)}}]

Words(chars) == [k \in 1..Len(chars) \div 8 |-> SubSeq(chars, 8 * k - 7, 8 * k)]

\* A unit that sends words out after this delay rewrites just these octets.
OnlyRewrites(line, out, delay, octets) ==
    LET chars == FlattenSeq(out)
    IN  { i \in 1..Len(line.chars) - 8 * delay : chars[i + 8 * delay] # line.chars[i] }
            = { m + o : m \in line.messages, o \in octets }

\* How often the signal rises.
Rises(signal) == Cardinality({k \in DOMAIN signal \ {1} : signal[k] /\ ~signal[k - 1]})

\* An event message and a general one, in every frame but a tagged SNAP frame.
Timestamped == {"Sync", "Announce"}
Supported == {e \in Options : e.layer2Encap = "SNAP" => e.vlanTag = 0}

\* What the unit makes of the line: whether both paths rewrite the octets that
\* RxTimestamp and TxTimestamp say, and how often its signals rise.
Verdict(e, type) ==
    LET octets == FrameOctets(e, LengthOf(type, [set |-> "EMPTY", text |-> 0]), MessageType(type))
        line   == Line(2 * Len(Headers(e, 0, 0)), octets)
        regs   == Clocked(Words(line.chars))
    IN  [encoding   |-> e,
         type       |-> type,
         rewrites   |-> /\ OnlyRewrites(line, [k \in DOMAIN regs |-> rx_emb_ts(regs[k])], 8,
                                      RxEmbedded(type))
                        /\ OnlyRewrites(line, [k \in DOMAIN regs |-> tx_emb_ts(regs[k], TRUE)], 9,
                                      TxEmbedded(type, TRUE)),
         interrupts |-> Rises([k \in DOMAIN regs |-> regs[k].int_rx_ptp]),
         timestamps |-> Rises([k \in DOMAIN regs |-> regs[k].rxts_valid])]

Verdicts == {Verdict(e, type) : e \in Supported, type \in Timestamped}

\* The verdict on the frame on the line, if it is one of those.
VerdictNow == {v \in Verdicts : v.encoding = port.encoding /\ v.type = frame.type}

-----------------------------------------------------------------------------
(* Properties *)

\* The timestamp unit, which parses the frame on its own, eight characters a
\* cycle and with registers that clear one after another, rewrites the octets of
\* messageTypeSpecific in event messages and no other octet of the frame or of the
\* frame that follows it, in whichever lane they start.
OnlyItsOctets == \A v \in VerdictNow : v.rewrites

\* Each of the two frames raises the receive interrupt once, which stays up until
\* the next frame starts, and an event message, but no other, has its timestamp
\* stored once.
OneSignalEach ==
    \A v \in VerdictNow :
        /\ v.interrupts = 2
        /\ v.timestamps = IF v.type \in EventMessages THEN 2 ELSE 0
=============================================================================
