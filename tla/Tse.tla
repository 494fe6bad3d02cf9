-------------------------------- MODULE Tse ---------------------------------
(***************************************************************************)
(* The timestamp engines of the 10G interface: the parser that looks for a *)
(* PTP message in the passing frame, and the units that rewrite some of    *)
(* its octets.  Eight characters pass in every clock cycle; the parser     *)
(* reads each header from a copy of the data that is delayed just so far   *)
(* that it knows by then where that header is.                             *)
(*                                                                         *)
(* Edge is one clock edge.  rx_parse and tx_parse are alike; the check of  *)
(* versions and addresses, which is not enabled, is left out.              *)
(***************************************************************************)
EXTENDS Integers, SequencesExt, Bitwise

\* Characters of the line: octets and the control characters.
Start == -1
Terminate == -2
Idle == -3
IsOctet(character) == character >= 0

SFD == \hd5
Preamble == <<Start, 85, 85, 85, 85, 85, 85, SFD>>

Lanes == 0..7
Nowhere == -9

\* Delayed copies are sequences: the k-th is k cycles old.  eth_count_base is
\* the number, within the frame, of the first character of each word; SFD is 7.
Reset ==
    LET header == [flag |-> FALSE, base |-> 0, protocol |-> <<0>>, port |-> <<0, 0>>]
    IN  [word             |-> [k \in 1..9 |-> [i \in 1..8 |-> 0]],
         is_start         |-> FALSE,
         get_sfd_done     |-> [k \in 1..7 |-> FALSE],
         get_efd_done     |-> [k \in 1..7 |-> FALSE],
         eth_count_base   |-> [k \in 1..9 |-> 0],
         length_type      |-> <<0, 0>>,
         vlan1            |-> <<0, 0>>,
         vlan2            |-> <<0, 0>>,
         ppp_pid          |-> <<0, 0>>,
         snap_sap         |-> <<0, 0>>,
         snap_length_type |-> <<0, 0>>,
         ipv4             |-> header,
         ipv6             |-> header,
         is_ptp_message   |-> FALSE,
         ptp_addr_base    |-> 128,
         ptp              |-> [i \in 1..32 |-> 0],
         int_rx_ptp       |-> FALSE,
         rxts_valid       |-> FALSE]

Delay(new, copies) == <<new>> \o Front(copies)

-----------------------------------------------------------------------------
(* Registers of octets *)

EthCount(p, k, lane) == IF p.get_sfd_done[k] THEN p.eth_count_base[k] + lane ELSE 0

\* The frame has ended for the registers that listen to the k-th copy.
Ended(p, k) == p.get_efd_done[k + 1]

\* The register takes the octets from number first on as they pass the k-th
\* copy.  Every lane offers the old value with its own octet put in, or zero
\* once the frame has ended; the lanes are or-ed (OR_LANE).
Latch(p, k, on, register, first) ==
    LET active == {lane \in Lanes : on /\ IsOctet(p.word[k][lane + 1])}
        kept   == IF Ended(p, k) THEN active ELSE Lanes
    IN  [i \in DOMAIN register |->
            LET here == {lane \in active : EthCount(p, k, lane) = first + i - 1}
                old  == IF kept \ here = {} THEN 0 ELSE register[i]
            IN  IF here = {} THEN old
                ELSE old | p.word[k][(CHOOSE lane \in here : TRUE) + 1]]

Number(register) == 256 * register[1] + register[2]

-----------------------------------------------------------------------------
(* What the headers say *)

\* The octets of VLAN tags, and the type behind them.
TagOctets(p) ==
    LET outer == Number(p.length_type)
        inner == Number(p.vlan1)
    IN  CASE outer \in {\h88a8, \h9100, \h9200, \h9300, \h8100} /\ inner = \h8100 -> 8
          [] outer = \h8100 /\ inner # \h8100 -> 4
          [] OTHER -> 0

InnerType(p) ==
    Number(CASE TagOctets(p) = 8 -> p.vlan2 [] TagOctets(p) = 4 -> p.vlan1
             [] OTHER -> p.length_type)

\* Where the payload of this type begins, or Nowhere: directly, in PPPoE or in SNAP.
Payload(p, ether_type, ppp_pid) ==
    CASE InnerType(p) = ether_type -> 22 + TagOctets(p)
      [] InnerType(p) = \h8864 /\ Number(p.ppp_pid) = ppp_pid -> 30 + TagOctets(p)
      [] /\ InnerType(p) <= 1500
         /\ p.snap_sap = <<\haa, \haa>>
         /\ Number(p.snap_length_type) = ether_type -> 30 + TagOctets(p)
      [] OTHER -> Nowhere

EthPayload(p)  == Payload(p, \h88f7, Nowhere)
Ipv4Payload(p) == Payload(p, \h0800, \h0021)
Ipv6Payload(p) == Payload(p, \h86dd, \h0057)

PtpOverUdp(header) == header.protocol = <<17>> /\ Number(header.port) \in {319, 320}

\* Where the PTP message begins, or Nowhere.
PtpPayload(p) ==
    CASE EthPayload(p) # Nowhere -> EthPayload(p)
      [] Ipv4Payload(p) # Nowhere /\ PtpOverUdp(p.ipv4) -> Ipv4Payload(p) + 28
      [] Ipv6Payload(p) # Nowhere /\ PtpOverUdp(p.ipv6) -> Ipv6Payload(p) + 48
      [] OTHER -> Nowhere

\* One cycle of the registers of an IP header, whose fields are at these offsets.
IpRegisters(p, header, payload, protocolAt, portAt) ==
    LET at(offset) == header.base + offset
    IN  [flag     |-> payload # Nowhere,
         base     |-> IF payload = Nowhere THEN 0 ELSE payload,
         protocol |-> Latch(p, 4, header.flag, header.protocol, at(protocolAt)),
         port     |-> Latch(p, 4, header.flag, header.port, at(portAt))]

-----------------------------------------------------------------------------
(* A clock edge *)

CountBase(p, w, get_sfd_done_p1) ==
    CASE get_sfd_done_p1 /\ ~p.get_sfd_done[1] ->
            8 - (CHOOSE i \in 1..8 : w[i] = SFD /\ \A j \in 1..i - 1 : w[j] # SFD)
      [] p.get_sfd_done[1] /\ ~(p.get_efd_done[1] /\ ~p.get_efd_done[2]) ->
            p.eth_count_base[1] + 8
      [] p.get_efd_done[1] /\ ~p.get_efd_done[2] -> 0
      [] OTHER -> p.eth_count_base[1]

\* Seeded fault: the message is dropped while its last octets are on their way.
MessageOverEarly(p) == p.get_efd_done[5] /\ ~p.get_efd_done[6]

MessageOver(p) == p.get_efd_done[6] /\ ~p.get_efd_done[7]

ptp_messageType(p) == p.ptp[1] % 16
IsEvent(p) == p.is_ptp_message /\ ptp_messageType(p) < 8

\* Seeded fault: it waits for the whole of a Sync to have passed.
MessagePassed(p) == p.is_ptp_message /\ p.eth_count_base[6] >= p.ptp_addr_base + 44

\* All the octets that identify the message have passed.
Identified(p) == p.is_ptp_message /\ p.eth_count_base[6] >= p.ptp_addr_base + 32

FrameStarts(p) == p.get_sfd_done[6] /\ ~p.get_sfd_done[7]

\* The word w comes in.
Edge(p, w) ==
    LET holds(character) == \E i \in 1..8 : w[i] = character
        efd == holds(Terminate) \/ (~holds(Start) /\ p.get_efd_done[1])
        sfd == /\ ~(efd /\ p.get_efd_done[1])
               /\ p.get_sfd_done[1] \/ (holds(SFD) /\ (holds(Start) \/ p.is_start))
        headers == p.get_sfd_done[1]
        encap   == p.get_sfd_done[2]
        found   == PtpPayload(p)
        over    == MessageOver(p)
        ppp     == IF InnerType(p) = \h8864 THEN 28 + TagOctets(p) ELSE Nowhere
        snap    == IF InnerType(p) <= 1500 THEN 22 + TagOctets(p) ELSE Nowhere
    IN  [word             |-> Delay(w, p.word),
         is_start         |-> holds(Start),
         get_sfd_done     |-> Delay(sfd, p.get_sfd_done),
         get_efd_done     |-> Delay(efd, p.get_efd_done),
         eth_count_base   |-> Delay(CountBase(p, w, sfd), p.eth_count_base),
         length_type      |-> Latch(p, 1, headers, p.length_type, 20),
         vlan1            |-> Latch(p, 1, headers, p.vlan1, 24),
         vlan2            |-> Latch(p, 1, headers, p.vlan2, 28),
         ppp_pid          |-> Latch(p, 2, encap, p.ppp_pid, ppp),
         snap_sap         |-> Latch(p, 2, encap, p.snap_sap, snap),
         snap_length_type |-> Latch(p, 2, encap, p.snap_length_type, snap + 6),
         ipv4             |-> IpRegisters(p, p.ipv4, Ipv4Payload(p), 9, 22),
         ipv6             |-> IpRegisters(p, p.ipv6, Ipv6Payload(p), 6, 42),
         is_ptp_message   |-> ~over /\ (found # Nowhere \/ p.is_ptp_message),
         ptp_addr_base    |-> CASE over -> 128
                                [] ~over /\ found # Nowhere -> found
                                [] OTHER -> p.ptp_addr_base,
         ptp              |-> Latch(p, 6, p.is_ptp_message, p.ptp, p.ptp_addr_base),
         int_rx_ptp       |-> Identified(p) \/ (p.int_rx_ptp /\ ~FrameStarts(p)),
         rxts_valid       |-> /\ ptp_messageType(p) < 8
                              /\ Identified(p) \/ (p.rxts_valid /\ ~Ended(p, 6))]

-----------------------------------------------------------------------------
(* The rewriting units.  Each looks at a copy that is a few cycles older    *)
(* than the one the parser takes the message from.                          *)

\* Which octet of an event message is in the lane of the copy delayed by k cycles.
EventOctet(p, k, lane) ==
    IF IsEvent(p) /\ IsOctet(p.word[k][lane])
    THEN p.eth_count_base[k] + lane - 1 - p.ptp_addr_base ELSE Nowhere

\* The nanoseconds of the arrival, as octets no frame on the line has.
IngressTime == 256

\* The correction is put back as it was latched: no asymmetry is configured.
rx_emb_ts(p) ==
    [lane \in 1..8 |->
        LET o == EventOctet(p, 8, lane)
        IN  CASE o \in 8..15  -> p.ptp[o + 1]
              [] o \in 16..19 -> IngressTime
              [] OTHER        -> p.word[8][lane]]

tx_emb_ts(p, one_step) ==
    [lane \in 1..8 |->
        IF one_step /\ EventOctet(p, 9, lane) \in 16..19 THEN 0 ELSE p.word[9][lane]]

\* The registers in each cycle in which one of the words comes in.
Clocked(words) ==
    FoldLeft(LAMBDA done, w : [regs |-> Edge(done.regs, w),
                               seen |-> Append(done.seen, done.regs)],
             [regs |-> Reset, seen |-> <<>>], words).seen
=============================================================================
