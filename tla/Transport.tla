------------------------------ MODULE Transport ------------------------------
(***************************************************************************)
(* Putting a PTP message into an Ethernet frame and finding it there again *)
(* (src/esl/sw/dep/transport.cpp).  Every header ends on an even octet, so *)
(* the part of a frame in front of the message is a sequence of 16-bit     *)
(* words in network order; words that the parser never looks at are 0.     *)
(***************************************************************************)
EXTENDS Integers, Sequences

NetworkProtocols == {"IEEE_802_3", "UDP_IPV4", "UDP_IPV6"}
Encapsulations == {"ETHER2", "SNAP", "PPPOE"}
VlanTags == 0..2

\* What the options of the port choose.  PPPoE carries IP only: transmit has no
\* protocol number for PTP directly over it.
Encodings ==
    { e \in [networkProtocol : NetworkProtocols, layer2Encap : Encapsulations,
             vlanTag : VlanTags] :
        e.layer2Encap = "PPPOE" => e.networkProtocol # "IEEE_802_3" }

PTP_ETHER_TYPE == \h88f7
IPV4 == \h0800
IPV6 == \h86dd
UDP == 17

Unread(octets) == [w \in 1..octets \div 2 |-> 0]

-----------------------------------------------------------------------------
(* Sending *)

ip_len(e, msg_len) ==
    CASE e.networkProtocol = "UDP_IPV4" -> 20 + 8 + msg_len
      [] e.networkProtocol = "UDP_IPV6" -> 40 + 8 + msg_len + 2
      [] OTHER                          -> msg_len

ether2_type(e) ==
    CASE e.networkProtocol = "UDP_IPV4" -> IF e.layer2Encap = "PPPOE" THEN \h0021 ELSE IPV4
      [] e.networkProtocol = "UDP_IPV6" -> IF e.layer2Encap = "PPPOE" THEN \h0057 ELSE IPV6
      [] OTHER                          -> PTP_ETHER_TYPE

\* The length field of a SNAP frame counts the addresses and the checksum too.
length_type(e, msg_len) ==
    CASE e.layer2Encap = "ETHER2" -> ether2_type(e)
      [] e.layer2Encap = "SNAP"   -> 12 + 2 + 8 + 4 + ip_len(e, msg_len)
      [] OTHER                    -> \h8864

\* Event messages have the message types below 8.
udp_dport(messageType) == IF messageType < 8 THEN 319 ELSE 320

VlanHeader(e) ==
    (IF e.vlanTag = 2 THEN <<\h88a8, 2>> ELSE <<>>)
    \o (IF e.vlanTag \in {1, 2} THEN <<\h8100, 2>> ELSE <<>>)

EncapHeader(e) ==
    CASE e.layer2Encap = "SNAP"  -> <<\haaaa, 0, 0, ether2_type(e)>>
      [] e.layer2Encap = "PPPOE" -> <<0, 0, 0, ether2_type(e)>>
      [] OTHER                   -> <<>>

IpHeader(e) ==
    CASE e.networkProtocol = "UDP_IPV4" -> Unread(8) \o <<\hff00 + UDP>> \o Unread(10)
      [] e.networkProtocol = "UDP_IPV6" -> Unread(6) \o <<UDP * 256 + 255>> \o Unread(32)
      [] OTHER                          -> <<>>

UdpHeader(e, messageType) ==
    IF e.networkProtocol = "IEEE_802_3" THEN <<>>
    ELSE <<0, udp_dport(messageType), 0, \habcd>>

\* The two addresses, the tags and the type; then what the type announces.
MacHeader(e, msg_len) == Unread(12) \o VlanHeader(e) \o <<length_type(e, msg_len)>>
TypeHeaders(e, messageType) == EncapHeader(e) \o (IpHeader(e) \o UdpHeader(e, messageType))

\* Everything in front of the message.
Headers(e, msg_len, messageType) == MacHeader(e, msg_len) \o TypeHeaders(e, messageType)

\* The octets of padding: IPv6 always takes two, for the checksum that the
\* hardware adjusts; other frames are filled up to the minimum of Ethernet,
\* VLAN tags not counted.
pad_len(e, head_len, msg_len) ==
    IF e.networkProtocol = "UDP_IPV6" THEN 2
    ELSE LET short == 64 - (head_len - 4 * e.vlanTag + msg_len + 4)
         IN  IF short > 0 THEN short ELSE 0

frame_len(e, msg_len, messageType) ==
    LET head_len == 2 * Len(Headers(e, msg_len, messageType))
    IN  head_len + msg_len + pad_len(e, head_len, msg_len) + 4

-----------------------------------------------------------------------------
(* Receiving *)

\* The word at octet o; behind the head the message begins, where the parser
\* finds nothing it looks for.
At(head, o) == IF o \div 2 + 1 \in DOMAIN head THEN head[o \div 2 + 1] ELSE 0

Low(word) == word % 256
High(word) == word \div 256

IsUdp(protocol, dport) == protocol = UDP /\ dport \in {319, 320}

\* The octets that VLAN tags take and the type behind them.
VlanOverhead(head) ==
    LET double == {\h88a8, \h9100, \h9200, \h9300, \h8100}
        single == At(head, 12) = \h8100
        type   == IF single THEN At(head, 16) ELSE At(head, 12)
    IN  IF type \in double THEN 8 ELSE IF single THEN 4 ELSE 0

\* The octets of IP and UDP headers behind octet m, or -1 for another protocol;
\* skip octets of encapsulation come first.
UdpOverhead(head, m, protocol, skip) ==
    CASE protocol = "UDP_IPV4"
         /\ IsUdp(Low(At(head, m + skip + 8)), At(head, m + skip + 22)) -> skip + 28
      [] protocol = "UDP_IPV6"
         /\ IsUdp(High(At(head, m + skip + 6)), At(head, m + skip + 42)) -> skip + 48
      [] OTHER -> -1

EncapOverhead(head, m, eth_type) ==
    LET inner == At(head, m + 6)
    IN  CASE eth_type = PTP_ETHER_TYPE -> 0
          [] eth_type = IPV4 -> UdpOverhead(head, m, "UDP_IPV4", 0)
          [] eth_type = IPV6 -> UdpOverhead(head, m, "UDP_IPV6", 0)
          [] eth_type = \h8864 /\ inner = \h0021 -> UdpOverhead(head, m, "UDP_IPV4", 8)
          [] eth_type = \h8864 /\ inner = \h0057 -> UdpOverhead(head, m, "UDP_IPV6", 8)
          [] eth_type <= 1500 /\ At(head, m) = \haaaa ->
                 CASE inner = IPV4           -> UdpOverhead(head, m, "UDP_IPV4", 8)
                   [] inner = IPV6           -> UdpOverhead(head, m, "UDP_IPV6", 8)
                   [] inner = PTP_ETHER_TYPE -> 8
                   [] OTHER                  -> -1
          [] OTHER -> -1

\* Where the message starts, or -1: not a PTP message.
parse_frame(head) ==
    LET vlan     == VlanOverhead(head)
        overhead == EncapOverhead(head, 14 + vlan, At(head, 12 + vlan))
    IN  IF overhead = -1 THEN -1 ELSE 14 + vlan + overhead
=============================================================================
