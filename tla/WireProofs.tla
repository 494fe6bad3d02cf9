----------------------------- MODULE WireProofs -----------------------------
(***************************************************************************)
(* Every field that a receiver acts on was written for its message, and    *)
(* every frame has a legal length, for any buffer, texts and encodings     *)
(* that the constants allow.                                               *)
(*                                                                         *)
(* The first part compares the pack function of a message with its unpack  *)
(* function, octet by octet, through the timestamp units on the way        *)
(* (AsPacked).  The second follows the parser of a receiver through the    *)
(* words of a frame to the message (MessageFound).  The third puts them    *)
(* together: WireInv adds to the two properties the flags that no pack     *)
(* function writes, which are read as they were when the buffer was        *)
(* zeroed.                                                                 *)
(***************************************************************************)
EXTENDS Wire, SequenceTheorems, TLAPS

-----------------------------------------------------------------------------
(* Packing and reading *)

\* The messages without a data set.
Simple == {"Sync", "FollowUp", "Announce", "DelayReq", "DelayResp", "PDelayReq",
           "PDelayResp", "PDelayRespFollowUp"}
NoData == [set |-> "EMPTY", text |-> 0]

\* A data set fits into the buffer behind the headers, and is even.
LEMMA DataLengths ==
    ASSUME NEW id \in DataSets \cup {NoData}
    PROVE  /\ DataLength(id) \in 0..PACKET_SIZE - 54
           /\ DataLength(id) % 2 = 0
<1> USE WireAssumption
<1>1. id.text \in 0..PACKET_SIZE - 104
  BY DEF NoData
<1>2. PACKET_SIZE \in 104..300
  OBVIOUS
<1>3. PadToEven(UserDescription(id.text)) \in 0..PACKET_SIZE - 54
      /\ PadToEven(UserDescription(id.text)) % 2 = 0
  BY <1>1, <1>2 DEF PadToEven, UserDescription, PTPText
<1>4. PadToEven(ClockDescription(id.text)) \in 0..PACKET_SIZE - 54
      /\ PadToEven(ClockDescription(id.text)) % 2 = 0
  <2>1. ClockDescription(id.text) = 49 + id.text
    BY <1>1 DEF ClockDescription, PTPText
  <2> QED BY <1>1, <1>2, <2>1 DEF PadToEven
<1>5. PadToEven(ErrorStatus) = 8
  BY DEF PadToEven, ErrorStatus, PTPText
<1>6. /\ DefaultDataSet = 20 /\ CurrentDataSet = 18 /\ ParentDataSet = 32
      /\ TimePropertiesDataSet = 4 /\ PortDataSet = 26 /\ UtcProperties = 4
      /\ VersionNumber = 2 /\ Initialize = 2 /\ Time = 10 /\ OneOctet = 2
  BY DEF DefaultDataSet, CurrentDataSet, ParentDataSet, TimePropertiesDataSet, PortDataSet,
     UtcProperties, VersionNumber, Initialize, Time, OneOctet
<1>7. \/ DataLength(id) \in {0, 2, 4, 8, 10, 18, 20, 26, 32}
      \/ DataLength(id) = PadToEven(UserDescription(id.text))
      \/ DataLength(id) = PadToEven(ClockDescription(id.text))
  BY <1>5, <1>6 DEF DataLength
<1> QED BY <1>2, <1>3, <1>4, <1>7

\* So does every message.
LEMMA Lengths ==
    ASSUME NEW type \in Simple \cup {"Management"}, NEW id \in DataSets \cup {NoData}
    PROVE  /\ LengthOf(type, id) \in 44..PACKET_SIZE
           /\ LengthOf(type, id) % 2 = 0
BY DataLengths, WireAssumption DEF LengthOf, Simple, MANAGEMENT_LENGTH, TLV_LENGTH

\* What the receiver acts on lies inside the message.
LEMMA ReadsInside ==
    ASSUME NEW type \in Simple \cup {"Management"}, NEW id \in DataSets \cup {NoData},
           NEW oneStep \in BOOLEAN, NEW o \in Octets,
           Unpack(o, type, id, oneStep) # Ignored
    PROVE  o \in 0..LengthOf(type, id) - 1
<1>1. DataLength(id) \in 0..PACKET_SIZE - 54
  BY DataLengths
<1> QED BY <1>1, WireAssumption
  DEF LengthOf, Simple, MANAGEMENT_LENGTH, TLV_LENGTH, Octets, Unpack, Ignored,
      msgUnpackSync, msgUnpackFollowUp, msgUnpackAnnounce, msgUnpackDelayReq,
      msgUnpackDelayResp, msgUnpackPDelayReq, msgUnpackPDelayResp,
      msgUnpackPDelayRespFollowUp, msgUnpackManagement, EventHeader, msgUnpackHeader

\* Apart from the octets that the hardware rewrites, the receiver acts on what the
\* pack function writes, or on flags that are never set.
LEMMA PackedAsRead ==
    ASSUME NEW type \in Simple \cup {"Management"}, NEW id \in DataSets \cup {NoData},
           NEW oneStep \in BOOLEAN, NEW o \in Octets,
           Unpack(o, type, id, oneStep) # Ignored,
           o \notin RxEmbedded(type), o \notin TxTime(type, oneStep),
           o \notin TxCorrection(type, oneStep)
    PROVE  \/ /\ Pack(o, type, id, oneStep) = Unpack(o, type, id, oneStep)
              /\ Pack(o, type, id, oneStep) # Kept
           \/ /\ Pack(o, type, id, oneStep) = Kept
              /\ Unpack(o, type, id, oneStep) = "zero"
              /\ o = 7 \/ (o = 6 /\ oneStep)
<1>1. DataLength(id) \in 0..PACKET_SIZE - 54
  BY DataLengths
<1>2. o \in Int
  BY WireAssumption DEF Octets
<1> USE <1>1, <1>2 DEF Kept, Ignored, RxEmbedded, TxTime, TxCorrection, EventMessages,
    Pack, Unpack, EventHeader, msgUnpackHeader, Changes, msgPackHeader, TwoStepFlag
<1>a. CASE type = "Sync"
  BY <1>a DEF msgPackSync, msgUnpackSync
<1>b. CASE type = "FollowUp"
  BY <1>b DEF msgPackFollowUp, msgUnpackFollowUp
<1>c. CASE type = "Announce"
  BY <1>c DEF msgPackAnnounce, msgUnpackAnnounce
<1>d. CASE type = "DelayReq"
  BY <1>d DEF msgPackDelayReq, msgUnpackDelayReq
<1>e. CASE type = "DelayResp"
  BY <1>e DEF msgPackDelayResp, msgUnpackDelayResp
<1>f. CASE type = "PDelayReq"
  BY <1>f DEF msgPackPDelayReq, msgUnpackPDelayReq
<1>g. CASE type = "PDelayResp"
  BY <1>g DEF msgPackPDelayResp, msgUnpackPDelayResp
<1>h. CASE type = "PDelayRespFollowUp"
  BY <1>h DEF msgPackPDelayRespFollowUp, msgUnpackPDelayRespFollowUp
<1>i. CASE type = "Management"
  BY <1>i DEF PackManagement, packManagementTLV, packMsgManagement, packMsgHeader,
      msgUnpackManagement
<1> QED BY <1>a, <1>b, <1>c, <1>d, <1>e, <1>f, <1>g, <1>h, <1>i DEF Simple

\* The flags stay clear.
LEMMA FlagsStayClear ==
    ASSUME NEW type \in Simple \cup {"Management"}, NEW id \in DataSets \cup {NoData},
           NEW oneStep \in BOOLEAN
    PROVE  /\ Pack(7, type, id, oneStep) \in {Kept, "zero"}
           /\ oneStep => Pack(6, type, id, oneStep) \in {Kept, "zero"}
<1> USE DEF Pack, Changes, msgPackHeader, msgPackSync, msgPackFollowUp, msgPackAnnounce,
    msgPackDelayReq, msgPackDelayResp, msgPackPDelayReq, msgPackPDelayResp,
    msgPackPDelayRespFollowUp, PackManagement, packMsgManagement, packMsgHeader
<1>1. CASE type = "Management"
  BY <1>1
<1>2. CASE type \in Simple
  BY <1>2 DEF Simple
<1> QED BY <1>1, <1>2

\* The octets of a message in the buffer, as its pack function leaves them.
PackedOctets(old, type, id, oneStep) ==
    [o \in 0..LengthOf(type, id) - 1 |-> Written(old[o], Pack(o, type, id, oneStep))]

\* A response carries the time of its request, which the transmit path looks for.
LEMMA Turnaround ==
    ASSUME NEW old, NEW id \in DataSets \cup {NoData}
    PROVE  EgressCorrection(PackedOctets(old, "PDelayResp", id, TRUE), "PDelayResp")
           = "turnaround"
<1> DEFINE octets == PackedOctets(old, "PDelayResp", id, TRUE)
<1>1. LengthOf("PDelayResp", id) = 54
  BY DEF LengthOf
<1>2. ASSUME NEW o \in 16..19
      PROVE  octets[o] = Holds("requestReceiptNanoseconds", TRUE)
  <2>1. Pack(o, "PDelayResp", id, TRUE) = "requestReceiptNanoseconds"
    BY DEF Pack, msgPackPDelayResp, Changes, msgPackHeader
  <2>2. o \in 0..LengthOf("PDelayResp", id) - 1
    BY <1>1
  <2>3. octets[o] = Written(old[o], Pack(o, "PDelayResp", id, TRUE))
    BY <2>2 DEF PackedOctets
  <2> QED BY <2>1, <2>3 DEF Written, Kept
<1>3. InField(octets, 16, 19, "requestReceiptNanoseconds")
  BY <1>2 DEF InField
<1> QED BY <1>3 DEF EgressCorrection

\* The receiver acts on fields of this message, whatever the buffer held, as long
\* as the flags in it were clear.
LEMMA AsPacked ==
    ASSUME NEW type \in Simple \cup {"Management"}, NEW id \in DataSets \cup {NoData},
           NEW oneStep \in BOOLEAN, NEW old,
           old[7].is = "zero", oneStep => old[6].is = "zero",
           NEW o \in Octets, Unpack(o, type, id, oneStep) # Ignored
    PROVE  RxTimestamp(TxTimestamp(PackedOctets(old, type, id, oneStep), type, oneStep), type)[o]
           = Holds(Unpack(o, type, id, oneStep), TRUE)
<1> DEFINE octets == PackedOctets(old, type, id, oneStep)
           sent   == TxTimestamp(octets, type, oneStep)
           read   == Unpack(o, type, id, oneStep)
<1>1. o \in DOMAIN octets
  BY ReadsInside DEF PackedOctets
<1>2. o \in DOMAIN sent
  BY <1>1 DEF TxTimestamp
<1>3. octets[o] = Written(old[o], Pack(o, type, id, oneStep))
  BY ReadsInside DEF PackedOctets
<1>4. CASE o \in RxEmbedded(type)
  <2>1. RxTimestamp(sent, type)[o] = Holds("ingressNanoseconds", TRUE)
    BY <1>2, <1>4 DEF RxTimestamp
  <2>2. read = "ingressNanoseconds"
    BY <1>4 DEF RxEmbedded, EventMessages, Unpack, EventHeader, msgUnpackSync,
        msgUnpackDelayReq, msgUnpackPDelayReq, msgUnpackPDelayResp, TwoStepFlag
  <2> QED BY <2>1, <2>2
<1>5. CASE o \notin RxEmbedded(type) /\ o \in TxTime(type, oneStep)
  <2>1. type = "Sync" /\ oneStep /\ o \in 34..43
    BY <1>5 DEF TxTime
  <2>2. o \notin TxEmbedded(type, oneStep)
    BY <2>1 DEF TxEmbedded
  <2>6. o \notin TxCorrection(type, oneStep)
    BY <2>1 DEF TxCorrection
  <2>3. sent[o] = Holds("egressTimestamp", TRUE)
    BY <1>1, <1>5, <2>2, <2>6 DEF TxTimestamp
  <2>4. read = "egressTimestamp"
    BY <2>1 DEF Unpack, msgUnpackSync
  <2>5. RxTimestamp(sent, type)[o] = sent[o]
    BY <1>2, <1>5 DEF RxTimestamp
  <2> QED BY <2>3, <2>4, <2>5
<1>6. CASE o \notin RxEmbedded(type) /\ o \in TxCorrection(type, oneStep)
  <2>1. type \in {"Sync", "PDelayResp"} /\ oneStep /\ o \in 8..15
    BY <1>6 DEF TxCorrection
  <2>2. o \notin TxEmbedded(type, oneStep) /\ o \notin TxTime(type, oneStep)
    BY <2>1 DEF TxEmbedded, TxTime
  <2>3. sent[o] = Holds(EgressCorrection(octets, type), TRUE)
    BY <1>1, <1>6, <2>2 DEF TxTimestamp
  <2>4. EgressCorrection(octets, type) = IF type = "Sync" THEN "egressFraction" ELSE "turnaround"
    <3>1. CASE type = "Sync"
      BY <3>1 DEF EgressCorrection
    <3>2. CASE type = "PDelayResp"
      BY <2>1, <3>2, Turnaround
    <3> QED BY <2>1, <3>1, <3>2
  <2>5. read = IF type = "Sync" THEN "egressFraction" ELSE "turnaround"
    BY <2>1 DEF Unpack, msgUnpackSync, msgUnpackPDelayResp
  <2>6. RxTimestamp(sent, type)[o] = sent[o]
    BY <1>2, <1>6 DEF RxTimestamp
  <2> QED BY <2>3, <2>4, <2>5, <2>6
<1>7. CASE /\ o \notin RxEmbedded(type) /\ o \notin TxTime(type, oneStep)
           /\ o \notin TxCorrection(type, oneStep)
  <2>1. o \notin TxEmbedded(type, oneStep)
    BY <1>7 DEF TxEmbedded, RxEmbedded
  <2>2. sent[o] = octets[o]
    BY <1>1, <1>7, <2>1 DEF TxTimestamp
  <2>3. RxTimestamp(sent, type)[o] = sent[o]
    BY <1>2, <1>7 DEF RxTimestamp
  <2>4. Written(old[o], Pack(o, type, id, oneStep)) = Holds(read, TRUE)
    <3>1. CASE Pack(o, type, id, oneStep) = read /\ Pack(o, type, id, oneStep) # Kept
      BY <3>1 DEF Written
    <3>2. CASE /\ Pack(o, type, id, oneStep) = Kept /\ read = "zero"
               /\ o = 7 \/ (o = 6 /\ oneStep)
      <4>1. old[o].is = "zero"
        BY <3>2
      <4> QED BY <3>2, <4>1 DEF Written, Holds
    <3>3. \/ Pack(o, type, id, oneStep) = read /\ Pack(o, type, id, oneStep) # Kept
          \/ /\ Pack(o, type, id, oneStep) = Kept /\ read = "zero"
             /\ o = 7 \/ (o = 6 /\ oneStep)
      BY <1>7, PackedAsRead
    <3> QED BY <3>1, <3>2, <3>3
  <2> QED BY <1>3, <2>2, <2>3, <2>4
<1> QED BY <1>4, <1>5, <1>6, <1>7

-----------------------------------------------------------------------------
(* The words in front of a message *)

\* Headers that nobody reads are words of zero.
LEMMA UnreadWords ==
    ASSUME NEW n \in Nat
    PROVE  /\ Unread(2 * n) \in Seq(Int)
           /\ Len(Unread(2 * n)) = n
           /\ \A i \in 1..n : Unread(2 * n)[i] = 0
<1>1. (2 * n) \div 2 = n
  OBVIOUS
<1>2. Unread(2 * n) = [w \in 1..n |-> 0]
  BY <1>1 DEF Unread
<1>3. Unread(2 * n) \in Seq(Int)
  BY <1>2
<1> QED BY <1>2, <1>3

\* The word at an octet of a sequence of two parts, in the first or the second.
LEMMA AtFront ==
    ASSUME NEW a \in Seq(Int), NEW b \in Seq(Int), NEW o \in Nat, o \div 2 < Len(a)
    PROVE  At(a \o b, o) = At(a, o)
<1>1. o \div 2 + 1 \in 1..Len(a)
  OBVIOUS
<1>2. /\ DOMAIN a = 1..Len(a) /\ DOMAIN (a \o b) = 1..Len(a) + Len(b)
      /\ Len(a) \in Nat /\ Len(b) \in Nat
      /\ \A i \in 1..Len(a) : (a \o b)[i] = a[i]
  BY ConcatProperties, LenProperties
<1> DEFINE i == o \div 2 + 1
<1>3. i \in DOMAIN a /\ i \in DOMAIN (a \o b) /\ (a \o b)[i] = a[i]
  BY <1>1, <1>2
<1> QED BY <1>3, Zenon DEF At

LEMMA AtBack ==
    ASSUME NEW a \in Seq(Int), NEW b \in Seq(Int), NEW k \in Nat
    PROVE  At(a \o b, 2 * Len(a) + k) = At(b, k)
<1> DEFINE i == (2 * Len(a) + k) \div 2 + 1
           j == k \div 2 + 1
<1>2. /\ DOMAIN b = 1..Len(b) /\ DOMAIN (a \o b) = 1..Len(a) + Len(b)
      /\ Len(a) \in Nat /\ Len(b) \in Nat
  BY ConcatProperties, LenProperties
<1>3. i = Len(a) + j /\ j \in Nat /\ j >= 1
  BY <1>2
<1>4. i \in DOMAIN (a \o b) <=> j \in DOMAIN b
  BY <1>2, <1>3
<1>5. j \in DOMAIN b => (a \o b)[i] = b[j]
  BY <1>2, <1>3, ConcatProperties
<1> QED BY <1>4, <1>5, Zenon DEF At

LEMMA UnreadParts ==
    /\ Unread(6)  \in Seq(Int) /\ Len(Unread(6)) = 3
    /\ Unread(8)  \in Seq(Int) /\ Len(Unread(8)) = 4
    /\ Unread(10) \in Seq(Int) /\ Len(Unread(10)) = 5
    /\ Unread(12) \in Seq(Int) /\ Len(Unread(12)) = 6
    /\ Unread(32) \in Seq(Int) /\ Len(Unread(32)) = 16
<1>1. 6 = 2 * 3 /\ 8 = 2 * 4 /\ 10 = 2 * 5 /\ 12 = 2 * 6 /\ 32 = 2 * 16
  OBVIOUS
<1> QED BY <1>1, UnreadWords

\* The parts of the head of a frame, each with its length and the words that the
\* parser looks at.
LEMMA EncodingFields ==
    ASSUME NEW e \in Encodings
    PROVE  /\ e.networkProtocol \in {"IEEE_802_3", "UDP_IPV4", "UDP_IPV6"}
           /\ e.layer2Encap \in {"ETHER2", "SNAP", "PPPOE"}
           /\ e.vlanTag \in {0, 1, 2}
           /\ e.layer2Encap = "PPPOE" => e.networkProtocol # "IEEE_802_3"
BY DEF Encodings, NetworkProtocols, Encapsulations, VlanTags

LEMMA VlanWords ==
    ASSUME NEW e \in Encodings
    PROVE  /\ VlanHeader(e) \in Seq(Int)
           /\ Len(VlanHeader(e)) = 2 * e.vlanTag
           /\ e.vlanTag = 1 => At(VlanHeader(e), 0) = \h8100
           /\ e.vlanTag = 2 => At(VlanHeader(e), 0) = \h88a8
<1> USE EncodingFields
<1>1. CASE e.vlanTag = 0
  <2>1. VlanHeader(e) = <<>>
    BY <1>1 DEF VlanHeader
  <2> QED BY <1>1, <2>1
<1>2. CASE e.vlanTag = 1
  <2>1. VlanHeader(e) = <<\h8100, 2>>
    BY <1>2 DEF VlanHeader
  <2> QED BY <1>2, <2>1 DEF At
<1>3. CASE e.vlanTag = 2
  <2> DEFINE outer == <<\h88a8, 2>>
             inner == <<\h8100, 2>>
             both  == outer \o inner
  <2>1. VlanHeader(e) = both
    BY <1>3 DEF VlanHeader
  <2>2. outer \in Seq(Int) /\ inner \in Seq(Int)
    OBVIOUS
  <2>6. Len(outer) = 2 /\ At(outer, 0) = \h88a8 /\ Len(inner) = 2
    BY DEF At
  <2> HIDE DEF outer, inner
  <2>5. 0 \in Nat /\ 0 \div 2 < Len(outer)
    BY <2>6
  <2>3. At(both, 0) = At(outer, 0)
    BY <2>2, <2>5, AtFront, Zenon
  <2>4. both \in Seq(Int) /\ Len(both) = Len(outer) + Len(inner)
    BY <2>2, ConcatProperties, Zenon
  <2> HIDE DEF both
  <2> QED BY <1>3, <2>1, <2>6, <2>3, <2>4
<1> QED BY <1>1, <1>2, <1>3

LEMMA EncapWords ==
    ASSUME NEW e \in Encodings
    PROVE  /\ EncapHeader(e) \in Seq(Int)
           /\ Len(EncapHeader(e)) = IF e.layer2Encap = "ETHER2" THEN 0 ELSE 4
           /\ e.layer2Encap = "SNAP" => At(EncapHeader(e), 0) = \haaaa
           /\ e.layer2Encap # "ETHER2" => At(EncapHeader(e), 6) = ether2_type(e)
<1> USE EncodingFields
<1>0. ether2_type(e) \in Int
  BY DEF ether2_type, IPV4, IPV6, PTP_ETHER_TYPE
<1>1. CASE e.layer2Encap = "ETHER2"
  <2>1. EncapHeader(e) = <<>>
    BY <1>1 DEF EncapHeader
  <2> QED BY <1>1, <2>1
<1>2. CASE e.layer2Encap = "SNAP"
  <2>1. EncapHeader(e) = <<\haaaa, 0, 0, ether2_type(e)>>
    BY <1>2 DEF EncapHeader
  <2> QED BY <1>0, <1>2, <2>1 DEF At
<1>3. CASE e.layer2Encap = "PPPOE"
  <2>1. EncapHeader(e) = <<0, 0, 0, ether2_type(e)>>
    BY <1>3 DEF EncapHeader
  <2> QED BY <1>0, <1>3, <2>1 DEF At
<1> QED BY <1>1, <1>2, <1>3

LEMMA UdpWords ==
    ASSUME NEW e \in Encodings, NEW messageType \in Nat
    PROVE  /\ UdpHeader(e, messageType) \in Seq(Int)
           /\ Len(UdpHeader(e, messageType)) = IF e.networkProtocol = "IEEE_802_3" THEN 0 ELSE 4
           /\ e.networkProtocol # "IEEE_802_3" =>
                 At(UdpHeader(e, messageType), 2) \in {319, 320}
<1>1. CASE e.networkProtocol = "IEEE_802_3"
  BY <1>1 DEF UdpHeader
<1>2. CASE e.networkProtocol # "IEEE_802_3"
  <2> DEFINE dport == udp_dport(messageType)
  <2>1. dport \in {319, 320}
    BY DEF udp_dport
  <2>2. UdpHeader(e, messageType) = <<0, dport, 0, \habcd>>
    BY <1>2 DEF UdpHeader
  <2> HIDE DEF dport
  <2> QED BY <1>2, <2>1, <2>2 DEF At
<1> QED BY <1>1, <1>2

\* A word behind n words that the parser does not look at.
LEMMA WordBehind ==
    ASSUME NEW a \in Seq(Int), NEW word \in Int, NEW b \in Seq(Int)
    PROVE  /\ a \o <<word>> \o b \in Seq(Int)
           /\ Len(a \o <<word>> \o b) = Len(a) + 1 + Len(b)
           /\ At(a \o <<word>> \o b, 2 * Len(a)) = word
<1> DEFINE w == <<word>>
           c == a \o w
           s == c \o b
<1>1. w \in Seq(Int) /\ Len(w) = 1 /\ At(w, 0) = word
  BY DEF At
<1> HIDE DEF w
<1>2. c \in Seq(Int) /\ Len(c) = Len(a) + Len(w)
  BY <1>1, ConcatProperties, Zenon
<1>3. Len(a) \in Nat /\ Len(b) \in Nat
  BY LenProperties
<1>4. 0 \in Nat /\ At(c, 2 * Len(a) + 0) = At(w, 0)
  BY <1>1, AtBack
<1> HIDE DEF c
<1>5. s \in Seq(Int) /\ Len(s) = Len(c) + Len(b)
  BY <1>2, ConcatProperties, Zenon
<1>6. \A o \in Nat : o \div 2 < Len(c) => At(s, o) = At(c, o)
  BY <1>2, AtFront, Zenon
<1>7. s = a \o <<word>> \o b
  BY DEF w, c
<1> HIDE DEF s
<1>8. /\ 2 * Len(a) \in Nat /\ 2 * Len(a) + 0 = 2 * Len(a)
      /\ (2 * Len(a)) \div 2 < Len(c)
  BY <1>1, <1>2, <1>3
<1>9. At(s, 2 * Len(a)) = word
  BY <1>1, <1>4, <1>6, <1>8
<1>10. s \in Seq(Int) /\ Len(s) = Len(a) + 1 + Len(b) /\ At(s, 2 * Len(a)) = word
  BY <1>1, <1>2, <1>3, <1>5, <1>9
<1> QED BY <1>7, <1>10, Zenon

LEMMA IpWords ==
    ASSUME NEW e \in Encodings
    PROVE  /\ IpHeader(e) \in Seq(Int)
           /\ Len(IpHeader(e)) = CASE e.networkProtocol = "UDP_IPV4" -> 10
                                   [] e.networkProtocol = "UDP_IPV6" -> 20
                                   [] OTHER -> 0
           /\ e.networkProtocol = "UDP_IPV4" => At(IpHeader(e), 8) = \hff00 + UDP
           /\ e.networkProtocol = "UDP_IPV6" => At(IpHeader(e), 6) = UDP * 256 + 255
<1> USE EncodingFields
<1>1. CASE e.networkProtocol = "IEEE_802_3"
  <2>1. IpHeader(e) = <<>>
    BY <1>1 DEF IpHeader
  <2> QED BY <1>1, <2>1
<1>2. CASE e.networkProtocol = "UDP_IPV4"
  <2> DEFINE word == \hff00 + UDP
  <2>1. IpHeader(e) = Unread(8) \o <<word>> \o Unread(10)
    BY <1>2 DEF IpHeader
  <2>2. word \in Int
    BY DEF UDP
  <2> DEFINE front == Unread(8)
             back  == Unread(10)
             all   == front \o <<word>> \o back
  <2> HIDE DEF word
  <2>4. front \in Seq(Int) /\ Len(front) = 4 /\ back \in Seq(Int) /\ Len(back) = 5
    BY UnreadParts
  <2> HIDE DEF front, back
  <2>5. /\ all \in Seq(Int) /\ Len(all) = Len(front) + 1 + Len(back)
        /\ At(all, 2 * Len(front)) = word
    BY <2>2, <2>4, WordBehind
  <2> HIDE DEF all
  <2>6. all \in Seq(Int) /\ Len(all) = 10 /\ At(all, 8) = word
    BY <2>4, <2>5
  <2>3. /\ IpHeader(e) \in Seq(Int) /\ Len(IpHeader(e)) = 10
        /\ At(IpHeader(e), 8) = word
    BY <2>1, <2>6 DEF all, front, back
  <2> QED BY <1>2, <2>3 DEF word
<1>3. CASE e.networkProtocol = "UDP_IPV6"
  <2> DEFINE word == UDP * 256 + 255
  <2>1. IpHeader(e) = Unread(6) \o <<word>> \o Unread(32)
    BY <1>3 DEF IpHeader
  <2>2. word \in Int
    BY DEF UDP
  <2> DEFINE front == Unread(6)
             back  == Unread(32)
             all   == front \o <<word>> \o back
  <2> HIDE DEF word
  <2>4. front \in Seq(Int) /\ Len(front) = 3 /\ back \in Seq(Int) /\ Len(back) = 16
    BY UnreadParts
  <2> HIDE DEF front, back
  <2>5. /\ all \in Seq(Int) /\ Len(all) = Len(front) + 1 + Len(back)
        /\ At(all, 2 * Len(front)) = word
    BY <2>2, <2>4, WordBehind
  <2> HIDE DEF all
  <2>6. all \in Seq(Int) /\ Len(all) = 20 /\ At(all, 6) = word
    BY <2>4, <2>5
  <2>3. /\ IpHeader(e) \in Seq(Int) /\ Len(IpHeader(e)) = 20
        /\ At(IpHeader(e), 6) = word
    BY <2>1, <2>6 DEF all, front, back
  <2> QED BY <1>3, <2>3 DEF word
<1> QED BY <1>1, <1>2, <1>3

\* The headers of IP and UDP together.
LEMMA UpperWords ==
    ASSUME NEW e \in Encodings, NEW messageType \in Nat, e.networkProtocol # "IEEE_802_3"
    PROVE  LET upper == IpHeader(e) \o UdpHeader(e, messageType)
           IN  /\ upper \in Seq(Int)
               /\ Len(upper) = IF e.networkProtocol = "UDP_IPV4" THEN 14 ELSE 24
               /\ e.networkProtocol = "UDP_IPV4" =>
                     At(upper, 8) = \hff00 + UDP /\ At(upper, 22) \in {319, 320}
               /\ e.networkProtocol = "UDP_IPV6" =>
                     At(upper, 6) = UDP * 256 + 255 /\ At(upper, 42) \in {319, 320}
<1> DEFINE ip    == IpHeader(e)
           udp   == UdpHeader(e, messageType)
           upper == ip \o udp
<1>1. ip \in Seq(Int) /\ udp \in Seq(Int)
  BY IpWords, UdpWords
<1>2. /\ Len(ip) = IF e.networkProtocol = "UDP_IPV4" THEN 10 ELSE 20
      /\ Len(udp) = 4
  BY EncodingFields, IpWords, UdpWords
<1>3. /\ e.networkProtocol = "UDP_IPV4" => At(ip, 8) = \hff00 + UDP
      /\ e.networkProtocol = "UDP_IPV6" => At(ip, 6) = UDP * 256 + 255
      /\ At(udp, 2) \in {319, 320}
  BY IpWords, UdpWords
<1> HIDE DEF ip, udp
<1>4. upper \in Seq(Int) /\ Len(upper) = Len(ip) + Len(udp)
  BY <1>1, ConcatProperties, Zenon
<1>5. 8 \in Nat /\ 6 \in Nat /\ 2 \in Nat /\ 8 \div 2 < Len(ip) /\ 6 \div 2 < Len(ip)
  BY <1>2
<1>6. At(upper, 8) = At(ip, 8) /\ At(upper, 6) = At(ip, 6)
  BY <1>1, <1>5, AtFront, Zenon
<1>7. At(upper, 2 * Len(ip) + 2) = At(udp, 2)
  BY <1>1, <1>5, AtBack, Zenon
<1> HIDE DEF upper
<1>8. /\ e.networkProtocol = "UDP_IPV4" => At(upper, 22) = At(udp, 2)
      /\ e.networkProtocol = "UDP_IPV6" => At(upper, 42) = At(udp, 2)
  BY <1>2, <1>7
<1>9. /\ upper \in Seq(Int)
      /\ Len(upper) = IF e.networkProtocol = "UDP_IPV4" THEN 14 ELSE 24
      /\ e.networkProtocol = "UDP_IPV4" =>
            At(upper, 8) = \hff00 + UDP /\ At(upper, 22) \in {319, 320}
      /\ e.networkProtocol = "UDP_IPV6" =>
            At(upper, 6) = UDP * 256 + 255 /\ At(upper, 42) \in {319, 320}
  BY <1>2, <1>3, <1>4, <1>6, <1>8
<1> QED BY <1>9 DEF upper, ip, udp

\* The octets of the encapsulation, and of the headers above it.
Skip(e) == IF e.layer2Encap = "ETHER2" THEN 0 ELSE 8
UpperOctets(e) == CASE e.networkProtocol = "UDP_IPV4" -> 28
                    [] e.networkProtocol = "UDP_IPV6" -> 48
                    [] OTHER -> 0

\* What stands behind the type of a frame.
LEMMA RestWords ==
    ASSUME NEW e \in Encodings, NEW messageType \in Nat
    PROVE  /\ TypeHeaders(e, messageType) \in Seq(Int)
           /\ 2 * Len(TypeHeaders(e, messageType)) = Skip(e) + UpperOctets(e)
           /\ e.layer2Encap = "SNAP" => At(TypeHeaders(e, messageType), 0) = \haaaa
           /\ e.layer2Encap # "ETHER2" => At(TypeHeaders(e, messageType), 6) = ether2_type(e)
           /\ e.networkProtocol = "UDP_IPV4" =>
                 /\ At(TypeHeaders(e, messageType), Skip(e) + 8) = \hff00 + UDP
                 /\ At(TypeHeaders(e, messageType), Skip(e) + 22) \in {319, 320}
           /\ e.networkProtocol = "UDP_IPV6" =>
                 /\ At(TypeHeaders(e, messageType), Skip(e) + 6) = UDP * 256 + 255
                 /\ At(TypeHeaders(e, messageType), Skip(e) + 42) \in {319, 320}
<1> DEFINE encap == EncapHeader(e)
           upper == IpHeader(e) \o UdpHeader(e, messageType)
           rest  == encap \o upper
           skip  == Skip(e)
           size  == UpperOctets(e)
<1>1. encap \in Seq(Int)
  BY EncapWords
<1>2. upper \in Seq(Int)
  <2> DEFINE ip  == IpHeader(e)
             udp == UdpHeader(e, messageType)
  <2>1. ip \in Seq(Int) /\ udp \in Seq(Int)
    BY IpWords, UdpWords
  <2> HIDE DEF ip, udp
  <2>2. ip \o udp \in Seq(Int)
    BY <2>1, ConcatProperties, Zenon
  <2> QED BY <2>2 DEF ip, udp
<1>3. 2 * Len(upper) = size
  <2> USE DEF UpperOctets
  <2>1. CASE e.networkProtocol = "IEEE_802_3"
    <3>1. IpHeader(e) = <<>> /\ UdpHeader(e, messageType) = <<>>
      BY <2>1 DEF IpHeader, UdpHeader
    <3>2. upper = <<>>
      BY <3>1
    <3> QED BY <2>1, <3>2
  <2>2. CASE e.networkProtocol # "IEEE_802_3"
    <3>1. Len(upper) = IF e.networkProtocol = "UDP_IPV4" THEN 14 ELSE 24
      BY <2>2, UpperWords
    <3> HIDE DEF upper
    <3> QED BY <2>2, <3>1, EncodingFields
  <2> QED BY <2>1, <2>2
<1>4. 2 * Len(encap) = skip /\ Len(encap) = IF e.layer2Encap = "ETHER2" THEN 0 ELSE 4
  <2>1. Len(EncapHeader(e)) = IF e.layer2Encap = "ETHER2" THEN 0 ELSE 4
    BY EncapWords
  <2> HIDE DEF encap
  <2>2. Len(encap) = IF e.layer2Encap = "ETHER2" THEN 0 ELSE 4
    BY <2>1 DEF encap
  <2> QED BY <2>2 DEF Skip
<1>5. /\ e.layer2Encap = "SNAP" => At(encap, 0) = \haaaa
      /\ e.layer2Encap # "ETHER2" => At(encap, 6) = ether2_type(e)
  BY EncapWords
<1>6. /\ e.networkProtocol = "UDP_IPV4" =>
            At(upper, 8) = \hff00 + UDP /\ At(upper, 22) \in {319, 320}
      /\ e.networkProtocol = "UDP_IPV6" =>
            At(upper, 6) = UDP * 256 + 255 /\ At(upper, 42) \in {319, 320}
  <2>1. CASE e.networkProtocol = "IEEE_802_3"
    BY <2>1
  <2>2. CASE e.networkProtocol # "IEEE_802_3"
    BY <2>2, UpperWords
  <2> QED BY <2>1, <2>2
<1> HIDE DEF encap, upper, skip, size
<1>7. rest \in Seq(Int) /\ Len(rest) = Len(encap) + Len(upper)
  BY <1>1, <1>2, ConcatProperties, Zenon
<1>8. \A k \in Nat : At(rest, 2 * Len(encap) + k) = At(upper, k)
  BY <1>1, <1>2, AtBack, Zenon
<1>9. \A o \in Nat : o \div 2 < Len(encap) => At(rest, o) = At(encap, o)
  BY <1>1, <1>2, AtFront, Zenon
<1>10. rest = TypeHeaders(e, messageType)
  BY DEF TypeHeaders, encap, upper
<1> HIDE DEF rest
<1>11. e.layer2Encap # "ETHER2" => At(rest, 0) = At(encap, 0) /\ At(rest, 6) = At(encap, 6)
  BY <1>4, <1>9
<1>12. Len(encap) \in Nat /\ Len(upper) \in Nat
  BY <1>1, <1>2, LenProperties
<1>13. 2 * Len(rest) = skip + size
  BY <1>3, <1>4, <1>7, <1>12
<1>14. /\ At(rest, skip + 6) = At(upper, 6) /\ At(rest, skip + 8) = At(upper, 8)
       /\ At(rest, skip + 22) = At(upper, 22) /\ At(rest, skip + 42) = At(upper, 42)
  BY <1>4, <1>8
<1>15. /\ e.networkProtocol = "UDP_IPV4" =>
             /\ At(rest, skip + 8) = \hff00 + UDP
             /\ At(rest, skip + 22) \in {319, 320}
       /\ e.networkProtocol = "UDP_IPV6" =>
             /\ At(rest, skip + 6) = UDP * 256 + 255
             /\ At(rest, skip + 42) \in {319, 320}
  BY <1>6, <1>14
<1>16. /\ e.layer2Encap = "SNAP" => At(rest, 0) = \haaaa
       /\ e.layer2Encap # "ETHER2" => At(rest, 6) = ether2_type(e)
  BY <1>5, <1>11
<1>17. skip = Skip(e) /\ size = UpperOctets(e)
  BY DEF skip, size
<1> QED BY <1>7, <1>10, <1>13, <1>15, <1>16, <1>17

\* The words of a frame in front of its message: the type stands behind the
\* addresses and the tags, the rest behind the type.
LEMMA HeadWords ==
    ASSUME NEW e \in Encodings, NEW messageType \in Nat, NEW len \in Nat,
           length_type(e, len) \in Int
    PROVE  /\ Len(Headers(e, len, messageType))
                = 7 + 2 * e.vlanTag + Len(TypeHeaders(e, messageType))
           /\ e.vlanTag = 1 => At(Headers(e, len, messageType), 12) = \h8100
           /\ e.vlanTag = 2 => At(Headers(e, len, messageType), 12) = \h88a8
           /\ At(Headers(e, len, messageType), 12 + 4 * e.vlanTag) = length_type(e, len)
           /\ \A k \in Nat : At(Headers(e, len, messageType), 14 + 4 * e.vlanTag + k)
                              = At(TypeHeaders(e, messageType), k)
<1> DEFINE addr  == Unread(12)
           vlan  == VlanHeader(e)
           front == addr \o vlan
           word  == length_type(e, len)
           s     == <<word>>
           mac   == front \o s
           rest  == TypeHeaders(e, messageType)
           head  == mac \o rest
<1>1. addr \in Seq(Int) /\ Len(addr) = 6
  BY UnreadParts
<1>2. vlan \in Seq(Int) /\ Len(vlan) = 2 * e.vlanTag
  BY VlanWords
<1>3. /\ e.vlanTag = 1 => At(vlan, 0) = \h8100
      /\ e.vlanTag = 2 => At(vlan, 0) = \h88a8
  BY VlanWords
<1>4. rest \in Seq(Int)
  BY RestWords
<1>5. Headers(e, len, messageType) = head
  BY DEF Headers, MacHeader
<1>6. e.vlanTag \in {0, 1, 2}
  BY EncodingFields
<1>7. s \in Seq(Int) /\ Len(s) = 1 /\ At(s, 0) = word
  BY DEF At
<1> HIDE DEF addr, vlan, s, rest
<1>8. front \in Seq(Int) /\ Len(front) = Len(addr) + Len(vlan)
  BY <1>1, <1>2, ConcatProperties, Zenon
<1>9. At(front, 2 * Len(addr) + 0) = At(vlan, 0)
  BY <1>1, <1>2, AtBack
<1> HIDE DEF front
<1>10. mac \in Seq(Int) /\ Len(mac) = Len(front) + Len(s)
  BY <1>7, <1>8, ConcatProperties, Zenon
<1>11. At(mac, 2 * Len(front) + 0) = At(s, 0)
  BY <1>7, <1>8, AtBack
<1>12. \A o \in Nat : o \div 2 < Len(front) => At(mac, o) = At(front, o)
  BY <1>7, <1>8, AtFront, Zenon
<1> HIDE DEF mac
<1>13. head \in Seq(Int) /\ Len(head) = Len(mac) + Len(rest)
  BY <1>4, <1>10, ConcatProperties, Zenon
<1>14. \A k \in Nat : At(head, 2 * Len(mac) + k) = At(rest, k)
  BY <1>4, <1>10, AtBack, Zenon
<1>15. \A o \in Nat : o \div 2 < Len(mac) => At(head, o) = At(mac, o)
  BY <1>4, <1>10, AtFront, Zenon
<1> HIDE DEF head
<1>16. Len(front) = 6 + 2 * e.vlanTag /\ Len(mac) = 7 + 2 * e.vlanTag
  BY <1>1, <1>2, <1>6, <1>7, <1>8, <1>10
<1>17. Len(head) = 7 + 2 * e.vlanTag + Len(rest)
  BY <1>13, <1>16
<1>18. \A k \in Nat : At(head, 14 + 4 * e.vlanTag + k) = At(rest, k)
  <2>1. 2 * Len(mac) = 14 + 4 * e.vlanTag
    BY <1>6, <1>16
  <2> QED BY <1>14, <2>1
<1>19. At(head, 12 + 4 * e.vlanTag) = word
  <2>1. /\ 2 * Len(front) + 0 = 12 + 4 * e.vlanTag /\ 12 + 4 * e.vlanTag \in Nat
        /\ (12 + 4 * e.vlanTag) \div 2 < Len(mac)
    BY <1>6, <1>16
  <2> QED BY <1>7, <1>11, <1>15, <2>1
<1>20. e.vlanTag \in {1, 2} => At(head, 12) = At(vlan, 0)
  <2> SUFFICES ASSUME e.vlanTag \in {1, 2} PROVE At(head, 12) = At(vlan, 0)
    OBVIOUS
  <2>1. 12 \in Nat /\ 12 \div 2 < Len(front) /\ 12 \div 2 < Len(mac) /\ 2 * Len(addr) + 0 = 12
    BY <1>1, <1>16
  <2> QED BY <1>9, <1>12, <1>15, <2>1
<1>21. word = length_type(e, len) /\ rest = TypeHeaders(e, messageType)
  BY DEF rest
<1> QED BY <1>3, <1>5, <1>17, <1>18, <1>19, <1>20, <1>21

\* The types that the frame announces.
LEMMA TypeValues ==
    ASSUME NEW e \in Encodings, NEW len \in Nat, len <= 300
    PROVE  /\ length_type(e, len) \in Int
           /\ \/ length_type(e, len) \in {IPV4, IPV6, PTP_ETHER_TYPE, \h8864}
              \/ length_type(e, len) >= 26 /\ length_type(e, len) <= 1500
           /\ e.layer2Encap = "ETHER2" => length_type(e, len) = ether2_type(e)
           /\ e.layer2Encap = "SNAP" => length_type(e, len) >= 26 /\ length_type(e, len) <= 1500
           /\ e.layer2Encap = "PPPOE" => length_type(e, len) = \h8864
<1>1. /\ e.networkProtocol \in {"IEEE_802_3", "UDP_IPV4", "UDP_IPV6"}
      /\ e.layer2Encap \in {"ETHER2", "SNAP", "PPPOE"}
      /\ e.layer2Encap = "PPPOE" => e.networkProtocol # "IEEE_802_3"
  BY EncodingFields
<1>2. ip_len(e, len) \in Nat /\ ip_len(e, len) <= 400
  BY <1>1 DEF ip_len
<1>3. e.layer2Encap # "PPPOE" => ether2_type(e) \in {IPV4, IPV6, PTP_ETHER_TYPE}
  BY <1>1 DEF ether2_type
<1> USE DEF IPV4, IPV6, PTP_ETHER_TYPE
<1>4. CASE e.layer2Encap = "ETHER2"
  BY <1>3, <1>4 DEF length_type
<1>5. CASE e.layer2Encap = "SNAP"
  BY <1>2, <1>5 DEF length_type
<1>6. CASE e.layer2Encap = "PPPOE"
  BY <1>6 DEF length_type
<1> QED BY <1>1, <1>4, <1>5, <1>6

\* ... and the type behind an encapsulation.
LEMMA EtherTypes ==
    ASSUME NEW e \in Encodings
    PROVE  /\ e.networkProtocol = "IEEE_802_3" => ether2_type(e) = PTP_ETHER_TYPE
           /\ e.networkProtocol = "UDP_IPV4" =>
                 ether2_type(e) = IF e.layer2Encap = "PPPOE" THEN \h0021 ELSE IPV4
           /\ e.networkProtocol = "UDP_IPV6" =>
                 ether2_type(e) = IF e.layer2Encap = "PPPOE" THEN \h0057 ELSE IPV6
BY EncodingFields DEF ether2_type

\* The parser skips the tags.
LEMMA TagsSkipped ==
    ASSUME NEW e \in Encodings, NEW messageType \in Nat, NEW len \in Nat, len <= 300
    PROVE  VlanOverhead(Headers(e, len, messageType)) = 4 * e.vlanTag
<1> DEFINE head == Headers(e, len, messageType)
           word == length_type(e, len)
           tag  == e.vlanTag
<1>1. /\ word \in Int
      /\ word \in {IPV4, IPV6, PTP_ETHER_TYPE, \h8864} \/ (word >= 26 /\ word <= 1500)
  BY TypeValues
<1>2. len \in Nat /\ len <= 300
  OBVIOUS
<1>3. /\ tag = 1 => At(head, 12) = \h8100
      /\ tag = 2 => At(head, 12) = \h88a8
      /\ At(head, 12 + 4 * tag) = word
  <2>1. /\ Len(head) = 7 + 2 * tag + Len(TypeHeaders(e, messageType))
        /\ tag = 1 => At(head, 12) = \h8100
        /\ tag = 2 => At(head, 12) = \h88a8
        /\ At(head, 12 + 4 * tag) = word
    BY <1>1, <1>2, HeadWords
  <2> QED BY <2>1
<1>4. tag \in {0, 1, 2}
  BY EncodingFields
<1> HIDE DEF head, word, tag
<1>5. word \notin {\h88a8, \h9100, \h9200, \h9300, \h8100}
  BY <1>1 DEF IPV4, IPV6, PTP_ETHER_TYPE
<1>6. VlanOverhead(head) = 4 * tag
  <2>1. CASE tag = 0
    <3>1. At(head, 12) = word
      BY <1>3, <2>1
    <3> QED BY <1>5, <2>1, <3>1 DEF VlanOverhead
  <2>2. CASE tag = 1
    <3>1. At(head, 16) = word /\ At(head, 12) = \h8100
      BY <1>3, <2>2
    <3> QED BY <1>5, <2>2, <3>1 DEF VlanOverhead
  <2>3. CASE tag = 2
    BY <1>3, <2>3 DEF VlanOverhead
  <2> QED BY <1>4, <2>1, <2>2, <2>3
<1> QED BY <1>6 DEF head, tag

\* Behind an IP header the parser finds the ports of PTP.
LEMMA UdpFound ==
    ASSUME NEW e \in Encodings, NEW messageType \in Nat, NEW head, NEW m \in Nat,
           e.networkProtocol # "IEEE_802_3",
           \A k \in Nat : At(head, m + k) = At(TypeHeaders(e, messageType), k)
    PROVE  UdpOverhead(head, m, e.networkProtocol, Skip(e))
           = 2 * Len(TypeHeaders(e, messageType))
<1> DEFINE rest  == TypeHeaders(e, messageType)
           skip  == Skip(e)
           net   == e.networkProtocol
           upper == UpperOctets(e)
<1>1. skip \in Nat
  BY DEF Skip
<1>2. net \in {"UDP_IPV4", "UDP_IPV6"}
  BY EncodingFields
<1>3. upper = IF net = "UDP_IPV4" THEN 28 ELSE 48
  BY <1>2 DEF UpperOctets
<1>4. /\ 2 * Len(rest) = skip + upper
      /\ net = "UDP_IPV4" =>
            At(rest, skip + 8) = \hff00 + UDP /\ At(rest, skip + 22) \in {319, 320}
      /\ net = "UDP_IPV6" =>
            At(rest, skip + 6) = UDP * 256 + 255 /\ At(rest, skip + 42) \in {319, 320}
  BY RestWords
<1>5. \A k \in Nat : At(head, m + k) = At(rest, k)
  OBVIOUS
<1> HIDE DEF rest, skip, net, upper
<1>6. \A k \in Nat : At(head, m + skip + k) = At(rest, skip + k)
  <2> TAKE k \in Nat
  <2>1. m + skip + k = m + (skip + k) /\ skip + k \in Nat
    BY <1>1
  <2> QED BY <1>5, <2>1
<1>7. UdpOverhead(head, m, net, skip) = 2 * Len(rest)
  <2>1. CASE net = "UDP_IPV4"
    <3>1. At(head, m + skip + 8) = \hff00 + UDP /\ At(head, m + skip + 22) \in {319, 320}
      BY <1>4, <1>6, <2>1
    <3>2. IsUdp(Low(At(head, m + skip + 8)), At(head, m + skip + 22))
      BY <3>1 DEF IsUdp, Low, UDP
    <3>3. UdpOverhead(head, m, net, skip) = skip + 28
      BY <2>1, <3>2 DEF UdpOverhead
    <3> QED BY <1>3, <1>4, <2>1, <3>3
  <2>2. CASE net = "UDP_IPV6"
    <3>1. At(head, m + skip + 6) = UDP * 256 + 255 /\ At(head, m + skip + 42) \in {319, 320}
      BY <1>4, <1>6, <2>2
    <3>2. IsUdp(High(At(head, m + skip + 6)), At(head, m + skip + 42))
      BY <3>1 DEF IsUdp, High, UDP
    <3>3. UdpOverhead(head, m, net, skip) = skip + 48
      BY <2>2, <3>2 DEF UdpOverhead
    <3> QED BY <1>3, <1>4, <2>2, <3>3
  <2> QED BY <1>2, <2>1, <2>2
<1> QED BY <1>7 DEF rest, skip, net

\* Whatever announces it, the parser finds the message behind the rest.
LEMMA RestFound ==
    ASSUME NEW e \in Encodings, NEW messageType \in Nat, NEW len \in Nat, len <= 300,
           NEW head, NEW m \in Nat,
           \A k \in Nat : At(head, m + k) = At(TypeHeaders(e, messageType), k)
    PROVE  EncapOverhead(head, m, length_type(e, len)) = 2 * Len(TypeHeaders(e, messageType))
<1> DEFINE rest  == TypeHeaders(e, messageType)
           net   == e.networkProtocol
           encap == e.layer2Encap
           skip  == Skip(e)
           inner == ether2_type(e)
           word  == length_type(e, len)
<1>1. net \in {"IEEE_802_3", "UDP_IPV4", "UDP_IPV6"} /\ encap \in {"ETHER2", "SNAP", "PPPOE"}
  BY EncodingFields
<1>2. encap = "PPPOE" => net \in {"UDP_IPV4", "UDP_IPV6"}
  BY EncodingFields
<1>3. /\ encap = "ETHER2" => word = inner
      /\ encap = "SNAP" => word >= 26 /\ word <= 1500
      /\ encap = "PPPOE" => word = \h8864
  BY TypeValues
<1>4. /\ net = "IEEE_802_3" => inner = PTP_ETHER_TYPE
      /\ net = "UDP_IPV4" => inner = IF encap = "PPPOE" THEN \h0021 ELSE IPV4
      /\ net = "UDP_IPV6" => inner = IF encap = "PPPOE" THEN \h0057 ELSE IPV6
  BY EtherTypes
<1>5. net # "IEEE_802_3" => UdpOverhead(head, m, net, skip) = 2 * Len(rest)
  BY UdpFound
<1>6. skip = IF encap = "ETHER2" THEN 0 ELSE 8
  BY DEF Skip
<1>7. net = "IEEE_802_3" => 2 * Len(rest) = skip
  <2>1. net = "IEEE_802_3" => UpperOctets(e) = 0
    BY DEF UpperOctets
  <2>2. 2 * Len(rest) = skip + UpperOctets(e) /\ skip \in Nat
    BY RestWords DEF Skip
  <2> HIDE DEF skip, rest
  <2> QED BY <2>1, <2>2
<1>8. /\ encap = "SNAP" => At(head, m) = \haaaa
      /\ encap # "ETHER2" => At(head, m + 6) = inner
  <2>1. At(head, m + 0) = At(rest, 0) /\ At(head, m + 6) = At(rest, 6) /\ m + 0 = m
    OBVIOUS
  <2>2. /\ encap = "SNAP" => At(rest, 0) = \haaaa
        /\ encap # "ETHER2" => At(rest, 6) = inner
    BY RestWords
  <2> QED BY <2>1, <2>2
<1> HIDE DEF rest, net, encap, skip, inner, word
<1> USE DEF IPV4, IPV6, PTP_ETHER_TYPE, EncapOverhead
<1>9. EncapOverhead(head, m, word) = 2 * Len(rest)
  <2>1. CASE encap = "ETHER2" /\ net = "IEEE_802_3"
    BY <2>1, <1>3, <1>4, <1>6, <1>7
  <2>2. CASE encap = "ETHER2" /\ net = "UDP_IPV4"
    BY <2>2, <1>3, <1>4, <1>5, <1>6
  <2>3. CASE encap = "ETHER2" /\ net = "UDP_IPV6"
    BY <2>3, <1>3, <1>4, <1>5, <1>6
  <2>4. CASE encap = "SNAP" /\ net = "IEEE_802_3"
    BY <2>4, <1>3, <1>4, <1>6, <1>7, <1>8
  <2>5. CASE encap = "SNAP" /\ net = "UDP_IPV4"
    BY <2>5, <1>3, <1>4, <1>5, <1>6, <1>8
  <2>6. CASE encap = "SNAP" /\ net = "UDP_IPV6"
    BY <2>6, <1>3, <1>4, <1>5, <1>6, <1>8
  <2>7. CASE encap = "PPPOE" /\ net = "UDP_IPV4"
    BY <2>7, <1>3, <1>4, <1>5, <1>6, <1>8
  <2>8. CASE encap = "PPPOE" /\ net = "UDP_IPV6"
    BY <2>8, <1>3, <1>4, <1>5, <1>6, <1>8
  <2> QED BY <1>1, <1>2, <2>1, <2>2, <2>3, <2>4, <2>5, <2>6, <2>7, <2>8
<1> QED BY <1>9 DEF rest, word

\* The parser of a receiver finds every message where the sender put it: behind
\* the headers, whatever their encapsulation, addresses and VLAN tags.
THEOREM MessageFound ==
    ASSUME NEW e \in Encodings, NEW messageType \in Nat, NEW len \in Nat, len <= 300
    PROVE  /\ parse_frame(Headers(e, len, messageType)) = 2 * Len(Headers(e, len, messageType))
           /\ Len(Headers(e, len, messageType)) \in Nat
<1> DEFINE head == Headers(e, len, messageType)
           rest == TypeHeaders(e, messageType)
           word == length_type(e, len)
           tag  == e.vlanTag
           m    == 14 + 4 * tag
           over == EncapOverhead(head, m, word)
<1>0. len \in Nat /\ len <= 300
  OBVIOUS
<1>1. word \in Int /\ len \in Nat
  BY <1>0, TypeValues
<1>2. tag \in {0, 1, 2}
  BY EncodingFields
<1>3. Len(head) = 7 + 2 * tag + Len(rest) /\ At(head, 12 + 4 * tag) = word
  BY <1>1, HeadWords, SMTT(30)
<1>4. \A k \in Nat : At(head, m + k) = At(rest, k)
  BY <1>1, HeadWords, SMTT(30)
<1>5. m \in Nat
  BY <1>2
<1>6. over = 2 * Len(rest)
  BY <1>4, <1>5, RestFound
<1>7. VlanOverhead(head) = 4 * tag
  BY TagsSkipped
<1>8. Len(rest) \in Nat
  BY RestWords, LenProperties
<1>9. parse_frame(head) = IF over = -1 THEN -1 ELSE 14 + 4 * tag + over
  BY <1>3, <1>7 DEF parse_frame
<1> HIDE DEF head, rest, tag, over
<1>10. parse_frame(head) = 2 * Len(head) /\ Len(head) \in Nat
  BY <1>2, <1>3, <1>6, <1>8, <1>9
<1> QED BY <1>10 DEF head

-----------------------------------------------------------------------------
(* The frames that are sent *)

\* The length of a frame of the port is legal.
LEMMA Legal ==
    ASSUME NEW e \in Encodings, NEW messageType \in Nat, NEW len \in Nat, len >= 44, len <= 300
    PROVE  /\ frame_len(e, len, messageType) - 4 * e.vlanTag >= 64
           /\ frame_len(e, len, messageType) < 512
<1> DEFINE size == Len(Headers(e, len, messageType))
           rest == Len(TypeHeaders(e, messageType))
           tag  == e.vlanTag
           net  == e.networkProtocol
           pad  == pad_len(e, 2 * size, len)
           skip == Skip(e)
           upper == UpperOctets(e)
           all  == frame_len(e, len, messageType)
<1>1. tag \in {0, 1, 2} /\ net \in {"IEEE_802_3", "UDP_IPV4", "UDP_IPV6"}
  BY EncodingFields
<1>2. len \in Nat /\ len <= 300
  OBVIOUS
<1>3. length_type(e, len) \in Int
  BY <1>2, TypeValues
<1>4. size = 7 + 2 * tag + rest
  BY <1>2, <1>3, HeadWords, SMTT(30)
<1>5. 2 * rest = skip + upper
  BY RestWords
<1>6. skip \in {0, 8} /\ upper \in {0, 28, 48} /\ (net = "UDP_IPV6" => upper = 48)
  BY DEF Skip, UpperOctets
<1>7. rest \in Nat
  BY RestWords, LenProperties
<1>8. all = 2 * size + len + pad + 4
  BY DEF frame_len
<1>9. /\ net = "UDP_IPV6" => pad = 2
      /\ net # "UDP_IPV6" =>
            pad = IF 64 - (2 * size - 4 * tag + len + 4) > 0
                  THEN 64 - (2 * size - 4 * tag + len + 4) ELSE 0
  BY DEF pad_len
<1> HIDE DEF size, rest, tag, net, pad, skip, upper, all
<1>10. all - 4 * tag >= 64 /\ all < 512
  <2>1. 2 * size = 14 + 4 * tag + skip + upper
    BY <1>1, <1>4, <1>5, <1>6, <1>7
  <2>2. CASE net = "UDP_IPV6"
    BY <2>1, <2>2, <1>1, <1>2, <1>4, <1>6, <1>7, <1>8, <1>9
  <2>3. CASE net # "UDP_IPV6"
    BY <2>1, <2>3, <1>1, <1>2, <1>4, <1>6, <1>7, <1>8, <1>9
  <2> QED BY <2>2, <2>3
<1> QED BY <1>10 DEF tag, all

-----------------------------------------------------------------------------
(* The invariant *)

PortOptions ==
    port \in [oneStep : BOOLEAN, delayMechanism : {"E2E", "P2P"}, encoding : Options]

\* The flags that no pack function writes, and the flag that a one-step clock
\* never sets, have been clear since the buffer was zeroed.
FlagsClear ==
    /\ msgObuf[7].is = "zero"
    /\ port.oneStep => msgObuf[6].is = "zero"

WireInv == PortOptions /\ FlagsClear /\ ReadAsPacked /\ FrameLegal

LEMMA OptionFields ==
    ASSUME PortOptions
    PROVE  port.oneStep \in BOOLEAN /\ port.encoding \in Encodings
BY WireAssumption DEF PortOptions

\* The frame that an issue function puts on the line.
LEMMA IssuedFrame ==
    ASSUME PortOptions, NEW type \in Simple \cup {"Management"},
           NEW id \in DataSets \cup {NoData}, Issue(type, id)
    PROVE  /\ frame'.type = type /\ frame'.id = id /\ port' = port
           /\ frame'.headers = Headers(port.encoding, LengthOf(type, id), MessageType(type))
           /\ frame'.message = TxTimestamp(PackedOctets(msgObuf, type, id, port.oneStep),
                                           type, port.oneStep)
           /\ \A o \in Octets : msgObuf'[o] = Written(msgObuf[o], Pack(o, type, id, port.oneStep))
<1> DEFINE len == LengthOf(type, id)
           octets == [o \in 0..len - 1 |-> msgObuf'[o]]
           packed == PackedOctets(msgObuf, type, id, port.oneStep)
<1>1. frame' = [type |-> type, id |-> id,
                headers |-> Headers(port.encoding, len, MessageType(type)),
                message |-> TxTimestamp(octets, type, port.oneStep)]
      /\ port' = port
  BY Zenon DEF Issue
<1>2. \A o \in Octets : msgObuf'[o] = Written(msgObuf[o], Pack(o, type, id, port.oneStep))
  BY Zenon DEF Issue
<1>3. 0..len - 1 \subseteq Octets
  BY Lengths, WireAssumption DEF Octets
<1>4. octets = packed
  BY <1>2, <1>3, Zenon DEF PackedOctets
<1> HIDE DEF octets, packed, len
<1>5. /\ frame'.type = type /\ frame'.id = id
      /\ frame'.headers = Headers(port.encoding, len, MessageType(type))
      /\ frame'.message = TxTimestamp(octets, type, port.oneStep)
  BY <1>1
<1> QED BY <1>1, <1>2, <1>4, <1>5 DEF len, packed

LEMMA Issued ==
    ASSUME PortOptions, FlagsClear, NEW type \in Simple \cup {"Management"},
           NEW id \in DataSets \cup {NoData}, Issue(type, id)
    PROVE  WireInv'
<1> DEFINE len     == LengthOf(type, id)
           oneStep == port.oneStep
           e       == port.encoding
           number  == MessageType(type)
           packed  == PackedOctets(msgObuf, type, id, oneStep)
           sent    == TxTimestamp(packed, type, oneStep)
           msg     == RxTimestamp(sent, type)
<1>1. oneStep \in BOOLEAN /\ e \in Encodings
  BY OptionFields
<1>2. len \in 44..PACKET_SIZE /\ len % 2 = 0
  BY Lengths
<1>3. PACKET_SIZE \in 104..300
  BY WireAssumption
<1>4. number \in Nat
  BY DEF MessageType, Simple
<1>5. /\ frame'.type = type /\ frame'.id = id /\ port' = port
      /\ frame'.headers = Headers(e, len, number)
      /\ frame'.message = sent
      /\ \A o \in Octets : msgObuf'[o] = Written(msgObuf[o], Pack(o, type, id, oneStep))
  BY IssuedFrame
<1>6. PortOptions'
  BY <1>5 DEF PortOptions
<1>7. FlagsClear'
  <2>1. 6 \in Octets /\ 7 \in Octets
    BY <1>3 DEF Octets
  <2>2. /\ Pack(7, type, id, oneStep) \in {Kept, "zero"}
        /\ oneStep => Pack(6, type, id, oneStep) \in {Kept, "zero"}
    BY <1>1, FlagsStayClear
  <2>3. msgObuf[7].is = "zero" /\ (oneStep => msgObuf[6].is = "zero")
    BY DEF FlagsClear
  <2>4. \A octet : \A field \in {Kept, "zero"} :
            octet.is = "zero" => Written(octet, field).is = "zero"
    BY DEF Written, Holds
  <2>5. msgObuf'[7].is = "zero"
    BY <1>5, <2>1, <2>2, <2>3, <2>4
  <2>6. ASSUME oneStep PROVE msgObuf'[6].is = "zero"
    <3>1. msgObuf'[6] = Written(msgObuf[6], Pack(6, type, id, oneStep))
      BY <1>5, <2>1
    <3>2. Pack(6, type, id, oneStep) \in {Kept, "zero"} /\ msgObuf[6].is = "zero"
      BY <2>2, <2>3, <2>6
    <3> QED BY <2>4, <3>1, <3>2
  <2> QED BY <1>5, <2>5, <2>6 DEF FlagsClear
<1>8. DOMAIN msg = 0..len - 1
  BY DEF RxTimestamp, TxTimestamp, PackedOctets
<1>9. ASSUME NEW o \in Octets, Unpack(o, type, id, oneStep) # Ignored
      PROVE  Received(frame')[o] = Holds(Unpack(o, type, id, oneStep), TRUE)
  <2> DEFINE base == parse_frame(frame'.headers)
             here == 2 * Len(frame'.headers)
  <2>1. msg[o] = Holds(Unpack(o, type, id, oneStep), TRUE)
    BY <1>1, <1>9, AsPacked DEF FlagsClear
  <2>2. o \in 0..len - 1
    BY <1>1, <1>9, ReadsInside
  <2>3. len \in Nat /\ len <= 300
    BY <1>2, <1>3
  <2>4. base = here /\ here \in Nat
    BY <1>1, <1>4, <1>5, <2>3, MessageFound
  <2>5. RxTimestamp(frame'.message, frame'.type) = msg
    BY <1>5
  <2> HIDE DEF msg, base, here
  <2>6. Received(frame') =
            [x \in Octets |-> IF base # -1 /\ x + base - here \in DOMAIN msg
                              THEN msg[x + base - here] ELSE Holds("unknown", FALSE)]
    BY <2>5, Zenon DEF Received, base, here
  <2>7. o + base - here = o /\ base # -1
    BY <2>2, <2>4
  <2> QED BY <1>8, <2>1, <2>2, <2>6, <2>7
<1>10. ReadAsPacked'
  BY <1>5, <1>9 DEF ReadAsPacked
<1>11. FrameLegal'
  <2>1. len \in Nat /\ len >= 44 /\ len <= 300
    BY <1>2, <1>3
  <2>2. /\ frame_len(e, len, number) - 4 * e.vlanTag >= 64
        /\ frame_len(e, len, number) < 512
    BY <1>1, <1>4, <2>1, Legal
  <2> HIDE DEF len, number
  <2>3. LengthOf(frame'.type, frame'.id) = len /\ MessageType(frame'.type) = number
    BY <1>5 DEF len, number
  <2>4. len <= PACKET_SIZE
    BY <1>2 DEF len
  <2> QED BY <1>2, <1>5, <2>2, <2>3, <2>4 DEF FrameLegal
<1> QED BY <1>6, <1>7, <1>10, <1>11 DEF WireInv

LEMMA WireInit == Init => WireInv
<1> SUFFICES ASSUME Init PROVE WireInv
  OBVIOUS
<1>1. PortOptions
  BY Zenon DEF Init, PortOptions
<1>2. ~OnLine
  BY DEF Init, NoFrame, OnLine
<1>3. FlagsClear
  <2>1. 6 \in Octets /\ 7 \in Octets
    BY WireAssumption DEF Octets
  <2>2. /\ msgObuf[6] = Written(Holds("zero", TRUE), msgPackHeader(6, port.oneStep))
        /\ msgObuf[7] = Written(Holds("zero", TRUE), msgPackHeader(7, port.oneStep))
    BY <2>1, Zenon DEF Init
  <2>3. /\ msgPackHeader(7, port.oneStep) \in {Kept, "zero"}
        /\ port.oneStep => msgPackHeader(6, port.oneStep) \in {Kept, "zero"}
    BY DEF msgPackHeader
  <2>4. \A octet : \A field \in {Kept, "zero"} :
            octet.is = "zero" => Written(octet, field).is = "zero"
    BY DEF Written, Holds
  <2>5. Holds("zero", TRUE).is = "zero"
    BY DEF Holds
  <2> QED BY <2>2, <2>3, <2>4, <2>5 DEF FlagsClear
<1> QED BY <1>1, <1>2, <1>3 DEF WireInv, ReadAsPacked, FrameLegal

LEMMA WireStep == WireInv /\ [Next]_vars => WireInv'
<1> SUFFICES ASSUME WireInv, [Next]_vars PROVE WireInv'
  OBVIOUS
<1>1. PortOptions /\ FlagsClear
  BY DEF WireInv
<1>2. CASE IssueMessage
  <2>1. PICK type \in Simple : Issue(type, NoData)
    BY <1>2, Zenon DEF IssueMessage, Simple, NoData
  <2> QED BY <1>1, <2>1, Issued
<1>3. CASE IssueManagement
  <2>1. PICK id \in DataSets : Issue("Management", id)
    BY <1>3, Zenon DEF IssueManagement
  <2> QED BY <1>1, <2>1, Issued
<1>4. CASE FrameGone
  <2>1. port' = port /\ msgObuf' = msgObuf /\ frame' = NoFrame
    BY <1>4 DEF FrameGone
  <2>2. PortOptions' /\ FlagsClear'
    BY <1>1, <2>1 DEF PortOptions, FlagsClear
  <2>3. ~OnLine'
    BY <2>1 DEF OnLine, NoFrame
  <2> QED BY <2>2, <2>3 DEF WireInv, ReadAsPacked, FrameLegal
<1>5. CASE UNCHANGED vars
  <2>1. port' = port /\ msgObuf' = msgObuf /\ frame' = frame
    BY <1>5 DEF vars
  <2>2. OnLine' <=> OnLine
    BY <2>1 DEF OnLine
  <2>3. PortOptions' /\ FlagsClear'
    BY <1>1, <2>1 DEF PortOptions, FlagsClear
  <2>4. ReadAsPacked'
    BY <2>1, <2>2 DEF WireInv, ReadAsPacked
  <2>5. FrameLegal'
    BY <2>1, <2>2 DEF WireInv, FrameLegal
  <2> QED BY <2>3, <2>4, <2>5 DEF WireInv
<1> QED BY <1>2, <1>3, <1>4, <1>5 DEF Next

\* The inductive invariant of the buffer and the line.
THEOREM WireInvariant == Spec => []WireInv
BY WireInit, WireStep, PTL DEF Spec

\* Whatever was sent before from the reused buffer, and in every kind of frame,
\* the receiver of a message acts on octets that were packed, or inserted by
\* the timestamp unit, for this message.
THEOREM EveryFieldReadAsPacked == Spec => []ReadAsPacked
<1>1. WireInv => ReadAsPacked
  BY DEF WireInv
<1> QED BY <1>1, WireInvariant, PTL

\* Every message fits into its buffer, every frame has a legal length and every
\* management TLV is even, for all data sets that the pack functions know, the
\* clock description with any text included.
THEOREM EveryFrameLegal == Spec => []FrameLegal
<1>1. WireInv => FrameLegal
  BY DEF WireInv
<1> QED BY <1>1, WireInvariant, PTL
=============================================================================
