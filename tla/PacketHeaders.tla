--------------------------- MODULE PacketHeaders ---------------------------
(***************************************************************************)
(* The functions on packet headers: addresses and checksums of shim.c and  *)
(* ipv4hdr.rs, the ARP responder of shim.c and the ARP server of           *)
(* server.rs.  They keep no state; what they compute is proved below for   *)
(* every packet.  A little-endian host is assumed, as the code does.       *)
(***************************************************************************)
EXTENDS Integers, Sequences, TLAPS

CONSTANTS
  NULL,       \* no packet
  V6,         \* an interface address that is not an IPv4 address
  NoMac,      \* the MAC of an interface that has none
  Broadcast,  \* MacAddr::broadcast()
  Zero        \* MacAddr::zero()

Octet == {n \in Nat : n < 256}
Word16 == {n \in Nat : n < 65536}
Word17 == {n \in Nat : 65536 <= n /\ n < 131072}

-----------------------------------------------------------------------------
(* Addresses: four octets in the packet, a number in the program. *)

Address == [1 .. 4 -> Octet]

Number(a, b, c, d) == 16777216 * a + 65536 * b + 256 * c + d

\* The u32 field as the host reads it, and after rte_be_to_cpu_32.
Load(o) == Number(o[4], o[3], o[2], o[1])
BeToCpu32(o) == Number(o[1], o[2], o[3], o[4])

\* Ipv4Hdr::convert, Packetiser::u32_to_ipaddr and the octets that
\* _pkt_parse_char_ip prints.
Convert(n) ==
  <<(n \div 16777216) % 256, (n \div 65536) % 256, (n \div 256) % 256, n % 256>>

\* _pkt_parse_ip: the four numbers of "a.b.c.d"; RTE_IPV4 masks each of them.
ParseIp(f) == Number(f[1] % 256, f[2] % 256, f[3] % 256, f[4] % 256)

\* Server::ipaddr_to_u32: the last octet is taken from p[1].
IpaddrToU32(o) == Number(o[1], o[2], o[3], o[2])

-----------------------------------------------------------------------------
(* ICMP: the checksum of an echo reply from that of the request. *)

Not16(x) == 65535 - x
Add16(x, y) == (x + y) % 65536

\* _pkt_icmp_checksum: cksum is a uint16_t throughout, so the additions drop
\* the carry and the two folding steps (cksum >> 16) add 0.
EchoRequest == 8
Fold16(x) == Add16(x, x \div 65536)
IcmpChecksum(cksum) ==
  Not16(Fold16(Fold16(Add16(Not16(cksum), Not16(EchoRequest)))))

\* The sum those steps are written for (RFC 1624), in a wider type.
Fold(x) == (x % 65536) + (x \div 65536)
WideIcmpChecksum(cksum) ==
  Not16(Fold(Fold(Not16(cksum) + Not16(EchoRequest))))

-----------------------------------------------------------------------------
(* ARP in shim.c.  A packet is a record of the fields that are read. *)

\* ether_type and arp_opcode are in network order in the packet.
Swap16(x) == 256 * (x % 256) + x \div 256
TypeArp == 2054
OpRequest == 1
OpReply == 2

IsArpRequest(pkt) ==
  Swap16(pkt.etherType) = TypeArp /\ Swap16(pkt.opcode) = OpRequest

\* _pkt_detect_arp; localIp comes from _pkt_parse_ip.
DetectArp(pkt, localIp) == IsArpRequest(pkt) /\ BeToCpu32(pkt.tip) = localIp

\* _pkt_arp_response, when the pool has an mbuf for the answer.  The source is
\* copied to the source and the destination to the destination.
ArpResponse(pkt) ==
  IF IsArpRequest(pkt)
  THEN [etherType |-> Swap16(TypeArp), opcode |-> Swap16(OpReply),
        source |-> pkt.source, destination |-> pkt.destination,
        sha |-> pkt.source, sip |-> pkt.tip,
        tha |-> pkt.destination, tip |-> pkt.sip]
  ELSE NULL

-----------------------------------------------------------------------------
(* ARP in server.rs.  `server` is the sequence of the addresses of all     *)
(* interfaces, in order, each with the MAC of its interface; a packet has  *)
(* a whole ARP header (a shorter one is ignored).                          *)

\* The address at which the search of detect_arp and get_iface_by_ip ends with
\* success: they give up at the first IPv6 address.
FoundAt(server, ip, i) ==
  /\ i \in 1 .. Len(server)
  /\ server[i].ip = ip /\ ip # V6
  /\ \A j \in 1 .. i - 1 : server[j].ip \notin {ip, V6}

\* Server::detect_arp looks at the type of the frame and not at the opcode.
DetectedAt(server, pkt, i) ==
  Swap16(pkt.etherType) = TypeArp /\ FoundAt(server, pkt.tip, i)

\* Server::send_arp_reply, when the pool has an mbuf for the answer: it is a
\* broadcast request for the sender of pkt.
SendArpReply(server, pkt) ==
  IF \E i \in 1 .. Len(server) : DetectedAt(server, pkt, i) /\ server[i].mac # NoMac
  THEN LET mac == server[CHOOSE i \in 1 .. Len(server) : DetectedAt(server, pkt, i)].mac
       IN  [etherType |-> Swap16(TypeArp), opcode |-> Swap16(OpRequest),
            source |-> mac, destination |-> Broadcast,
            sha |-> mac, sip |-> pkt.tip, tha |-> Zero, tip |-> pkt.sip]
  ELSE NULL

-----------------------------------------------------------------------------
(* Theorems. *)

\* Convert takes a number apart into the octets it is made of.
LEMMA ConvertNumber ==
  ASSUME NEW a \in Octet, NEW b \in Octet, NEW c \in Octet, NEW d \in Octet
  PROVE  Convert(Number(a, b, c, d)) = <<a, b, c, d>>
<1>1. Number(a, b, c, d) \div 16777216 = a
  BY SMT DEF Number, Octet
<1>2. (Number(a, b, c, d) \div 65536) % 256 = b
  BY SMT DEF Number, Octet
<1>3. (Number(a, b, c, d) \div 256) % 256 = c
  BY SMT DEF Number, Octet
<1>4. Number(a, b, c, d) % 256 = d
  BY SMT DEF Number, Octet
<1>5. a % 256 = a
  BY SMT DEF Octet
<1>6. QED
  BY <1>1, <1>2, <1>3, <1>4, <1>5, SMT DEF Convert

\* Ipv4Hdr::convert gives the octets that an address has in the packet in
\* reverse, for every address: the step Convert of ClientTraffic.
THEOREM ConvertReverses ==
  ASSUME NEW o \in Address
  PROVE  Convert(Load(o)) = <<o[4], o[3], o[2], o[1]>>
BY ConvertNumber, SMT DEF Address, Load

\* The comparison of addresses in _pkt_detect_arp, which comes after its tests of
\* type and opcode: the target of a request agrees with the address that
\* _pkt_parse_ip read exactly if the four numbers of that address, reduced to one
\* octet each, are the octets of the packet.
THEOREM DetectArpCompares ==
  ASSUME NEW o \in Address, NEW f \in [1 .. 4 -> Nat]
  PROVE  BeToCpu32(o) = ParseIp(f) <=> \A i \in 1 .. 4 : o[i] = f[i] % 256
<1>1. /\ f[1] % 256 \in Octet /\ f[2] % 256 \in Octet
      /\ f[3] % 256 \in Octet /\ f[4] % 256 \in Octet
  BY SMT DEF Octet
<1>2. ASSUME BeToCpu32(o) = ParseIp(f)
      PROVE  \A i \in 1 .. 4 : o[i] = f[i] % 256
  <2>1. Convert(BeToCpu32(o)) = <<o[1], o[2], o[3], o[4]>>
    BY ConvertNumber, SMT DEF Address, BeToCpu32
  <2>2. Convert(ParseIp(f)) = <<f[1] % 256, f[2] % 256, f[3] % 256, f[4] % 256>>
    BY <1>1, ConvertNumber, SMTT(60) DEF ParseIp
  <2>3. <<o[1], o[2], o[3], o[4]>> = <<f[1] % 256, f[2] % 256, f[3] % 256, f[4] % 256>>
    BY <1>2, <2>1, <2>2, Zenon
  <2>4. QED
    BY <2>3, SMT
<1>3. ASSUME \A i \in 1 .. 4 : o[i] = f[i] % 256
      PROVE  BeToCpu32(o) = ParseIp(f)
  BY <1>3, SMT DEF BeToCpu32, ParseIp
<1>4. QED
  BY <1>2, <1>3

\* Server::ipaddr_to_u32 is the number of the address only if its second octet
\* happens to equal its last one.
THEOREM IpaddrToU32Wrong ==
  ASSUME NEW o \in Address
  PROVE  IpaddrToU32(o) = BeToCpu32(o) <=> o[2] = o[4]
<1>1. o[1] \in Octet /\ o[2] \in Octet /\ o[3] \in Octet /\ o[4] \in Octet
  BY SMT DEF Address
<1>2. QED
  BY <1>1, SMT DEF IpaddrToU32, BeToCpu32, Number, Octet

\* Folding a 16-bit number changes nothing, and folding one with a carry adds
\* the carry.
LEMMA Folds ==
  /\ \A x \in Word16 : Fold16(x) = x /\ Fold(x) = x
  /\ \A x \in Word17 : Fold(x) = x - 65535
<1>1. ASSUME NEW x \in Word16
      PROVE  Fold16(x) = x /\ Fold(x) = x
  <2>1. x \div 65536 = 0 /\ x % 65536 = x
    BY SMT DEF Word16
  <2>2. QED
    BY <2>1, SMT DEF Fold16, Fold, Add16, Word16
<1>2. ASSUME NEW x \in Word17
      PROVE  Fold(x) = x - 65535
  <2>1. x \div 65536 = 1 /\ x % 65536 = x - 65536
    BY SMT DEF Word17
  <2>2. QED
    BY <2>1, SMT DEF Fold, Word17
<1>3. QED
  BY <1>1, <1>2

\* _pkt_icmp_checksum returns the checksum its folding steps are written for
\* only for the 9 requests whose sum has no carry; for all others its result is
\* one too large.
THEOREM IcmpChecksumLosesCarry ==
  ASSUME NEW c \in Word16
  PROVE  IcmpChecksum(c) = WideIcmpChecksum(c) + (IF c > 65526 THEN 0 ELSE 1)
<1>1. Not16(c) + Not16(EchoRequest) = 131062 - c
  BY SMT DEF Not16, EchoRequest, Word16
<1>2. CASE c > 65526
  <2>1. 131062 - c \in Word16
    BY <1>2, SMT DEF Word16
  <2>2. Add16(Not16(c), Not16(EchoRequest)) = 131062 - c
    BY <1>1, <2>1, SMT DEF Add16, Word16
  <2>3. IcmpChecksum(c) = Not16(131062 - c)
    BY <2>1, <2>2, Folds, SMT DEF IcmpChecksum
  <2>4. WideIcmpChecksum(c) = Not16(131062 - c)
    BY <1>1, <2>1, Folds, SMT DEF WideIcmpChecksum
  <2>5. QED
    BY <1>2, <2>3, <2>4, SMT DEF Not16, Word16
<1>3. CASE ~(c > 65526)
  <2>1. 131062 - c \in Word17 /\ 65526 - c \in Word16 /\ 65527 - c \in Word16
    BY <1>3, SMT DEF Word16, Word17
  <2>2. Add16(Not16(c), Not16(EchoRequest)) = 65526 - c
    BY <1>1, <2>1, SMT DEF Add16, Word16
  <2>3. IcmpChecksum(c) = Not16(65526 - c)
    BY <2>1, <2>2, Folds, SMT DEF IcmpChecksum
  <2>4. Fold(131062 - c) = 65527 - c
    BY <2>1, Folds, SMT DEF Word16
  <2>5. WideIcmpChecksum(c) = Not16(65527 - c)
    BY <1>1, <2>1, <2>4, Folds, SMT DEF WideIcmpChecksum
  <2>6. QED
    BY <1>3, <2>3, <2>5, SMT DEF Not16, Word16
<1>4. QED
  BY <1>2, <1>3

\* Swapping the octets of a 16-bit field twice gives the field.
LEMMA SwapValues ==
  /\ Swap16(Swap16(TypeArp)) = TypeArp
  /\ Swap16(Swap16(OpReply)) # OpRequest
BY SMT DEF Swap16, TypeArp, OpReply, OpRequest

\* The responder of shim.c never answers an answer, so two of them end an
\* exchange after one reply.
THEOREM ArpResponseSettles ==
  ASSUME NEW pkt, ArpResponse(pkt) # NULL
  PROVE  ArpResponse(ArpResponse(pkt)) = NULL
BY SwapValues, SMT DEF ArpResponse, IsArpRequest

\* The search for an address has at most one result.
LEMMA FoundOnce ==
  ASSUME NEW server, Len(server) \in Nat, NEW ip, NEW i, NEW j,
         FoundAt(server, ip, i), FoundAt(server, ip, j)
  PROVE  i = j
BY SMT DEF FoundAt

\* The answer of a server that has the target address at i.
LEMMA ReplyAt ==
  ASSUME NEW server, Len(server) \in Nat, NEW pkt, NEW i \in 1 .. Len(server),
         DetectedAt(server, pkt, i), server[i].mac # NoMac
  PROVE  SendArpReply(server, pkt) =
           [etherType |-> Swap16(TypeArp), opcode |-> Swap16(OpRequest),
            source |-> server[i].mac, destination |-> Broadcast,
            sha |-> server[i].mac, sip |-> pkt.tip, tha |-> Zero, tip |-> pkt.sip]
<1> DEFINE k == CHOOSE x \in 1 .. Len(server) : DetectedAt(server, pkt, x)
<1>1. k \in 1 .. Len(server) /\ DetectedAt(server, pkt, k)
  BY Zenon
<1>2. k = i
  BY <1>1, FoundOnce, Zenon DEF DetectedAt
<1>3. QED
  BY <1>2, Zenon DEF SendArpReply

\* Server::send_arp_reply answers every ARP packet for one of its addresses,
\* an answer too: two servers that can find each other's address repeat the
\* same two packets for ever once one of them has answered the other.
THEOREM ArpServersNeverSettle ==
  ASSUME NEW s, NEW t, Len(s) \in Nat, Len(t) \in Nat,
         NEW i \in 1 .. Len(s), NEW j \in 1 .. Len(t), NEW pkt,
         DetectedAt(s, pkt, i), s[i].mac # NoMac,
         FoundAt(t, pkt.sip, j), t[j].mac # NoMac
  PROVE  LET answer == SendArpReply(s, pkt)
         IN  SendArpReply(s, SendArpReply(t, answer)) = answer
<1> DEFINE answer == SendArpReply(s, pkt)
           back == SendArpReply(t, answer)
<1>1. answer = [etherType |-> Swap16(TypeArp), opcode |-> Swap16(OpRequest),
                source |-> s[i].mac, destination |-> Broadcast,
                sha |-> s[i].mac, sip |-> pkt.tip, tha |-> Zero, tip |-> pkt.sip]
  BY ReplyAt, Zenon
<1>2. /\ answer.etherType = Swap16(TypeArp)
      /\ answer.sip = pkt.tip /\ answer.tip = pkt.sip
  BY <1>1, SMT
<1>3. DetectedAt(t, answer, j)
  BY <1>2, SwapValues, Zenon DEF DetectedAt
<1>4. back = [etherType |-> Swap16(TypeArp), opcode |-> Swap16(OpRequest),
              source |-> t[j].mac, destination |-> Broadcast,
              sha |-> t[j].mac, sip |-> answer.tip, tha |-> Zero, tip |-> answer.sip]
  BY <1>3, ReplyAt, Zenon
<1>5. /\ back.etherType = Swap16(TypeArp)
      /\ back.sip = pkt.sip /\ back.tip = pkt.tip
  BY <1>2, <1>4, SMT
<1>6. DetectedAt(s, back, i)
  BY <1>5, SwapValues, Zenon DEF DetectedAt
<1>7. SendArpReply(s, back) =
        [etherType |-> Swap16(TypeArp), opcode |-> Swap16(OpRequest),
         source |-> s[i].mac, destination |-> Broadcast,
         sha |-> s[i].mac, sip |-> back.tip, tha |-> Zero, tip |-> back.sip]
  BY <1>6, ReplyAt, Zenon
<1>8. QED
  BY <1>1, <1>5, <1>7, Zenon
=============================================================================
