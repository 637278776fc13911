---------------------------- MODULE PacketFilter ----------------------------
(***************************************************************************)
(* What tunReadLoop does with a packet (go/engine.go): the ICMP echo       *)
(* filter, the rejection of QUIC with an ICMP Port Unreachable, injection  *)
(* into the stack; with the header walk, the replies and the checksum of   *)
(* go/icmp_reject.go.                                                      *)
(*                                                                         *)
(* A packet is its length and the header fields the code looks at.  key    *)
(* is what stands at the start of the transport header: the ICMP type, or  *)
(* the destination port.  An address is one 16-bit word.  Packets are      *)
(* unfragmented or first fragments.                                        *)
(***************************************************************************)
EXTENDS Integers, Sequences, SequencesExt

CONSTANT Packets   \* the packets the TUN may deliver

V4 == 4
V6 == 6
ICMP == 1
TCP == 6
UDP == 17
ICMPv6 == 58
QuicPort == 443

HopByHop == 0
Routing  == 43
Fragment == 44
NoNextHeader == 59
DstOptions == 60

Header == [type : {HopByHop, Routing, DstOptions, Fragment}, size : Nat]

ASSUME PacketAssumption ==
  \A p \in Packets :
    /\ p.len \in Nat \ {0} /\ p.ver \in Nat /\ p.ihl \in Nat /\ p.proto \in Nat
    /\ p.ver < 16 /\ p.ihl <= 60 /\ p.proto < 256
    /\ p.chain \in Seq(Header)

ASSUME WordAssumption ==
  \A p \in Packets : \A word \in {p.key, p.src, p.dst} : word \in Nat /\ word < 65536

ASSUME ChainAssumption ==
  \A p \in Packets : \A i \in 1..Len(p.chain) :
    /\ p.chain[i].size >= 8 /\ p.chain[i].size <= 2048 /\ p.chain[i].size % 8 = 0
    /\ p.chain[i].type = Fragment => p.chain[i].size = 8

VARIABLES
  allowICMP, blockQuic,   \* the options of the engine
  pkt,                    \* the packet in buf
  at,                     \* "read", "filter", "handled"
  outcome,                \* of the last packet: "none", "drop", "reject", "inject"
  reply                   \* written to the TUN for it

vars == <<allowICMP, blockQuic, pkt, at, outcome, reply>>

NoReply == [kind |-> "nil"]

-----------------------------------------------------------------------------
(* icmp_reject.go                                                          *)

\* Offset of the i-th header behind the base header, the transport header last.
Offsets(p) ==
  LET off[i \in 1..(Len(p.chain) + 1)] ==
        IF i = 1 THEN 40 ELSE off[i - 1] + p.chain[i - 1].size
  IN off

NotFound == [ok |-> FALSE]

\* Mutant: the loop ends one header early.
WalkShort(p) ==
  LET off == Offsets(p)
      walk[i \in 1..9] ==
        IF i > 7 THEN NotFound
        ELSE IF i <= Len(p.chain)
        THEN IF p.len < off[i] + (IF p.chain[i].type = Fragment THEN 8 ELSE 2)
             THEN NotFound ELSE walk[i + 1]
        ELSE IF p.proto = NoNextHeader \/ off[i] > p.len THEN NotFound
        ELSE [ok |-> TRUE, proto |-> p.proto, off |-> off[i]]
  IN IF p.len < 40 THEN NotFound ELSE walk[1]

\* At most eight headers, the transport header included, are looked at.
ipv6TransportHeader(p) ==
  LET off == Offsets(p)
      walk[i \in 1..9] ==
        IF i > 8 THEN NotFound
        ELSE IF i <= Len(p.chain)
        THEN IF p.len < off[i] + (IF p.chain[i].type = Fragment THEN 8 ELSE 2)
             THEN NotFound ELSE walk[i + 1]
        ELSE IF p.proto = NoNextHeader \/ off[i] > p.len THEN NotFound
        ELSE [ok |-> TRUE, proto |-> p.proto, off |-> off[i]]
  IN IF p.len < 40 THEN NotFound ELSE walk[1]

isUDPDstPortIPv4(p, port) ==
  /\ p.len >= 28 /\ p.proto = UDP
  /\ p.ihl >= 20 /\ p.len >= p.ihl + 4
  /\ p.key = port

\* Mutant: the first next-header value is taken for the transport protocol.
UdpBehindBaseHeader(p, port) ==
  /\ p.len >= 44 /\ p.chain = <<>> /\ p.proto = UDP
  /\ p.key = port

isUDPDstPortIPv6(p, port) ==
  LET t == ipv6TransportHeader(p)
  IN t.ok /\ t.proto = UDP /\ p.len >= t.off + 4 /\ p.key = port

SumOf(words) == FoldLeft(LAMBDA a, b : a + b, 0, words)

Carry(n) == n \div 65536

AddCarry(n) == (n % 65536) + Carry(n)

Complement(word) == 65535 - word

\* Mutant: the carry is added back once only.
ChecksumOneFold(words) == Complement(AddCarry(SumOf(words)) % 65536)

\* One's complement of the one's-complement sum of 16-bit words; every message
\* summed here has an even length.
internetChecksum(words) ==
  LET sum == SumOf(words)
      fold[n \in 0..sum] == IF Carry(n) = 0 THEN n ELSE fold[AddCarry(n)]
  IN Complement(fold[sum])

\* The words of the original packet that the ICMP body repeats.
Quoted(p) == <<p.src, p.dst, p.key>>

VersionAndIHL  == 17664   \* 0x4500
TtlAndProtocol == 16385   \* 64, ICMP

\* The IP header of the reply is <<version and IHL, length, TTL and protocol,
\* checksum, source, destination>>, its body <<type and code, checksum, quote>>.
buildICMPv4PortUnreachable(p) ==
  IF p.len < 28 \/ p.proto # UDP \/ p.ihl < 20 \/ p.len < p.ihl + 8 THEN NoReply
  ELSE LET body == <<3 * 256 + 3, 0>> \o Quoted(p)
           head == <<VersionAndIHL, 20 + 8 + p.ihl + 8, TtlAndProtocol, 0, p.dst, p.src>>
       IN [kind |-> "unreachable", from |-> p.dst, to |-> p.src, quoted |-> p.ihl + 8,
           icmp |-> [body EXCEPT ![2] = internetChecksum(body)],
           head |-> [head EXCEPT ![4] = internetChecksum(head)]]

\* Only for UDP right behind the base header.  The checksum covers the pseudo-header
\* <<source, destination, length, next header>> and the message.
buildICMPv6PortUnreachable(p) ==
  IF p.len < 48 \/ p.chain # <<>> \/ p.proto # UDP THEN NoReply
  ELSE LET body   == <<256 + 4, 0>> \o Quoted(p)
           pseudo == <<p.dst, p.src, 56, ICMPv6>>
       IN [kind |-> "unreachable", from |-> p.dst, to |-> p.src, quoted |-> 48,
           icmp |-> [body EXCEPT ![2] = internetChecksum(pseudo \o body)],
           head |-> pseudo]

-----------------------------------------------------------------------------
(* The filters of engine.go                                                *)

\* Mutant: a range instead of the four types.
EchoRange(type) == type <= 8 \/ type \in 128..129

isICMPEchoType(type) == type \in {0, 8, 128, 129}

\* A truncated ICMP packet counts as one to block.
shouldBlockICMP(p) == p.len < 20 \/ p.len < p.ihl + 1 \/ isICMPEchoType(p.key)

shouldBlockICMPv6(p, off) == p.len < off + 1 \/ isICMPEchoType(p.key)

BlockedEcho(p) ==
  /\ ~allowICMP
  /\ IF p.ver = V4 THEN p.len > 9 /\ p.proto = ICMP /\ shouldBlockICMP(p)
     ELSE LET t == ipv6TransportHeader(p)
          IN t.ok /\ t.proto = ICMPv6 /\ shouldBlockICMPv6(p, t.off)

RejectedQuic(p) ==
  /\ blockQuic
  /\ IF p.ver = V4 THEN isUDPDstPortIPv4(p, QuicPort) ELSE isUDPDstPortIPv6(p, QuicPort)

-----------------------------------------------------------------------------
(* tunReadLoop, the part between Read and the next turn of the loop.       *)

NoPacket == [len |-> 0]

Init ==
  /\ allowICMP \in BOOLEAN /\ blockQuic \in BOOLEAN
  /\ pkt = NoPacket
  /\ at = "read" /\ outcome = "none" /\ reply = NoReply

Read(p) ==
  /\ at = "read"
  /\ pkt' = p /\ at' = "filter"
  /\ UNCHANGED <<allowICMP, blockQuic, outcome, reply>>

\* continue: not IP, or an echo.
Drop ==
  /\ at = "filter"
  /\ pkt.ver \notin {V4, V6} \/ BlockedEcho(pkt)
  /\ outcome' = "drop" /\ at' = "handled"
  /\ UNCHANGED <<allowICMP, blockQuic, pkt, reply>>

\* The reply is written if there is one; a failed write is logged at most.
Reject ==
  /\ at = "filter"
  /\ pkt.ver \in {V4, V6} /\ ~BlockedEcho(pkt) /\ RejectedQuic(pkt)
  /\ outcome' = "reject" /\ at' = "handled"
  /\ reply' = IF pkt.ver = V4 THEN buildICMPv4PortUnreachable(pkt)
                              ELSE buildICMPv6PortUnreachable(pkt)
  /\ UNCHANGED <<allowICMP, blockQuic, pkt>>

InjectInbound ==
  /\ at = "filter"
  /\ pkt.ver \in {V4, V6} /\ ~BlockedEcho(pkt) /\ ~RejectedQuic(pkt)
  /\ outcome' = "inject" /\ at' = "handled"
  /\ UNCHANGED <<allowICMP, blockQuic, pkt, reply>>

\* The next turn of the loop keeps nothing of this packet.
NextTurn ==
  /\ at = "handled"
  /\ pkt' = NoPacket /\ at' = "read" /\ outcome' = "none" /\ reply' = NoReply
  /\ UNCHANGED <<allowICMP, blockQuic>>

Next == (\E p \in Packets : Read(p)) \/ Drop \/ Reject \/ InjectInbound \/ NextTurn

Spec == Init /\ [][Next]_vars

-----------------------------------------------------------------------------
(* Properties.  The reference: where a transport header is, by the RFCs.   *)

\* Bytes in front of the transport header.
HeaderBytes(p) ==
  IF p.ver = V4 THEN p.ihl
  ELSE 40 + SumOf([i \in 1..Len(p.chain) |-> p.chain[i].size])

\* The packet has n bytes of the transport header of protocol proto, behind an IPv4
\* header of a legal length or an IPv6 header and any number of extension headers.
Carries(p, proto, n) ==
  /\ p.proto = proto /\ p.len >= HeaderBytes(p) + n
  /\ p.ver = V4 => p.ihl >= 20

IsEcho(p) ==
  \/ p.ver = V4 /\ Carries(p, ICMP, 1) /\ p.key \in {0, 8}
  \/ p.ver = V6 /\ Carries(p, ICMPv6, 1) /\ p.key \in {128, 129}

IsQuic(p) == p.ver \in {V4, V6} /\ Carries(p, UDP, 8) /\ p.key = QuicPort

\* ipv6TransportHeader finds the transport header exactly when it lies within the
\* packet behind at most seven extension headers, whatever their sizes and
\* wherever the packet is cut, and finds it at its place.
WalkFindsTransport ==
  pkt.len > 0 /\ pkt.ver = V6 =>
    LET t == ipv6TransportHeader(pkt)
    IN /\ t.ok <=> /\ pkt.len >= HeaderBytes(pkt) /\ Len(pkt.chain) <= 7
                   /\ pkt.proto # NoNextHeader
       /\ t.ok => t.off = HeaderBytes(pkt) /\ t.proto = pkt.proto

\* engine.go:321 "an echo hidden behind e.g. a Hop-by-Hop header cannot slip past the
\* filter": an echo that reaches the stack with ICMP off, or a QUIC datagram with QUIC
\* blocked, whatever IPv4 options and extension headers it is behind and wherever it
\* is cut, is an IPv6 packet with eight extension headers or more.  Those do slip past:
\* the walk gives up (icmp_reject.go:198) and the packet is injected unexamined.
FilteredNeverInjected ==
  (/\ outcome = "inject"
   /\ (~allowICMP /\ IsEcho(pkt)) \/ (blockQuic /\ IsQuic(pkt)))
  => pkt.ver = V6 /\ Len(pkt.chain) >= 8

\* The filters are not too broad: TCP, UDP for another port, and the ICMP errors
\* (Destination Unreachable, Packet Too Big, Time Exceeded) are injected.  Of the other
\* ICMP types, all allowed by engine.go:354, four are not: isICMPEchoType does not know
\* the family and drops ICMPv4 of types 128 and 129 and ICMPv6 of types 0 and 8 too.
NoCollateral ==
  outcome \in {"drop", "reject"} /\ pkt.ver \in {V4, V6} =>
    /\ ~Carries(pkt, TCP, 0)
    /\ Carries(pkt, UDP, 0) => pkt.key = QuicPort /\ outcome = "reject"
    /\ ~(pkt.ver = V4 /\ Carries(pkt, ICMP, 1) /\ pkt.key \in {3, 11})
    /\ ~(pkt.ver = V6 /\ Carries(pkt, ICMPv6, 1) /\ pkt.key \in {1, 2, 3})

\* A receiver adds up the words, checksum included, with end-around carry and gets 0xFFFF.
ChecksumVerifies(words) ==
  LET sum == SumOf(words)
  IN sum > 0 /\ sum % 65535 = 0

\* engine.go:306 "Reject QUIC (UDP 443) inline with an ICMP Port Unreachable": every
\* QUIC datagram without extension headers is answered, from its destination to its
\* source, quoting the headers the sender needs to find its socket, and with
\* checksums that verify, so that the sender's kernel does not drop the answer.
RejectAnswered ==
  outcome = "reject" /\ IsQuic(pkt) /\ (pkt.ver = V4 \/ pkt.chain = <<>>) =>
    /\ reply.kind = "unreachable"
    /\ reply.from = pkt.dst /\ reply.to = pkt.src
    /\ reply.quoted \in (HeaderBytes(pkt) + 8)..pkt.len
    /\ IF pkt.ver = V4 THEN ChecksumVerifies(reply.head) /\ ChecksumVerifies(reply.icmp)
       ELSE ChecksumVerifies(reply.head \o reply.icmp)
=============================================================================
