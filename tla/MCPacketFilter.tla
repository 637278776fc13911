--------------------------- MODULE MCPacketFilter ---------------------------
(* TLC instance of PacketFilter: packets around every length the code       *)
(* compares with.                                                           *)
EXTENDS PacketFilter

Contents ==
  {<<TCP, 443>>, <<UDP, 443>>, <<UDP, 53>>, <<NoNextHeader, 443>>}
    \cup {<<ICMP, t>> : t \in {0, 3, 8, 11, 128}}
    \cup {<<ICMPv6, t>> : t \in {1, 2, 3, 8, 128, 129}}

\* Source and destination; only QUIC is answered, and only answers carry addresses.
\* With the third pair the sum of an IPv4 reply carries a second time when its carry is
\* added back, with the fourth that of an IPv6 reply.
Addresses(content) ==
  IF content = <<UDP, 443>>
  THEN {<<1, 1>>, <<65535, 65535>>, <<65535, 64322>>, <<1, 65126>>}
  ELSE {<<1, 1>>}

Packet(ver, len, ihl, chain, content, addr) ==
  [ver |-> ver, len |-> len, ihl |-> ihl, chain |-> chain,
   proto |-> content[1], key |-> content[2], src |-> addr[1], dst |-> addr[2]]

Ext(type, size) == [type |-> type, size |-> size]

Chains ==
  {<<>>, <<Ext(HopByHop, 8)>>, <<Ext(Fragment, 8)>>, <<Ext(Routing, 24)>>,
   <<Ext(HopByHop, 8), Ext(DstOptions, 2048)>>, <<Ext(DstOptions, 16), Ext(Fragment, 8)>>}
    \cup {[i \in 1..n |-> Ext(DstOptions, 8)] : n \in 6..8}

Of(content) ==
  {Packet(V4, len, ihl, <<>>, content, a) :
     len \in {1, 9, 10, 19, 20, 21, 23, 24, 25, 27, 28, 31, 32, 63, 64, 68},
     ihl \in {16, 20, 24, 60}, a \in Addresses(content)}
  \cup {Packet(V6, 40 + FoldLeft(LAMBDA n, h : n + h.size, 0, chain) + more,
               0, chain, content, a) :
          more \in {-9, -8, -7, -6, -1, 0, 1, 3, 4, 7, 8, 20},
          chain \in Chains, a \in Addresses(content)}

SomePackets ==
  UNION {Of(c) : c \in Contents} \cup {Packet(0, 20, 20, <<>>, <<UDP, 443>>, <<1, 1>>)}
=============================================================================
