------------------------------- MODULE Socks5 -------------------------------
(***************************************************************************)
(* One call of SOCKS5Client.DialTCP or UDPAssociate (go/socks5.go) against *)
(* a proxy that answers what it likes, stops in the middle of an answer,   *)
(* or says nothing, and the datagram codec of the association.             *)
(*                                                                         *)
(* The proxy's byte stream is a pair of offsets, sent and got; messages    *)
(* are records of the fields the client looks at, credentials are their    *)
(* lengths.  The clock starts when the TCP connection stands and moves     *)
(* only while the client is blocked.                                       *)
(***************************************************************************)
EXTENDS Integers, Sequences

CONSTANTS
  CredLens,           \* lengths of username and password to consider
  NameLens,           \* lengths of a domain name in a reply (one byte)
  IPs, Ports, Payloads,   \* datagrams: addresses of 4 or 16 bytes, ports, data
  handshakeTimeout,
  MaxTime             \* bound on the clock

ASSUME SocksAssumption ==
  /\ CredLens \subseteq Nat /\ NameLens \subseteq 0..255
  /\ handshakeTimeout \in Nat \ {0} /\ MaxTime \in Nat

ASSUME PortAssumption == \A port \in Ports : port \in Nat /\ port < 65536

ASSUME AddressAssumption == \A ip \in IPs : ip \in Seq(0..255) /\ Len(ip) \in {4, 16}

ASSUME PayloadAssumption ==
  \A data \in Payloads : data \in Seq({data[k] : k \in 1..Len(data)})

VARIABLES
  cfg,        \* the call: its kind and credentials; whether the proxy requires
              \* auth; honest: it follows the RFCs in time, and no local call fails
  pc,
  conn, udp,  \* the connection to the proxy and the local UDP socket
  deadline,   \* of conn
  now,
  ctxDone,
  wire,       \* the message the proxy has yet to answer
  reply,      \* the fields of its last answer
  stream,     \* bytes the proxy has sent, bytes read, where its last answer ends
  alive,      \* conn is neither reset nor closed by the proxy
  dgram       \* a datagram handed to the relay, with what it was made from

sockets == <<conn, udp>>
peer    == <<wire, reply, stream, alive>>
vars    == <<cfg, pc, sockets, deadline, now, ctxDone, peer, dgram>>

NoDeadline == -1
Nothing    == [type |-> "none"]
NoReply    == [ver |-> 0, code |-> 0, atyp |-> 1, name |-> 0, form |-> "native"]
NoDatagram == [bytes |-> <<>>]

Reading == {"method", "auth", "head", "len", "addr", "port"}

Init ==
  /\ cfg \in [kind : {"connect", "associate"}, user : CredLens, pass : CredLens,
              honest : BOOLEAN, requires : BOOLEAN]
  /\ pc = "dial"
  /\ conn = "none" /\ udp = "none"
  /\ deadline = NoDeadline /\ now = 0
  /\ ctxDone = FALSE
  /\ wire = Nothing /\ reply = NoReply
  /\ stream = [sent |-> 0, got |-> 0, end |-> 0]
  /\ alive = TRUE
  /\ dgram = NoDatagram

-----------------------------------------------------------------------------
(* What the client writes.                                                 *)

\* Only NO AUTH without a username.
MethodSelection ==
  [type |-> "methods", offered |-> IF cfg.user # 0 THEN {0, 2} ELSE {0}]

\* Mutant: the lengths are exchanged.
SwappedUserPass ==
  [type |-> "auth", ulen |-> cfg.pass % 256, plen |-> cfg.user % 256]

\* The lengths go into one byte each.
UserPass == [type |-> "auth", ulen |-> cfg.user % 256, plen |-> cfg.pass % 256]

\* CONNECT or UDP ASSOCIATE.
Request == [type |-> "request"]

-----------------------------------------------------------------------------
(* What it reads: io.ReadFull of n bytes, which fails when the stream ends   *)
(* before or the deadline passes.                                            *)

CanRead(n) == now < deadline /\ stream.got + n <= stream.sent

ReadFull(n) == CanRead(n) /\ stream' = [stream EXCEPT !.got = @ + n]

\* Mutant: the length byte is taken for a part of the name.
NameWithoutLength ==
  CASE reply.atyp = 1 -> 4 [] reply.atyp = 4 -> 16 [] reply.atyp = 3 -> reply.name - 1

\* Length of BND.ADDR.
AddrLen ==
  CASE reply.atyp = 1 -> 4 [] reply.atyp = 4 -> 16 [] reply.atyp = 3 -> reply.name

\* How much the client reads at each step, and which answers it takes.
Wanted ==
  CASE pc \in {"method", "auth", "port"} -> 2 [] pc = "head" -> 4
    [] pc = "len" -> 1 [] pc = "addr" -> AddrLen

Acceptable ==
  CASE pc = "method" -> reply.ver = 5 /\ reply.code \in {0, 2}
    [] pc = "auth"   -> reply.ver = 1 /\ reply.code = 0
    [] pc = "head"   -> reply.ver = 5 /\ reply.code = 0 /\ reply.atyp \in {1, 3, 4}
    [] OTHER         -> TRUE

Read(p) == pc = p /\ Acceptable /\ ReadFull(Wanted)

-----------------------------------------------------------------------------
(* DialTCP and UDPAssociate.                                               *)

\* Only the TCP dial watches ctx.
DialContext ==
  /\ pc = "dial" /\ ~ctxDone
  /\ pc' = "arm" /\ conn' = "open"
  /\ UNCHANGED <<cfg, udp, deadline, now, ctxDone, peer, dgram>>

DialFails ==
  /\ pc = "dial" /\ ~cfg.honest
  /\ pc' = "over"
  /\ UNCHANGED <<cfg, sockets, deadline, now, ctxDone, peer, dgram>>

\* SetDeadline, once for the whole exchange; handshake writes the methods.
Arm ==
  /\ pc = "arm"
  /\ pc' = "method" /\ wire' = MethodSelection
  /\ deadline' = now + handshakeTimeout
  /\ UNCHANGED <<cfg, sockets, now, ctxDone, reply, stream, alive, dgram>>

\* handshake has returned nil.
HandshakeDone ==
  pc' = (IF cfg.kind = "connect" THEN "parse" ELSE "bind") /\ UNCHANGED wire

\* A method the client did not offer is taken all the same.
ReadMethod ==
  /\ Read("method")
  /\ IF reply.code = 2 THEN pc' = "auth" /\ wire' = UserPass ELSE HandshakeDone
  /\ UNCHANGED <<cfg, sockets, deadline, now, ctxDone, reply, alive, dgram>>

\* Mutant: the deadline is renewed with every answer.
ReadAuthRenews ==
  /\ Read("auth")
  /\ HandshakeDone
  /\ deadline' = now + handshakeTimeout
  /\ UNCHANGED <<cfg, sockets, now, ctxDone, reply, alive, dgram>>

ReadAuth ==
  /\ Read("auth")
  /\ HandshakeDone
  /\ UNCHANGED <<cfg, sockets, deadline, now, ctxDone, reply, alive, dgram>>

\* sendConnect parses the destination and writes CONNECT.
sendConnect ==
  /\ pc = "parse"
  /\ pc' = "head" /\ wire' = Request
  /\ UNCHANGED <<cfg, sockets, deadline, now, ctxDone, reply, stream, alive, dgram>>

\* ListenUDP on the loopback, then UDP ASSOCIATE with the bound port.
Bind ==
  /\ pc = "bind"
  /\ pc' = "head" /\ wire' = Request
  /\ udp' = "open"
  /\ UNCHANGED <<cfg, conn, deadline, now, ctxDone, reply, stream, alive, dgram>>

\* readSocksAddress: header, address (a domain name after its length), port.
ReadAddress ==
  /\ \/ Read("head") /\ pc' = IF reply.atyp = 3 THEN "len" ELSE "addr"
     \/ Read("len")  /\ pc' = "addr"
     \/ Read("addr") /\ pc' = "port"
     \/ Read("port") /\ pc' = IF cfg.kind = "connect" THEN "clear" ELSE "resolve"
  /\ UNCHANGED <<cfg, sockets, deadline, now, ctxDone, wire, reply, alive, dgram>>

\* readSocksAddress joins host and port with a colon and no brackets: an IPv6 address
\* is one colon too many for ResolveUDPAddr, unless it prints as the IPv4 it maps.
Resolvable == reply.atyp = 4 => reply.form = "mapped"

\* ResolveUDPAddr: no network for a literal address, any time for a name.
Resolve ==
  /\ pc = "resolve" /\ Resolvable
  /\ pc' = "clear"
  /\ UNCHANGED <<cfg, sockets, deadline, now, ctxDone, peer, dgram>>

\* SetDeadline(time.Time{})
ClearDeadline ==
  /\ pc = "clear" /\ pc' = "established"
  /\ deadline' = NoDeadline
  /\ UNCHANGED <<cfg, sockets, now, ctxDone, peer, dgram>>

\* A step returns an error: a read (the stream ended, the deadline passed, the answer
\* is not acceptable), or one of SetDeadline, Write, ParseIP, ListenUDP, ResolveUDPAddr.
StepFails ==
  \/ pc \in Reading /\ (now >= deadline \/ ~alive \/ (CanRead(Wanted) /\ ~Acceptable))
  \/ pc \in {"arm", "parse", "bind", "resolve", "clear"} /\ ~cfg.honest
  \/ pc = "resolve" /\ ~Resolvable

\* The return before the UDP socket exists.
FailBeforeBind ==
  /\ udp = "none" /\ StepFails
  /\ pc' = "over" /\ conn' = "closed"
  /\ UNCHANGED <<cfg, udp, deadline, now, ctxDone, peer, dgram>>

\* Mutant: the UDP socket is forgotten.
FailAfterBindLeaks ==
  /\ udp = "open" /\ StepFails
  /\ pc' = "over" /\ conn' = "closed"
  /\ UNCHANGED <<cfg, udp, deadline, now, ctxDone, peer, dgram>>

\* The returns after it.
FailAfterBind ==
  /\ udp = "open" /\ StepFails
  /\ pc' = "over" /\ conn' = "closed" /\ udp' = "closed"
  /\ UNCHANGED <<cfg, deadline, now, ctxDone, peer, dgram>>

\* UDPAssociation.Close, or Close of the connection DialTCP returned.
Close ==
  /\ pc = "established"
  /\ pc' = "over" /\ conn' = "closed"
  /\ udp' = IF udp = "open" THEN "closed" ELSE udp
  /\ UNCHANGED <<cfg, deadline, now, ctxDone, peer, dgram>>

-----------------------------------------------------------------------------
(* Datagrams.  A datagram is a sequence of bytes; data is opaque.          *)

V4InV6 == <<0, 0, 0, 0, 0, 0, 0, 0, 0, 0, 255, 255>>
To4(ip) == IF Len(ip) = 4 THEN ip
           ELSE IF SubSeq(ip, 1, 12) = V4InV6 THEN SubSeq(ip, 13, 16) ELSE <<>>
Addr(ip) == IF To4(ip) # <<>> THEN To4(ip) ELSE ip

EncodeUDPDatagram(ip, port, payload) ==
  <<0, 0, 0, IF To4(ip) # <<>> THEN 1 ELSE 4>> \o Addr(ip)
    \o <<port \div 256, port % 256>> \o payload

Refused == [ok |-> FALSE]

\* Mutant: the port of an IPv6 datagram is left in the payload.
DecodeKeepsPort(data) ==
  LET n == IF Len(data) < 4 THEN 0 ELSE IF data[4] = 1 THEN 4 ELSE 16
  IN IF Len(data) < 4 + n + 2 \/ n = 0 \/ data[3] # 0 \/ data[4] \notin {1, 4} THEN Refused
     ELSE [ok |-> TRUE, ip |-> SubSeq(data, 5, 4 + n),
           port |-> data[5 + n] * 256 + data[6 + n],
           payload |-> SubSeq(data, IF n = 16 THEN 21 ELSE 11, Len(data))]

DecodeUDPDatagram(data) ==
  IF Len(data) < 4 THEN Refused
  ELSE LET n == IF data[4] = 1 THEN 4 ELSE 16
       IN IF data[3] # 0 \/ data[4] \notin {1, 4} \/ Len(data) < 4 + n + 2 THEN Refused
          ELSE [ok |-> TRUE, ip |-> SubSeq(data, 5, 4 + n),
                port |-> data[5 + n] * 256 + data[6 + n],
                payload |-> SubSeq(data, 7 + n, Len(data))]

SendDatagram(ip, port, payload) ==
  /\ pc = "established" /\ cfg.kind = "associate" /\ dgram = NoDatagram
  /\ dgram' = [bytes |-> EncodeUDPDatagram(ip, port, payload),
               ip |-> ip, port |-> port, payload |-> payload]
  /\ UNCHANGED <<cfg, pc, sockets, deadline, now, ctxDone, peer>>

-----------------------------------------------------------------------------
(* The proxy, time, and the context.                                       *)

\* What RFC 1929 makes of the message: the byte behind the name is the password's
\* length only when the name is as long as its length byte says.
CredentialsRead == wire.ulen = cfg.user /\ wire.plen = cfg.pass

Answers ==
  IF wire.type = "request"
  THEN {r \in [ver : {4, 5}, code : {0, 1}, atyp : {1, 3, 4, 9}, name : NameLens,
               form : {"native", "mapped"}] : r.form = "mapped" => r.atyp = 4}
  ELSE [ver : {1, 4, 5}, code : {0, 1, 2, 255}, atyp : {1}, name : {0}, form : {"native"}]

AnswerLen(r) ==
  IF wire.type # "request" THEN 2
  ELSE 6 + CASE r.atyp = 4 -> 16 [] r.atyp = 3 -> 1 + r.name [] OTHER -> 4

\* A proxy that follows the RFCs, knows the credentials and reaches the target.
Honest(r) ==
  CASE wire.type = "methods" ->
         r.ver = 5 /\ r.code = (IF ~cfg.requires THEN 0
                                ELSE IF 2 \in wire.offered THEN 2 ELSE 255)
    [] wire.type = "auth" -> r.ver = 1 /\ r.code = (IF CredentialsRead THEN 0 ELSE 1)
    [] wire.type = "request" -> r.ver = 5 /\ r.code = 0 /\ r.atyp # 9

\* Where a segment may end in an answer of n bytes: in or behind the header, behind
\* the length of a name, before or in the port, or one byte into the tunnelled stream.
Cuts(n) == {1, 3, 4, 5, n - 2, n - 1, n, n + 1} \ {0}

\* The first segment of an answer ...
ProxyAnswers(r, n) ==
  /\ wire # Nothing /\ alive
  /\ cfg.honest => Honest(r)
  /\ n <= AnswerLen(r) \/ (n = AnswerLen(r) + 1 /\ wire.type = "request" /\ cfg.kind = "connect")
  /\ wire' = Nothing /\ reply' = r
  /\ stream' = [stream EXCEPT !.sent = @ + n, !.end = @ + AnswerLen(r)]
  /\ UNCHANGED <<cfg, pc, sockets, deadline, now, ctxDone, alive, dgram>>

\* ... and the others, up to offset n of the stream, while the client waits for them.
ProxyContinues(n) ==
  /\ wire = Nothing /\ alive /\ pc \in Reading
  /\ stream.sent < stream.end /\ stream.sent < n
  /\ n <= stream.end \/ (n = stream.end + 1 /\ pc \notin {"method", "auth"} /\ cfg.kind = "connect")
  /\ stream' = [stream EXCEPT !.sent = n]
  /\ UNCHANGED <<cfg, pc, sockets, deadline, now, ctxDone, wire, reply, alive, dgram>>

ProxyGone ==
  /\ ~cfg.honest /\ conn = "open" /\ alive /\ alive' = FALSE
  /\ UNCHANGED <<cfg, pc, sockets, deadline, now, ctxDone, wire, reply, stream, dgram>>

Cancel ==
  /\ ~cfg.honest /\ pc = "dial" /\ ~ctxDone /\ ctxDone' = TRUE
  /\ UNCHANGED <<cfg, pc, sockets, deadline, now, peer, dgram>>

Blocked ==
  \/ pc \in Reading /\ alive /\ now < deadline /\ ~CanRead(Wanted)
  \/ pc = "resolve" /\ reply.atyp = 3

Tick ==
  /\ now < MaxTime /\ Blocked
  /\ cfg.honest => pc = "resolve" \/ now + 1 < deadline
  /\ now' = now + 1
  /\ UNCHANGED <<cfg, pc, sockets, deadline, ctxDone, peer, dgram>>

-----------------------------------------------------------------------------
Client ==
  \/ DialContext \/ DialFails \/ Arm \/ ReadMethod \/ ReadAuth \/ sendConnect \/ Bind
  \/ ReadAddress \/ Resolve \/ ClearDeadline \/ FailBeforeBind \/ FailAfterBind

Answer == \/ \E r \in Answers : \E n \in Cuts(AnswerLen(r)) : ProxyAnswers(r, n)
          \/ \E n \in (stream.end - 2)..(stream.end + 1) : ProxyContinues(n)

Next ==
  \/ Client \/ Close \/ Tick \/ Cancel \/ ProxyGone \/ Answer
  \/ \E ip \in IPs, port \in Ports, payload \in Payloads :
       SendDatagram(ip, port, payload)

Spec == Init /\ [][Next]_vars

\* The client runs, time passes, the resolver answers, and an honest proxy sends its
\* answers to the end.  Another one owes nothing.
FairSpec == /\ Spec
            /\ WF_vars(Client) /\ WF_vars(Tick)
            /\ WF_vars(cfg.honest /\ Answer)

-----------------------------------------------------------------------------
(* Properties.                                                             *)

\* Every variable of the call keeps its type.
TypeOK ==
  /\ pc \in {"dial", "arm", "parse", "bind", "resolve", "clear", "established", "over"}
           \cup Reading
  /\ {conn, udp} \subseteq {"none", "open", "closed"}
  /\ deadline \in {NoDeadline} \cup Nat /\ now \in 0..MaxTime
  /\ {ctxDone, alive} \subseteq BOOLEAN
  /\ reply \in [ver : 0..255, code : 0..255, atyp : 0..255, name : 0..255,
                form : {"native", "mapped"}]
  /\ stream \in [sent : Nat, got : Nat, end : Nat] /\ stream.got <= stream.sent

\* However long the proxy hesitates between and inside its answers, the whole
\* exchange is over handshakeTimeout after the connection stood.
HandshakeBounded == pc \in Reading => now <= handshakeTimeout

\* A session is handed over clean: exactly the proxy's answers have been read, whatever
\* form of address they carry, so that the first byte of the target's stream is neither
\* lost nor preceded by a rest of the handshake; no deadline will cut it later; and
\* an association has its UDP socket.
SessionUsable ==
  pc = "established" =>
    /\ stream.got = stream.end
    /\ deadline = NoDeadline /\ conn = "open"
    /\ udp = IF cfg.kind = "associate" THEN "open" ELSE "none"

\* A proxy that follows RFC 1928 and 1929 is always reached with the credentials
\* that fit its protocol, whichever method it asks for, in however many segments its
\* answers come, and whichever form of address they carry; but for one: an association
\* whose relay has an IPv6 address of its own is refused (socks5.go:360 and 140).
HonestProxyServed ==
  (/\ pc = "dial" /\ cfg.honest
   /\ cfg.requires => cfg.user \in 1..255 /\ cfg.pass \in 0..255)
    ~> (\/ pc = "established"
        \/ pc = "over" /\ cfg.kind = "associate" /\ reply.atyp = 4 /\ reply.form = "native")

\* A datagram comes back as it was sent (an IPv4-mapped address as IPv4); one cut
\* inside its header, a fragment or another address type is refused, never misread.
DatagramRoundTrip ==
  dgram # NoDatagram =>
    LET b == dgram.bytes
        header == Len(b) - Len(dgram.payload)
    IN /\ DecodeUDPDatagram(b) = [ok |-> TRUE, ip |-> Addr(dgram.ip),
                                  port |-> dgram.port, payload |-> dgram.payload]
       /\ \A k \in 0..(header - 1) : ~DecodeUDPDatagram(SubSeq(b, 1, k)).ok
       /\ ~DecodeUDPDatagram([b EXCEPT ![3] = 1]).ok
       /\ ~DecodeUDPDatagram([b EXCEPT ![4] = 3]).ok

\* Both calls are what the forwarders take them for.
Dial == INSTANCE ProxyDial WITH
  Calls <- {"call"},
  stage <- [c \in {"call"} |->
              IF pc \in {"dial", "established", "over"} THEN pc ELSE "handshake"],
  sockets <- [c \in {"call"} |-> IF udp = "open" THEN "open" ELSE conn]
KeepsDialPromise == Dial!Spec
=============================================================================
