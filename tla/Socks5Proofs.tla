---------------------------- MODULE Socks5Proofs ----------------------------
(***************************************************************************)
(* Proofs about Socks5, for a proxy that sends what it likes when it likes, *)
(* all lengths of credentials and names, and all timeouts: the handshake is *)
(* bounded, a session is handed over clean, no socket is left, and          *)
(* datagrams come back as they were sent.                                   *)
(***************************************************************************)
EXTENDS Socks5, SequenceTheorems, TLAPS

Opening == {"dial", "arm"}
Binding == {"method", "auth", "parse", "bind"}
Bound   == {"head", "len", "addr", "port", "resolve", "clear", "established"}

(* The sockets the call owns at each step.                                  *)
Sockets ==
  /\ pc = "dial" => conn = "none" /\ udp = "none"
  /\ pc \in {"arm"} \cup Binding => conn = "open" /\ udp = "none"
  /\ pc \in Bound => /\ conn = "open"
                     /\ udp = IF cfg.kind = "associate" THEN "open" ELSE "none"
  /\ pc = "over" => conn # "open" /\ udp # "open"
  /\ pc = "bind" => cfg.kind = "associate"
  /\ pc = "parse" => cfg.kind = "connect"

(* The deadline is set before the clock moves, and then stands.             *)
Clock ==
  /\ pc \in Opening => now = 0
  /\ pc \in Reading \cup {"parse", "bind"} => deadline = handshakeTimeout /\ now <= handshakeTimeout
  /\ pc = "established" => deadline = NoDeadline

(* What is left to read of an answer, at each step.                         *)
Left(n) == stream.got + n = stream.end

Remains ==
  /\ pc \in {"method", "auth", "port"} => Left(2)
  /\ pc = "head" /\ reply.atyp = 3 => Left(7 + AddrLen)
  /\ pc = "head" /\ reply.atyp \in {1, 4} => Left(6 + AddrLen)
  /\ pc = "len" => reply.atyp = 3 /\ Left(3 + AddrLen)
  /\ pc = "addr" => reply.atyp \in {1, 3, 4} /\ Left(2 + AddrLen)
  /\ pc \in {"dial", "arm", "parse", "bind", "resolve", "clear", "established"} => Left(0)

(* Before an answer nothing is left to read and nothing has come; afterwards
   what is left to read is left of this answer.  Only the last answer has
   something behind it.                                                     *)
Answered ==
  /\ wire.type # "none" /\ pc # "over" => Left(0) /\ stream.sent = stream.end
  /\ wire.type = "none" => Remains
  /\ wire.type = "none" /\ pc \in {"method", "auth"} => stream.sent <= stream.end
  /\ pc \in {"dial", "arm", "parse", "bind"} => stream.sent = stream.end

(* Which message waits for an answer.                                       *)
Asked ==
  /\ wire.type \in {"methods", "auth", "request"} \/ wire = Nothing
  /\ pc = "method" => wire.type \in {"none", "methods"}
  /\ pc = "auth" => wire.type \in {"none", "auth"}
  /\ pc = "head" => wire.type \in {"none", "request"}
  /\ pc \notin {"method", "auth", "head", "over"} => wire.type = "none"

Inv ==
  /\ TypeOK /\ cfg.kind \in {"connect", "associate"}
  /\ Sockets /\ Clock /\ Answered /\ Asked

-----------------------------------------------------------------------------
(* The invariant.                                                          *)

\* A call starts with nothing open, nothing asked and nothing read.
LEMMA InitInv == Init => Inv
<1> SUFFICES ASSUME Init PROVE Inv
  OBVIOUS
<1>1. TypeOK
  <2>1. /\ reply \in [ver : 0..255, code : 0..255, atyp : 0..255, name : 0..255,
                     form : {"native", "mapped"}]
        /\ stream \in [sent : Nat, got : Nat, end : Nat] /\ stream.got <= stream.sent
        /\ now \in 0..MaxTime
    BY SocksAssumption DEF Init, NoReply
  <2>2. {ctxDone, alive} \subseteq BOOLEAN
    BY DEF Init
  <2> QED
    BY <2>1, <2>2 DEF Init, TypeOK
<1>2. Sockets /\ Clock
  BY DEF Init, Sockets, Clock, Opening, Binding, Bound, Reading
<1>3. Answered /\ Asked
  BY DEF Init, Answered, Remains, Left, Asked, Nothing
<1>4. cfg.kind \in {"connect", "associate"}
  BY DEF Init
<1> QED
  BY <1>1, <1>2, <1>3, <1>4 DEF Inv

\* The types the arithmetic needs.
LEMMA NowType ==
  ASSUME TypeOK
  PROVE  /\ now \in Nat /\ stream.got \in Nat /\ stream.sent \in Nat /\ stream.end \in Nat
         /\ stream = [sent |-> stream.sent, got |-> stream.got, end |-> stream.end]
BY SocksAssumption DEF TypeOK

\* The steps before the first read, and those that leave the stream alone.
LEMMA QuietInv ==
  ASSUME Inv, \/ DialContext \/ DialFails \/ Arm \/ sendConnect \/ Bind \/ Resolve \/ ClearDeadline
              \/ FailBeforeBind \/ FailAfterBind \/ Close
  PROVE  Inv'
<1>1. TypeOK' /\ cfg'.kind \in {"connect", "associate"}
  <2>1. UNCHANGED <<cfg, now, ctxDone, reply, stream, alive>>
    BY DEF DialContext, DialFails, Arm, sendConnect, Bind, Resolve, ClearDeadline, FailBeforeBind,
       FailAfterBind, Close, peer
  <2>2. /\ pc' \in {"arm", "over", "method", "head", "clear", "established"}
        /\ conn' \in {conn, "open", "closed"} /\ udp' \in {udp, "open", "closed"}
        /\ deadline' \in {deadline, NoDeadline, now + handshakeTimeout}
    BY DEF DialContext, DialFails, Arm, sendConnect, Bind, Resolve, ClearDeadline, FailBeforeBind,
       FailAfterBind, Close, sockets
  <2>3. deadline' \in {NoDeadline} \cup Nat
    BY <2>2, NowType, SocksAssumption DEF Inv, TypeOK
  <2> QED
    BY <2>1, <2>2, <2>3 DEF Inv, TypeOK, Reading
<1>2. Sockets'
  BY DEF Inv, TypeOK, Sockets, DialContext, DialFails, Arm, sendConnect, Bind, Resolve, ClearDeadline,
     FailBeforeBind, FailAfterBind, StepFails, Close, sockets, Binding, Bound, Reading
<1>3. Clock'
  BY NowType, SocksAssumption DEF Inv, Clock, DialContext, DialFails, Arm, sendConnect, Bind, Resolve,
     ClearDeadline, FailBeforeBind, FailAfterBind, Close, Opening, Reading
<1>4. Answered'
  <2>1. UNCHANGED <<stream, reply>>
    BY DEF DialContext, DialFails, Arm, sendConnect, Bind, Resolve, ClearDeadline, FailBeforeBind,
       FailAfterBind, Close, peer
  <2>2. \A n \in {0, 2} : Left(n)' <=> Left(n)
    BY <2>1 DEF Left
  <2>3. CASE Arm \/ sendConnect \/ Bind
    BY <2>1, <2>2, <2>3 DEF Inv, Answered, Remains, Asked, Arm, sendConnect, Bind, MethodSelection, Request
  <2>4. CASE DialFails \/ FailBeforeBind \/ FailAfterBind \/ Close
    BY <2>4 DEF Answered, Remains, DialFails, FailBeforeBind, FailAfterBind, Close
  <2>5. CASE DialContext \/ Resolve \/ ClearDeadline
    BY <2>1, <2>2, <2>5 DEF Inv, Answered, Remains, Asked, DialContext, Resolve,
       ClearDeadline, peer
  <2> QED
    BY <2>3, <2>4, <2>5
<1>5. Asked'
  BY DEF Inv, Asked, DialContext, DialFails, Arm, sendConnect, Bind, Resolve, ClearDeadline,
     FailBeforeBind, FailAfterBind, Close, Nothing, MethodSelection, Request, peer
<1> QED
  BY <1>1, <1>2, <1>3, <1>4, <1>5 DEF Inv

\* How much the client wants at each step, given what its answer was accepted for.
LEMMA WantedType ==
  ASSUME Inv, pc \in Reading, pc \in {"len", "addr", "port"} => wire.type = "none"
  PROVE  /\ pc \in {"method", "auth", "port"} => Wanted = 2
         /\ pc = "head" => Wanted = 4
         /\ pc = "len" => Wanted = 1
         /\ pc = "addr" => Wanted = AddrLen
         /\ reply.atyp \in {1, 3, 4} => AddrLen \in Nat
         /\ Wanted \in Nat
<1>1. reply.atyp \in {1, 3, 4} => AddrLen \in Nat
  BY DEF Inv, TypeOK, AddrLen
<1>2. pc = "addr" => reply.atyp \in {1, 3, 4}
  BY DEF Inv, Answered, Remains
<1> QED
  BY <1>1, <1>2 DEF Wanted, Reading

\* An unanswered message leaves nothing to read, so what is read belongs to an answer.
LEMMA ReadsAnAnswer ==
  ASSUME Inv, NEW p \in Reading, Read(p)
  PROVE  /\ pc = p /\ wire.type = "none" /\ Acceptable /\ now < deadline
         /\ Wanted \in Nat
         /\ stream' = [stream EXCEPT !.got = @ + Wanted]
         /\ stream.got + Wanted <= stream.sent
<1>1. /\ pc = p /\ Acceptable /\ now < deadline
      /\ stream' = [stream EXCEPT !.got = @ + Wanted]
      /\ stream.got + Wanted <= stream.sent
  BY DEF Read, ReadFull, CanRead
<1>2. Wanted \in Nat
  BY <1>1, WantedType DEF Inv, Asked, Reading
<1>3. wire.type = "none"
  <2>1. CASE pc \in {"method", "auth", "head"}
    <3>1. Wanted > 0
      BY <2>1 DEF Wanted
    <3> QED
      BY <1>1, <1>2, <2>1, <3>1, NowType DEF Inv, Answered, Left
  <2>2. CASE pc \notin {"method", "auth", "head"}
    BY <1>1, <2>2 DEF Inv, Asked, Reading
  <2> QED
    BY <2>1, <2>2
<1> QED
  BY <1>1, <1>2, <1>3

\* The reads of the handshake: an answer is read to its end, and nothing behind it.
LEMMA ReadInv ==
  ASSUME Inv, ReadMethod \/ ReadAuth \/ ReadAddress
  PROVE  Inv'
<1>1. PICK p \in Reading : Read(p)
  BY DEF ReadMethod, ReadAuth, ReadAddress, Reading
<1>2. /\ pc \in Reading /\ wire.type = "none" /\ Acceptable /\ now < deadline
      /\ Wanted \in Nat /\ stream.got + Wanted <= stream.sent
      /\ stream'.got = stream.got + Wanted
      /\ stream'.sent = stream.sent /\ stream'.end = stream.end
      /\ stream' \in [sent : Nat, got : Nat, end : Nat]
  <2>1. /\ pc = p /\ wire.type = "none" /\ Acceptable /\ now < deadline
        /\ Wanted \in Nat /\ stream.got + Wanted <= stream.sent
        /\ stream' = [stream EXCEPT !.got = @ + Wanted]
    BY <1>1, ReadsAnAnswer
  <2>2. stream \in [sent : Nat, got : Nat, end : Nat]
    BY DEF Inv, TypeOK
  <2> QED
    BY <2>1, <2>2
<1>3. UNCHANGED <<cfg, sockets, deadline, now, ctxDone, reply, alive>>
  BY DEF ReadMethod, ReadAuth, ReadAddress
<1>4. \/ /\ pc = "method" /\ pc' = "auth" /\ wire' = UserPass
      \/ /\ pc \in {"method", "auth"} /\ cfg.kind = "connect"
         /\ pc' = "parse" /\ wire' = wire
      \/ /\ pc \in {"method", "auth"} /\ cfg.kind = "associate"
         /\ pc' = "bind" /\ wire' = wire
      \/ /\ pc = "head" /\ reply.atyp = 3 /\ pc' = "len" /\ wire' = wire
      \/ /\ pc = "head" /\ reply.atyp \in {1, 4} /\ pc' = "addr" /\ wire' = wire
      \/ /\ pc = "len" /\ pc' = "addr" /\ wire' = wire
      \/ /\ pc = "addr" /\ pc' = "port" /\ wire' = wire
      \/ /\ pc = "port" /\ pc' \in {"clear", "resolve"} /\ wire' = wire
  BY <1>2 DEF Inv, ReadMethod, ReadAuth, ReadAddress, HandshakeDone, Read, Acceptable
<1>5. TypeOK' /\ cfg'.kind \in {"connect", "associate"}
  <2>1. pc' \in {"parse", "bind", "resolve", "clear"} \cup Reading
    BY <1>4 DEF Reading
  <2>2. stream'.got <= stream'.sent
    BY <1>2
  <2> QED
    BY <1>2, <1>3, <2>1, <2>2 DEF Inv, TypeOK, sockets
<1>6. Sockets'
  BY <1>3, <1>4 DEF Inv, Sockets, Binding, Bound, sockets
<1>7. Clock'
  BY <1>2, <1>3, <1>4 DEF Inv, Clock, Reading, Opening
<1>8. Asked'
  BY <1>2, <1>4 DEF Inv, Asked, UserPass, Request
<1>9. Answered'
  <2>1. CASE pc \in {"method", "auth"}
    <3>1. Wanted = 2 /\ Left(2) /\ stream.sent <= stream.end
      BY <1>2, <2>1 DEF Inv, Answered, Remains, Wanted
    <3>2. stream'.got = stream'.end /\ stream'.sent = stream'.end
      BY <1>2, <3>1, NowType DEF Inv, Left
    <3>3. Left(0)'
      BY <1>2, <3>2 DEF Left
    <3> QED
      BY <1>2, <1>4, <2>1, <3>2, <3>3 DEF Answered, Remains, UserPass, Request
  <2>2. CASE pc \in {"head", "len", "addr", "port"}
    <3>1. wire' = wire
      BY <1>4, <2>2
    <3>2. AddrLen' = AddrLen /\ reply' = reply
      BY <1>3 DEF AddrLen
    <3>3. Remains'
      BY <1>2, <1>4, <2>2, <3>2, WantedType, NowType DEF Inv, Answered, Remains, Left
    <3> QED
      BY <1>2, <1>4, <2>2, <3>1, <3>3 DEF Answered
  <2> QED
    BY <1>2, <2>1, <2>2 DEF Reading
<1> QED
  BY <1>5, <1>6, <1>7, <1>8, <1>9 DEF Inv

\* What the first segment of an answer holds, and whether it is whole, does not matter:
\* what the answer has for the client to read is its own length.
LEMMA AnswerInv ==
  ASSUME Inv, NEW r \in Answers, NEW n \in Cuts(AnswerLen(r)), ProxyAnswers(r, n)
  PROVE  Inv'
<1>2. r \in [ver : 0..255, code : 0..255, atyp : 0..255, name : 0..255,
            form : {"native", "mapped"}]
  <2>1. CASE wire.type = "request"
    <3>1. r \in [ver : {4, 5}, code : {0, 1}, atyp : {1, 3, 4, 9}, name : NameLens,
                form : {"native", "mapped"}]
      BY <2>1 DEF Answers
    <3>2. r = [ver |-> r.ver, code |-> r.code, atyp |-> r.atyp, name |-> r.name,
               form |-> r.form]
      BY <3>1
    <3>3. /\ r.ver \in {4, 5} /\ r.code \in {0, 1} /\ r.atyp \in {1, 3, 4, 9}
          /\ r.name \in 0..255 /\ r.form \in {"native", "mapped"}
      BY <3>1, SocksAssumption
    <3>4. r.ver \in 0..255 /\ r.code \in 0..255 /\ r.atyp \in 0..255
      BY <3>3
    <3> QED
      BY <3>2, <3>3, <3>4
  <2>2. CASE wire.type # "request"
    <3>1. r \in [ver : {1, 4, 5}, code : {0, 1, 2, 255}, atyp : {1}, name : {0},
                form : {"native"}]
      BY <2>2 DEF Answers
    <3> QED
      BY <3>1
  <2> QED
    BY <2>1, <2>2
<1>3. wire.type # "none"
  BY DEF ProxyAnswers, Inv, Asked
<1>4. /\ AnswerLen(r) \in Nat /\ AnswerLen(r) >= 2
      /\ wire.type # "request" => AnswerLen(r) = 2
  BY <1>2 DEF AnswerLen
<1>5. /\ UNCHANGED <<cfg, pc, sockets, deadline, now, ctxDone, alive>>
      /\ wire'.type = "none" /\ wire' = Nothing /\ reply' = r
      /\ n <= AnswerLen(r) \/ wire.type = "request"
  BY DEF ProxyAnswers, Nothing
<1>6. /\ stream' \in [sent : Nat, got : Nat, end : Nat]
      /\ stream'.got = stream.got /\ stream'.end = stream.end + AnswerLen(r)
      /\ stream'.sent = stream.sent + n /\ n \in Nat
  <2>1. stream' = [stream EXCEPT !.sent = @ + n, !.end = @ + AnswerLen(r)]
    BY DEF ProxyAnswers
  <2>2. stream \in [sent : Nat, got : Nat, end : Nat]
    BY DEF Inv, TypeOK
  <2>3. n \in Nat
    BY <1>4 DEF Cuts
  <2>4. stream.sent + n \in Nat /\ stream.end + AnswerLen(r) \in Nat
    BY <1>4, <2>2, <2>3
  <2> QED
    BY <2>1, <2>2, <2>3, <2>4
<1>7. TypeOK' /\ cfg'.kind \in {"connect", "associate"}
  <2>1. reply' \in [ver : 0..255, code : 0..255, atyp : 0..255, name : 0..255,
                    form : {"native", "mapped"}]
    BY <1>2, <1>5
  <2>2. stream'.got <= stream'.sent
    BY <1>4, <1>6, NowType DEF Inv, TypeOK
  <2> QED
    BY <1>5, <1>6, <2>1, <2>2 DEF Inv, TypeOK, sockets
<1>8. Sockets' /\ Clock' /\ Asked'
  BY <1>5 DEF Inv, Sockets, Clock, Asked, sockets
<1>9. ASSUME pc # "over" PROVE Answered'
  <2>1. /\ pc \in {"method", "auth", "head"}
        /\ pc = "head" <=> wire.type = "request"
        /\ stream.got = stream.end /\ stream.sent = stream.end
    BY <1>3, <1>9, NowType DEF Inv, Asked, Answered, Left
  <2>2. pc \in {"method", "auth"} => Left(2)' /\ stream'.sent <= stream'.end
    BY <1>4, <1>5, <1>6, <2>1, NowType DEF Inv, Left
  <2>3. /\ pc = "head" /\ r.atyp = 3 => Left(7 + AddrLen)'
        /\ pc = "head" /\ r.atyp \in {1, 4} => Left(6 + AddrLen)'
    <3>1. /\ wire.type = "request" /\ r.atyp = 3 => AnswerLen(r) = 7 + r.name
          /\ wire.type = "request" /\ r.atyp = 4 => AnswerLen(r) = 22
          /\ wire.type = "request" /\ r.atyp = 1 => AnswerLen(r) = 10
      BY <1>2 DEF AnswerLen
    <3>2. AddrLen' = CASE r.atyp = 1 -> 4 [] r.atyp = 4 -> 16 [] r.atyp = 3 -> r.name
      BY <1>5 DEF AddrLen
    <3> QED
      BY <1>2, <1>6, <2>1, <3>1, <3>2, NowType DEF Inv, Left
  <2> QED
    BY <1>5, <2>1, <2>2, <2>3 DEF Answered, Remains
<1>10. ASSUME pc = "over" PROVE Answered'
  BY <1>5, <1>10 DEF Answered, Remains
<1> QED
  BY <1>7, <1>8, <1>9, <1>10 DEF Inv

\* The rest of an answer adds nothing to read, and what comes behind the handshake's
\* comes only behind the last answer.
LEMMA ContinuesInv ==
  ASSUME Inv, NEW n \in (stream.end - 2)..(stream.end + 1), ProxyContinues(n)
  PROVE  Inv'
<1>1. /\ UNCHANGED <<cfg, pc, sockets, deadline, now, ctxDone, wire, reply, alive>>
      /\ wire = Nothing /\ pc \in Reading
      /\ n <= stream.end \/ pc \notin {"method", "auth"}
  BY DEF ProxyContinues
<1>2. /\ stream' \in [sent : Nat, got : Nat, end : Nat] /\ stream'.got <= stream'.sent
      /\ stream'.got = stream.got /\ stream'.end = stream.end /\ stream'.sent = n
  <2>1. stream' = [stream EXCEPT !.sent = n] /\ stream.sent < n
    BY DEF ProxyContinues
  <2>2. stream \in [sent : Nat, got : Nat, end : Nat] /\ stream.got <= stream.sent
    BY DEF Inv, TypeOK
  <2>3. n \in Nat
    BY <2>1, <2>2
  <2> QED
    BY <2>1, <2>2, <2>3
<1>3. TypeOK' /\ cfg'.kind \in {"connect", "associate"}
  BY <1>1, <1>2 DEF Inv, TypeOK, sockets
<1>4. Sockets' /\ Clock' /\ Asked'
  BY <1>1 DEF Inv, Sockets, Clock, Asked, sockets
<1>5. Answered'
  <2>1. Remains' <=> Remains
    BY <1>1, <1>2 DEF Remains, Left, AddrLen
  <2>2. wire.type = "none"
    BY <1>1 DEF Nothing
  <2> QED
    BY <1>1, <1>2, <2>1, <2>2 DEF Inv, Answered, Reading
<1> QED
  BY <1>3, <1>4, <1>5 DEF Inv

\* The clock moves while the client is blocked, which it is until its deadline.
LEMMA ElsewhereInv ==
  ASSUME Inv,
         \/ Tick \/ Cancel \/ ProxyGone \/ UNCHANGED vars
         \/ \E ip \in IPs, port \in Ports, payload \in Payloads :
              SendDatagram(ip, port, payload)
  PROVE  Inv'
<1>1. UNCHANGED <<cfg, pc, sockets, deadline, wire, reply, stream>>
  BY DEF Tick, Cancel, ProxyGone, vars, SendDatagram, peer
<1>2. Sockets' /\ Asked' /\ Answered'
  BY <1>1 DEF Inv, Sockets, Asked, Answered, Remains, Left, AddrLen, sockets
<1>3. now' = now \/ (Tick /\ now' = now + 1)
  BY DEF Tick, Cancel, ProxyGone, vars, SendDatagram
<1>4. Clock'
  <2>1. CASE now' = now
    BY <1>1, <2>1 DEF Inv, Clock
  <2>2. CASE Tick /\ now' = now + 1
    <3>1. (pc \in Reading /\ now < deadline) \/ pc = "resolve"
      BY <2>2 DEF Tick, Blocked
    <3> QED
      BY <1>1, <2>2, <3>1, NowType, SocksAssumption DEF Inv, Clock, Reading, Opening
  <2> QED
    BY <1>3, <2>1, <2>2
<1>5. TypeOK'
  <2>1. now' \in 0..MaxTime
    BY <1>3, SocksAssumption DEF Inv, TypeOK, Tick
  <2>2. {ctxDone', alive'} \subseteq BOOLEAN
    BY DEF Inv, TypeOK, Tick, Cancel, ProxyGone, vars, SendDatagram, peer
  <2> QED
    BY <1>1, <2>1, <2>2 DEF Inv, TypeOK, sockets
<1> QED
  BY <1>1, <1>2, <1>4, <1>5 DEF Inv

\* Every step preserves the invariant.
LEMMA NextInv == Inv /\ [Next]_vars => Inv'
BY QuietInv, ReadInv, AnswerInv, ContinuesInv, ElsewhereInv DEF Next, Client, Answer

\* The invariant holds in every state.
LEMMA CallInv == Spec => []Inv
<1> QED
  BY InitInv, NextInv, PTL DEF Spec

-----------------------------------------------------------------------------
(* What follows from it.                                                   *)

\* Every variable of the call keeps its type, whatever the proxy answers.
THEOREM CallTypesHold == Spec => []TypeOK
<1>1. Inv => TypeOK
  BY DEF Inv
<1> QED
  BY <1>1, CallInv, PTL

\* For all timeouts and all ways a proxy can hesitate: SetDeadline covers the whole
\* exchange.
THEOREM HandshakeBoundedHolds == Spec => []HandshakeBounded
<1>1. Inv => HandshakeBounded
  BY DEF Inv, Clock, HandshakeBounded
<1> QED
  BY <1>1, CallInv, PTL

\* For all lengths of a name in the reply: DialTCP and UDPAssociate read their answers
\* to the last byte and no further, and hand over what they opened.
THEOREM SessionUsableHolds == Spec => []SessionUsable
<1>1. Inv => SessionUsable
  BY NowType DEF Inv, Sockets, Clock, Asked, Answered, Remains, Left, Bound, SessionUsable
<1> QED
  BY <1>1, CallInv, PTL

-----------------------------------------------------------------------------
(* Refinement of ProxyDial.                                                *)

Stage == [c \in {"call"} |->
            IF pc \in {"dial", "established", "over"} THEN pc ELSE "handshake"]
Owned == [c \in {"call"} |-> IF udp = "open" THEN "open" ELSE conn]

\* Every step of the call is a step of its dial, or none: the sockets are opened by
\* the connect and closed, both, by whatever ends the call.
LEMMA CallDials ==
  ASSUME Inv, [Next]_vars
  PROVE  [Dial!Next]_(<<Stage, Owned, ctxDone>>)
<1>1. ASSUME NEW from, NEW to, NEW socket,
             Stage = [c \in {"call"} |-> from], Stage' = [c \in {"call"} |-> to],
             Owned' = [c \in {"call"} |-> socket], ctxDone' = ctxDone
      PROVE  Dial!Step("call", from, to, socket)
  BY <1>1 DEF Dial!Step, Stage, Owned
<1>2. CASE DialContext
  <2>1. Dial!Step("call", "dial", "handshake", "open") /\ ~ctxDone
    BY <1>1, <1>2 DEF DialContext, Inv, Sockets, Stage, Owned
  <2> QED
    BY <2>1 DEF Dial!Next, Dial!Connected
<1>3. CASE DialFails
  <2>1. Dial!Step("call", "dial", "over", "none")
    BY <1>1, <1>3 DEF DialFails, Inv, Sockets, Stage, Owned, sockets
  <2> QED
    BY <2>1 DEF Dial!Next, Dial!Fails
<1>4. CASE FailBeforeBind \/ FailAfterBind
  <2>1. pc \in {"arm", "parse", "bind", "resolve", "clear"} \cup Reading
    BY <1>4 DEF FailBeforeBind, FailAfterBind, StepFails
  <2>2. pc' = "over" /\ conn' = "closed" /\ udp' # "open" /\ ctxDone' = ctxDone
    BY <1>4 DEF FailBeforeBind, FailAfterBind
  <2>3. Dial!Step("call", "handshake", "over", "closed")
    BY <1>1, <2>1, <2>2 DEF Stage, Owned, Reading
  <2> QED
    BY <2>3 DEF Dial!Next, Dial!Fails
<1>5. CASE ClearDeadline
  <2>1. Dial!Step("call", "handshake", "established", "open")
    BY <1>1, <1>5 DEF ClearDeadline, Inv, Sockets, Bound, Stage, Owned, sockets
  <2> QED
    BY <2>1 DEF Dial!Next, Dial!Established
<1>6. CASE Close
  <2>1. Dial!Step("call", "established", "over", "closed")
    BY <1>1, <1>6 DEF Close, Stage, Owned
  <2> QED
    BY <2>1 DEF Dial!Next, Dial!Closed
<1>7. CASE Cancel
  <2>1. UNCHANGED <<Stage, Owned>> /\ ~ctxDone /\ ctxDone' = TRUE
    BY <1>7 DEF Cancel, Stage, Owned, sockets
  <2> QED
    BY <2>1 DEF Dial!Next, Dial!Cancel, Stage, Owned
<1>8. CASE Arm \/ sendConnect \/ Bind \/ Resolve \/ ReadMethod \/ ReadAuth \/ ReadAddress
  <2>1. /\ pc \notin {"dial", "established", "over"}
        /\ pc' \notin {"dial", "established", "over"} /\ ctxDone' = ctxDone
    BY <1>8 DEF Arm, sendConnect, Bind, Resolve, ReadMethod, ReadAuth, ReadAddress, Read, HandshakeDone
  <2>2. UNCHANGED Owned
    BY <1>8 DEF Inv, Sockets, Binding, Bound, Arm, sendConnect, Bind, Resolve, ReadMethod, ReadAuth,
       ReadAddress, sockets, Owned
  <2> QED
    BY <2>1, <2>2 DEF Stage
<1>9. CASE \/ Tick \/ ProxyGone \/ Answer \/ UNCHANGED vars
           \/ \E ip \in IPs, port \in Ports, payload \in Payloads :
                SendDatagram(ip, port, payload)
  <2>1. UNCHANGED <<pc, sockets, ctxDone>>
    BY <1>9 DEF Tick, ProxyGone, Answer, ProxyAnswers, ProxyContinues, vars, SendDatagram
  <2> QED
    BY <2>1 DEF Stage, Owned, sockets
<1> QED
  BY <1>2, <1>3, <1>4, <1>5, <1>6, <1>7, <1>8, <1>9 DEF Next, Client

\* DialTCP and UDPAssociate are what the forwarders take them for: an error leaves no
\* socket open, a session owns its sockets, and only the dial heeds ctx.
THEOREM SocksKeepsDialPromise == Spec => KeepsDialPromise
<1>1. Init => Dial!Init
  BY DEF Init, Dial!Init
<1> QED
  BY <1>1, InitInv, NextInv, CallDials, PTL
     DEF Spec, KeepsDialPromise, Dial!Spec, Stage, Owned

-----------------------------------------------------------------------------
(* The datagram codec.                                                     *)

\* A header of four bytes, an address and a port are where the decoder looks for them,
\* and the data is all that follows.
LEMMA Frame ==
  ASSUME NEW S, NEW a \in Seq(S), NEW data \in Seq(S), NEW t \in S, 0 \in S,
         NEW hi \in S, NEW lo \in S,
         NEW b, b = <<0, 0, 0, t>> \o a \o <<hi, lo>> \o data
  PROVE  /\ b \in Seq(S) /\ Len(b) = 6 + Len(a) + Len(data)
         /\ b[3] = 0 /\ b[4] = t /\ b[5 + Len(a)] = hi /\ b[6 + Len(a)] = lo
         /\ SubSeq(b, 5, 4 + Len(a)) = a
         /\ SubSeq(b, 7 + Len(a), Len(b)) = data
<1> DEFINE n == Len(a)
           h == <<0, 0, 0, t>>
           p == <<hi, lo>>
<1>1. h \in Seq(S) /\ p \in Seq(S) /\ Len(h) = 4 /\ Len(p) = 2 /\ n \in Nat /\ Len(data) \in Nat
  BY LenProperties
<1>2. /\ h \o a \in Seq(S) /\ Len(h \o a) = 4 + n
      /\ \A i \in 1..(4 + n) : (h \o a)[i] = IF i <= 4 THEN h[i] ELSE a[i - 4]
  BY <1>1, ConcatProperties
<1>3. /\ (h \o a) \o p \in Seq(S) /\ Len((h \o a) \o p) = 6 + n
      /\ \A i \in 1..(6 + n) : ((h \o a) \o p)[i]
                                 = IF i <= 4 + n THEN (h \o a)[i] ELSE p[i - (4 + n)]
  <2> DEFINE ha == h \o a
  <2> HIDE DEF h, p, ha
  <2>1. ha \in Seq(S) /\ Len(ha) = 4 + n
    BY <1>2 DEF ha
  <2>2. /\ ha \o p \in Seq(S) /\ Len(ha \o p) = Len(ha) + Len(p)
        /\ \A i \in 1..(Len(ha) + Len(p)) :
             (ha \o p)[i] = IF i <= Len(ha) THEN ha[i] ELSE p[i - Len(ha)]
    BY <1>1, <2>1, ConcatProperties
  <2>3. Len(ha) + Len(p) = 6 + n
    BY <1>1, <2>1
  <2> QED
    BY <1>1, <2>1, <2>2, <2>3 DEF ha
<1>4. /\ b \in Seq(S) /\ Len(b) = 6 + n + Len(data)
      /\ \A i \in 1..(6 + n + Len(data)) :
           b[i] = IF i <= 6 + n THEN ((h \o a) \o p)[i] ELSE data[i - (6 + n)]
  <2>1. b = ((h \o a) \o p) \o data
    OBVIOUS
  <2> DEFINE hap == (h \o a) \o p
  <2> HIDE DEF hap
  <2>2. hap \in Seq(S) /\ Len(hap) = 6 + n
    BY <1>3 DEF hap
  <2>3. /\ hap \o data \in Seq(S) /\ Len(hap \o data) = Len(hap) + Len(data)
        /\ \A i \in 1..(Len(hap) + Len(data)) :
             (hap \o data)[i] = IF i <= Len(hap) THEN hap[i] ELSE data[i - Len(hap)]
    BY <2>2, ConcatProperties, Zenon
  <2>4. b = hap \o data
    BY <2>1 DEF hap
  <2> QED
    BY <1>1, <2>2, <2>3, <2>4 DEF hap
<1>5. b[3] = 0 /\ b[4] = t /\ b[5 + n] = hi /\ b[6 + n] = lo
  <2>1. h[3] = 0 /\ h[4] = t /\ p[1] = hi /\ p[2] = lo
    OBVIOUS
  <2> HIDE DEF h, p
  <2> QED
    BY <1>1, <1>2, <1>3, <1>4, <2>1
<1>6. \A i \in 1..n : b[4 + i] = a[i]
  <2> HIDE DEF h, p
  <2> QED
    BY <1>1, <1>2, <1>3, <1>4
<1>7. \A i \in 1..Len(data) : b[6 + n + i] = data[i]
  <2> HIDE DEF h, p
  <2> QED
    BY <1>1, <1>4
<1>8. SubSeq(b, 5, 4 + n) = a
  <2>1. \A i \in 5..(4 + n) : b[i] \in S
    BY <1>1, <1>4, ElementOfSeq
  <2>2. /\ SubSeq(b, 5, 4 + n) \in Seq(S) /\ Len(SubSeq(b, 5, 4 + n)) = n
        /\ \A i \in 1..n : SubSeq(b, 5, 4 + n)[i] = b[4 + i]
    <3>1. /\ SubSeq(b, 5, 4 + n) \in Seq(S)
          /\ Len(SubSeq(b, 5, 4 + n)) = IF 5 <= 4 + n THEN (4 + n) - 5 + 1 ELSE 0
          /\ \A i \in 1..((4 + n) - 5 + 1) : SubSeq(b, 5, 4 + n)[i] = b[5 + i - 1]
      BY <1>1, <2>1, SubSeqProperties
    <3> QED
      BY <1>1, <3>1
  <2> QED
    BY <1>6, <2>2, SeqEqual
<1>9. SubSeq(b, 7 + n, Len(b)) = data
  <2>1. \A i \in (7 + n)..Len(b) : b[i] \in S
    BY <1>1, <1>4, ElementOfSeq
  <2>2. /\ SubSeq(b, 7 + n, Len(b)) \in Seq(S) /\ Len(SubSeq(b, 7 + n, Len(b))) = Len(data)
        /\ \A i \in 1..Len(data) : SubSeq(b, 7 + n, Len(b))[i] = b[6 + n + i]
    <3> DEFINE l == Len(b)
    <3>1. l \in Int /\ l = 6 + n + Len(data) /\ 7 + n \in Int
      BY <1>1, <1>4
    <3> HIDE DEF l
    <3>2. /\ SubSeq(b, 7 + n, l) \in Seq(S)
          /\ Len(SubSeq(b, 7 + n, l)) = IF 7 + n <= l THEN l - (7 + n) + 1 ELSE 0
          /\ \A i \in 1..(l - (7 + n) + 1) :
               SubSeq(b, 7 + n, l)[i] = b[7 + n + i - 1]
      BY <2>1, <3>1, SubSeqProperties DEF l
    <3> QED
      BY <1>1, <3>1, <3>2 DEF l
  <2> QED
    BY <1>7, <2>2, SeqEqual
<1> QED
  BY <1>1, <1>4, <1>5, <1>8, <1>9

\* An address is written in 4 bytes if it has an IPv4 form, in 16 otherwise.
LEMMA AddrBytes ==
  ASSUME NEW ip \in IPs
  PROVE  /\ Addr(ip) \in Seq(0..255)
         /\ Len(Addr(ip)) = IF To4(ip) # <<>> THEN 4 ELSE 16
<1>1. ip \in Seq(0..255) /\ (Len(ip) = 4 \/ Len(ip) = 16)
  BY AddressAssumption
<1>2. CASE Len(ip) = 4
  <2>1. To4(ip) = ip
    BY <1>2 DEF To4
  <2>2. ip # <<>>
    BY <1>2
  <2> QED
    BY <1>1, <1>2, <2>1, <2>2 DEF Addr
<1>3. CASE Len(ip) = 16 /\ SubSeq(ip, 1, 12) = V4InV6
  <2>1. To4(ip) = SubSeq(ip, 13, 16)
    BY <1>3 DEF To4
  <2>2. \A i \in 13..16 : ip[i] \in 0..255
    <3> TAKE i \in 13..16
    <3>1. i \in 1..Len(ip)
      BY <1>3
    <3> QED
      BY <1>1, <3>1, ElementOfSeq
  <2>3. SubSeq(ip, 13, 16) \in Seq(0..255) /\ Len(SubSeq(ip, 13, 16)) = 4
    BY <2>2, SubSeqProperties
  <2>4. To4(ip) # <<>>
    <3>1. Len(To4(ip)) = 4
      BY <2>1, <2>3
    <3> QED
      BY <3>1, EmptySeq
  <2> QED
    BY <2>1, <2>3, <2>4 DEF Addr
<1>4. CASE Len(ip) = 16 /\ SubSeq(ip, 1, 12) # V4InV6
  <2>1. To4(ip) = <<>>
    BY <1>4 DEF To4
  <2> QED
    BY <1>1, <1>4, <2>1 DEF Addr
<1> QED
  BY <1>1, <1>2, <1>3, <1>4

\* The two bytes of a port make up the port again.
LEMMA PortBytes ==
  ASSUME NEW port \in Ports
  PROVE  /\ (port \div 256) * 256 + (port % 256) = port
         /\ port \div 256 \in Nat /\ port % 256 \in Nat
<1>1. port \in Nat
  BY PortAssumption
<1> QED
  BY <1>1

\* For every address, port and payload: the decoder returns what was encoded, and
\* refuses what is cut in the header, a fragment, or of another address type.
LEMMA RoundTrip ==
  ASSUME NEW ip \in IPs, NEW port \in Ports, NEW payload \in Payloads,
         NEW b, b = EncodeUDPDatagram(ip, port, payload)
  PROVE  /\ DecodeUDPDatagram(b) = [ok |-> TRUE, ip |-> Addr(ip), port |-> port,
                                    payload |-> payload]
         /\ \A k \in 0..(Len(b) - Len(payload) - 1) : ~DecodeUDPDatagram(SubSeq(b, 1, k)).ok
         /\ ~DecodeUDPDatagram([b EXCEPT ![3] = 1]).ok
         /\ ~DecodeUDPDatagram([b EXCEPT ![4] = 3]).ok
<1> DEFINE a == Addr(ip)
           n == Len(a)
           t == IF To4(ip) # <<>> THEN 1 ELSE 4
           S == Nat \cup {payload[k] : k \in 1..Len(payload)}
<1>1. payload \in Seq({payload[k] : k \in 1..Len(payload)})
  BY PayloadAssumption
<1>2. payload \in Seq(S)
  BY <1>1, SeqMonotonic
<1>0. Nat \subseteq S
  OBVIOUS
<1>3. a \in Seq(S) /\ n \in {4, 16} /\ t \in {1, 4} /\ (t = 1 <=> n = 4)
  <2>1. a \in Seq(0..255) /\ n = IF To4(ip) # <<>> THEN 4 ELSE 16
    BY AddrBytes
  <2>2. 0..255 \subseteq S
    OBVIOUS
  <2>3. a \in Seq(S)
    <3> HIDE DEF a, S
    <3> QED
      BY <2>1, <2>2, SeqMonotonic
  <2> QED
    BY <2>1, <2>3
<1>4. /\ b \in Seq(S) /\ Len(b) = 6 + n + Len(payload) /\ Len(payload) \in Nat
      /\ b[3] = 0 /\ b[4] = t /\ b[5 + n] = port \div 256 /\ b[6 + n] = port % 256
      /\ SubSeq(b, 5, 4 + n) = a
      /\ SubSeq(b, 7 + n, Len(b)) = payload
  <2> HIDE DEF a, t, S
  <2>1. b = <<0, 0, 0, t>> \o a \o <<port \div 256, port % 256>> \o payload
    BY DEF EncodeUDPDatagram, a, t
  <2>2. 0 \in S /\ t \in S /\ port \div 256 \in S /\ port % 256 \in S
    <3>1. 0 \in Nat /\ t \in Nat /\ port \div 256 \in Nat /\ port % 256 \in Nat
      BY <1>3, PortBytes
    <3> QED
      BY <1>0, <3>1, Zenon
  <2>3. Len(payload) \in Nat
    BY <1>2, LenProperties
  <2> QED
    BY <1>2, <1>3, <2>1, <2>2, <2>3, Frame
<1> HIDE DEF a, t, S
<1>5. DecodeUDPDatagram(b) = [ok |-> TRUE, ip |-> a, port |-> port, payload |-> payload]
  <2>1. (IF b[4] = 1 THEN 4 ELSE 16) = n
    BY <1>3, <1>4
  <2>2. Len(b) >= 4 /\ b[3] = 0 /\ b[4] \in {1, 4} /\ ~(Len(b) < 4 + n + 2)
    BY <1>3, <1>4
  <2>3. b[5 + n] * 256 + b[6 + n] = port
    BY <1>4, PortBytes
  <2>4. ~(Len(b) < 4) /\ b[3] = 0 /\ b[4] \in {1, 4}
    BY <2>2
  <2>5. SubSeq(b, 5, 4 + n) = a /\ SubSeq(b, 7 + n, Len(b)) = payload
    BY <1>4
  <2> HIDE DEF n
  <2> QED
    BY <2>1, <2>2, <2>3, <2>4, <2>5 DEF DecodeUDPDatagram
<1>6. ASSUME NEW k \in 0..(Len(b) - Len(payload) - 1)
      PROVE  ~DecodeUDPDatagram(SubSeq(b, 1, k)).ok
  <2> DEFINE c == SubSeq(b, 1, k)
  <2>1. k \in Nat /\ k < 6 + n /\ k <= Len(b)
    BY <1>3, <1>4
  <2>2. \A i \in 1..k : b[i] \in S
    BY <1>4, <2>1, ElementOfSeq
  <2>3. Len(c) = k /\ \A i \in 1..k : c[i] = b[i]
    BY <2>1, <2>2, SubSeqProperties
  <2> HIDE DEF c
  <2>4. CASE k < 4
    BY <2>3, <2>4 DEF DecodeUDPDatagram, Refused, c
  <2>5. CASE k >= 4
    <3>1. c[4] = t
      BY <1>4, <2>1, <2>3, <2>5
    <3>2. (IF c[4] = 1 THEN 4 ELSE 16) = n
      BY <1>3, <3>1
    <3>3. Len(c) < 4 + n + 2
      BY <1>3, <2>1, <2>3
    <3> QED
      BY <3>2, <3>3 DEF DecodeUDPDatagram, Refused, c
  <2> QED
    BY <2>1, <2>4, <2>5
<1>7. ~DecodeUDPDatagram([b EXCEPT ![3] = 1]).ok
  <2>1. [b EXCEPT ![3] = 1][3] = 1
    BY <1>3, <1>4
  <2> QED
    BY <2>1 DEF DecodeUDPDatagram, Refused
<1>8. ~DecodeUDPDatagram([b EXCEPT ![4] = 3]).ok
  <2>1. [b EXCEPT ![4] = 3][4] = 3
    BY <1>3, <1>4
  <2> QED
    BY <2>1 DEF DecodeUDPDatagram, Refused
<1> QED
  BY <1>5, <1>6, <1>7, <1>8 DEF a

(* A datagram that was handed over is an encoded one.                       *)
Encoded ==
  dgram = NoDatagram \/
  \E ip \in IPs, port \in Ports, payload \in Payloads :
    dgram = [bytes |-> EncodeUDPDatagram(ip, port, payload),
             ip |-> ip, port |-> port, payload |-> payload]

\* For all addresses, ports and payloads: EncodeUDPDatagram and DecodeUDPDatagram are
\* inverse, and no damaged header is misread.
THEOREM DatagramRoundTripHolds == Spec => []DatagramRoundTrip
<1>1. Init => Encoded
  BY DEF Init, Encoded
<1>2. Encoded /\ [Next]_vars => Encoded'
  <2> SUFFICES ASSUME Encoded, [Next]_vars PROVE Encoded'
    OBVIOUS
  <2>1. ASSUME NEW ip \in IPs, NEW port \in Ports, NEW payload \in Payloads,
               SendDatagram(ip, port, payload)
        PROVE  Encoded'
    BY <2>1 DEF SendDatagram, Encoded
  <2>2. CASE UNCHANGED dgram
    BY <2>2 DEF Encoded
  <2>3. CASE Client \/ Close \/ Tick \/ Cancel \/ ProxyGone \/ Answer \/ UNCHANGED vars
    <3>1. UNCHANGED dgram
      BY <2>3 DEF Client, DialContext, DialFails, Arm, ReadMethod, ReadAuth, sendConnect, Bind,
         ReadAddress, Resolve, ClearDeadline, FailBeforeBind, FailAfterBind, Close, Tick,
         Cancel, ProxyGone, Answer, ProxyAnswers, ProxyContinues, vars
    <3> QED
      BY <2>2, <3>1
  <2> QED
    BY <2>1, <2>3 DEF Next
<1>3. Encoded => DatagramRoundTrip
  <2> SUFFICES ASSUME Encoded, dgram # NoDatagram PROVE DatagramRoundTrip
    BY DEF DatagramRoundTrip
  <2>1. PICK ip \in IPs, port \in Ports, payload \in Payloads :
          dgram = [bytes |-> EncodeUDPDatagram(ip, port, payload),
                   ip |-> ip, port |-> port, payload |-> payload]
    BY DEF Encoded
  <2>2. /\ dgram.bytes = EncodeUDPDatagram(ip, port, payload)
        /\ dgram.ip = ip /\ dgram.port = port /\ dgram.payload = payload
    BY <2>1
  <2> DEFINE b == dgram.bytes
  <2>a. b = EncodeUDPDatagram(ip, port, payload)
    BY <2>2
  <2> HIDE DEF b
  <2>3. /\ DecodeUDPDatagram(b) = [ok |-> TRUE, ip |-> Addr(ip), port |-> port,
                                   payload |-> payload]
        /\ \A k \in 0..(Len(b) - Len(payload) - 1) :
             ~DecodeUDPDatagram(SubSeq(b, 1, k)).ok
        /\ ~DecodeUDPDatagram([b EXCEPT ![3] = 1]).ok
        /\ ~DecodeUDPDatagram([b EXCEPT ![4] = 3]).ok
    BY <2>a, RoundTrip
  <2> QED
    BY <2>2, <2>3, Zenon DEF DatagramRoundTrip, b
<1> QED
  BY <1>1, <1>2, <1>3, PTL DEF Spec
=============================================================================
