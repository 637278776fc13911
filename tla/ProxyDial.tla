----------------------------- MODULE ProxyDial ------------------------------
(***************************************************************************)
(* What the forwarders rely on when they dial the proxy.  Until its TCP    *)
(* connection stands a call watches the context; it ends with a session    *)
(* that owns open sockets or with a failure that has closed them; nobody   *)
(* closes them in between.  Socks5 implements this for DialTCP and for     *)
(* UDPAssociate; the handlers of TcpFlows and UdpFlows assume no more.     *)
(***************************************************************************)
CONSTANT Calls

VARIABLES
  stage,     \* of a call: "idle", "dial", "handshake", "established", "over"
  sockets,   \* of a call: "none", "open", "closed"
  ctxDone

Init == /\ stage \in [Calls -> {"idle", "dial"}]
        /\ sockets = [c \in Calls |-> "none"]
        /\ ctxDone \in BOOLEAN

Step(c, from, to, socks) ==
  /\ stage[c] = from
  /\ stage' = [stage EXCEPT ![c] = to]
  /\ sockets' = [sockets EXCEPT ![c] = socks]
  /\ UNCHANGED ctxDone

\* The flow may be dropped without a dial.
Begin(c)       == \E to \in {"dial", "over"} : Step(c, "idle", to, "none")
Connected(c)   == ~ctxDone /\ Step(c, "dial", "handshake", "open")
Established(c) == Step(c, "handshake", "established", "open")
Fails(c)       == Step(c, "dial", "over", "none") \/ Step(c, "handshake", "over", "closed")

\* The owner of the session closes it.
Closed(c) == \E to \in {"established", "over"} : Step(c, "established", to, "closed")

Cancel == ~ctxDone /\ ctxDone' = TRUE /\ UNCHANGED <<stage, sockets>>

Next == \/ \E c \in Calls : \/ Begin(c) \/ Connected(c) \/ Established(c)
                            \/ Fails(c) \/ Closed(c)
        \/ Cancel

Spec == Init /\ [][Next]_<<stage, sockets, ctxDone>>
=============================================================================
