------------------------------ MODULE UdpFlows ------------------------------
(***************************************************************************)
(* UDP flows of one engine (go/engine.go): the forwarder callback that     *)
(* reserves a slot of activeUDPConns, handleUDPForwarder, the goroutines   *)
(* and the shared shutdown of pipeUDP, the udpConns table with             *)
(* CloseAllConnections, and the steps of Engine.Stop that reach the flows. *)
(*                                                                         *)
(* A handler is one run of handleUDPForwarder; its flow is the 5-tuple of  *)
(* the packet that launched it.  The idle deadlines are abstracted to "a   *)
(* relay goroutine may give up at any time"; UdpRelay has them.            *)
(***************************************************************************)
EXTENDS Integers, FiniteSets

CONSTANTS
  Flows,        \* 5-tuples
  Handlers,     \* runs of handleUDPForwarder, each used once
  NoFlow,       \* flow of a handler that was not launched
  MaxUDPConns   \* the cap on concurrent associations

ASSUME UdpAssumption == MaxUDPConns \in Nat \ {0} /\ NoFlow \notin Flows

VARIABLES
  active,    \* e.activeUDPConns
  reader,    \* tunReadLoop: "loop", inside a refused callback, or "done"
  pc,        \* where a handler is
  flow,      \* the flow it serves
  ep,        \* its gVisor endpoint (gonetConn)
  assoc,     \* its SOCKS5 sockets: control connection and UDP socket
  relay,     \* the goroutines of its pipeUDP
  once,      \* the sync.Once of its shutdown, and who is inside
  panicked,  \* handlers whose validator call panicked (history)
  tracked,   \* e.udpConns
  snap,      \* connections CloseAllConnections has yet to close
  phase      \* how far Engine.Stop has come

vars == <<active, reader, pc, flow, ep, assoc, relay, once, panicked,
          tracked, snap, phase>>

Gors == {"ctrl", "up", "down"}   \* control monitor, TUN -> relay, relay -> TUN

Live == {"create", "validate", "dial", "handshake", "track", "spawn", "wait",
         "untrack", "release"}
Holding == {h \in Handlers : pc[h] \in Live}

\* gVisor hands a packet to the endpoint registered for its flow, if any.
Registered(f) == \E h \in Handlers : flow[h] = f /\ ep[h] = "open"

ctxDone == phase # "running"

Init ==
  /\ active = 0
  /\ reader = "loop"
  /\ pc = [h \in Handlers |-> "new"]
  /\ flow = [h \in Handlers |-> NoFlow]
  /\ ep = [h \in Handlers |-> "none"]
  /\ assoc = [h \in Handlers |-> "none"]
  /\ relay = [h \in Handlers |-> [g \in Gors |-> "off"]]
  /\ once = [h \in Handlers |-> "no"]
  /\ panicked = {}
  /\ tracked = {}
  /\ snap = {}
  /\ phase = "running"

Goto(h, l) == pc' = [pc EXCEPT ![h] = l]
CloseEp(h) == ep' = [ep EXCEPT ![h] = "closed"]
CloseAssoc(h) == assoc' = [assoc EXCEPT ![h] = "closed"]

-----------------------------------------------------------------------------
(* The forwarder callback, run by tunReadLoop inside InjectInbound.  A second
   packet of a flow whose handler has no endpoint yet launches a second one. *)

\* Mutant: the slot is counted later, in the handler.
ReserveLazily(f, h) ==
  /\ reader = "loop"
  /\ ~Registered(f)
  /\ pc[h] = "new"
  /\ active + 1 <= MaxUDPConns
  /\ Goto(h, "create")
  /\ flow' = [flow EXCEPT ![h] = f]
  /\ UNCHANGED <<active, reader, ep, assoc, relay, once, panicked, tracked,
                 snap, phase>>

\* activeUDPConns.Add(1) within the cap: go handleUDPForwarder.
ReserveSlot(f, h) ==
  /\ reader = "loop"
  /\ ~Registered(f)
  /\ pc[h] = "new"
  /\ active + 1 <= MaxUDPConns
  /\ active' = active + 1
  /\ Goto(h, "create")
  /\ flow' = [flow EXCEPT ![h] = f]
  /\ UNCHANGED <<reader, ep, assoc, relay, once, panicked, tracked, snap, phase>>

\* activeUDPConns.Add(1) over the cap.
RefuseFlow(f) ==
  /\ reader = "loop"
  /\ ~Registered(f)
  /\ active + 1 > MaxUDPConns
  /\ active' = active + 1
  /\ reader' = "rollback"
  /\ UNCHANGED <<pc, flow, ep, assoc, relay, once, panicked, tracked, snap, phase>>

\* Mutant: the refused claim is not counted back.
RollbackForgotten ==
  /\ reader = "rollback"
  /\ reader' = "loop"
  /\ UNCHANGED <<active, pc, flow, ep, assoc, relay, once, panicked, tracked, snap, phase>>

\* activeUDPConns.Add(-1); return false.
Rollback ==
  /\ reader = "rollback"
  /\ active' = active - 1
  /\ reader' = "loop"
  /\ UNCHANGED <<pc, flow, ep, assoc, relay, once, panicked, tracked, snap, phase>>

-----------------------------------------------------------------------------
(* handleUDPForwarder.  "release" stands for the deferred Add(-1).          *)

CreateEndpoint(h) ==
  /\ pc[h] = "create"
  /\ ~Registered(flow[h])
  /\ ep' = [ep EXCEPT ![h] = "open"]
  /\ Goto(h, "validate")
  /\ UNCHANGED <<active, reader, flow, assoc, relay, once, panicked, tracked,
                 snap, phase>>

\* Mutant: this early return is not covered by the deferred Add(-1).
CreateEndpointFailsLeaking(h) ==
  /\ pc[h] = "create"
  /\ Registered(flow[h]) \/ phase = "stackClosed"
  /\ Goto(h, "done")
  /\ UNCHANGED <<active, reader, flow, ep, assoc, relay, once, panicked,
                 tracked, snap, phase>>

\* The flow has an endpoint by now, or the stack is closed.
CreateEndpointFails(h) ==
  /\ pc[h] = "create"
  /\ Registered(flow[h]) \/ phase = "stackClosed"
  /\ Goto(h, "release")
  /\ UNCHANGED <<active, reader, flow, ep, assoc, relay, once, panicked,
                 tracked, snap, phase>>

ValidateAllows(h) ==
  /\ pc[h] = "validate"
  /\ Goto(h, "dial")
  /\ UNCHANGED <<active, reader, flow, ep, assoc, relay, once, panicked,
                 tracked, snap, phase>>

ValidateDenies(h) ==
  /\ pc[h] = "validate"
  /\ CloseEp(h)
  /\ Goto(h, "release")
  /\ UNCHANGED <<active, reader, flow, assoc, relay, once, panicked, tracked,
                 snap, phase>>

\* The callback panics: recover() and the deferred Add(-1) run, nothing closes
\* gonetConn.
ValidatePanics(h) ==
  /\ pc[h] = "validate"
  /\ panicked' = panicked \cup {h}
  /\ Goto(h, "release")
  /\ UNCHANGED <<active, reader, flow, ep, assoc, relay, once, tracked, snap, phase>>

\* Mutant: the dial does not use ctx.
DialIgnoresCtx(h) ==
  /\ pc[h] = "dial"
  /\ assoc' = [assoc EXCEPT ![h] = "open"]
  /\ Goto(h, "handshake")
  /\ UNCHANGED <<active, reader, flow, ep, relay, once, panicked, tracked,
                 snap, phase>>

\* UDPAssociate up to the TCP connection: DialContext watches ctx.
DialContext(h) ==
  /\ pc[h] = "dial"
  /\ ~ctxDone
  /\ assoc' = [assoc EXCEPT ![h] = "open"]
  /\ Goto(h, "handshake")
  /\ UNCHANGED <<active, reader, flow, ep, relay, once, panicked, tracked,
                 snap, phase>>

DialFails(h) ==
  /\ pc[h] = "dial"
  /\ CloseEp(h)
  /\ Goto(h, "release")
  /\ UNCHANGED <<active, reader, flow, assoc, relay, once, panicked, tracked,
                 snap, phase>>

\* The rest of UDPAssociate, bounded by handshakeTimeout; ctx is not watched.
AssociateOK(h) ==
  /\ pc[h] = "handshake"
  /\ Goto(h, "track")
  /\ UNCHANGED <<active, reader, flow, ep, assoc, relay, once, panicked,
                 tracked, snap, phase>>

\* Mutant: a failed handshake leaves the control connection open.
AssociateFailsOpen(h) ==
  /\ pc[h] = "handshake"
  /\ CloseEp(h)
  /\ Goto(h, "release")
  /\ UNCHANGED <<active, reader, flow, assoc, relay, once, panicked, tracked,
                 snap, phase>>

\* UDPAssociate closes its sockets, the handler closes gonetConn.
AssociateFails(h) ==
  /\ pc[h] = "handshake"
  /\ CloseAssoc(h)
  /\ CloseEp(h)
  /\ Goto(h, "release")
  /\ UNCHANGED <<active, reader, flow, relay, once, panicked, tracked, snap, phase>>

trackUDPConn(h) ==
  /\ pc[h] = "track"
  /\ tracked' = tracked \cup {h}
  /\ Goto(h, "spawn")
  /\ UNCHANGED <<active, reader, flow, ep, assoc, relay, once, panicked, snap, phase>>

\* pipeUDP launches its three goroutines and waits for two of them.
PipeStarts(h) ==
  /\ pc[h] = "spawn"
  /\ relay' = [relay EXCEPT ![h] = [g \in Gors |-> "run"]]
  /\ Goto(h, "wait")
  /\ UNCHANGED <<active, reader, flow, ep, assoc, once, panicked, tracked, snap, phase>>

\* wg.Wait() returns and pipeUDP's own deferred shutdown runs.
PipeReturns(h) ==
  /\ pc[h] = "wait"
  /\ relay[h]["up"] = "exit" /\ relay[h]["down"] = "exit"
  /\ once[h] \in {"no", "done"}
  /\ once' = [once EXCEPT ![h] = "done"]
  /\ CloseEp(h)
  /\ CloseAssoc(h)
  /\ Goto(h, "untrack")
  /\ UNCHANGED <<active, reader, flow, relay, panicked, tracked, snap, phase>>

untrackUDPConn(h) ==
  /\ pc[h] = "untrack"
  /\ tracked' = tracked \ {h}
  /\ Goto(h, "release")
  /\ UNCHANGED <<active, reader, flow, ep, assoc, relay, once, panicked, snap, phase>>

ReleaseSlot(h) ==
  /\ pc[h] = "release"
  /\ active' = active - 1
  /\ Goto(h, "done")
  /\ UNCHANGED <<reader, flow, ep, assoc, relay, once, panicked, tracked, snap, phase>>

-----------------------------------------------------------------------------
(* The goroutines of pipeUDP.  Each leaves its loop and calls shutdown.     *)

\* Mutant: a relay goroutine returns without calling shutdown.
RelayLeaves(h, g) ==
  /\ relay[h][g] = "run"
  /\ IF g = "up" THEN ep[h] = "closed" ELSE assoc[h] = "closed"
  /\ relay' = [relay EXCEPT ![h][g] = "exit"]
  /\ UNCHANGED <<active, reader, pc, flow, ep, assoc, once, panicked, tracked,
                 snap, phase>>

\* A relay goroutine whose socket was closed under it gets a read error.
RelayUnblocked(h, g) ==
  /\ relay[h][g] = "run"
  /\ IF g = "up" THEN ep[h] = "closed" ELSE assoc[h] = "closed"
  /\ relay' = [relay EXCEPT ![h][g] = "shut"]
  /\ UNCHANGED <<active, reader, pc, flow, ep, assoc, once, panicked, tracked,
                 snap, phase>>

\* An idle deadline, a write error, or the proxy closing its end.
RelayGivesUp(h, g) ==
  /\ relay[h][g] = "run"
  /\ relay' = [relay EXCEPT ![h][g] = "shut"]
  /\ UNCHANGED <<active, reader, pc, flow, ep, assoc, once, panicked, tracked,
                 snap, phase>>

\* once.Do: the first caller closes gonetConn ...
ShutdownEnter(h, g) ==
  /\ relay[h][g] = "shut"
  /\ once[h] = "no"
  /\ once' = [once EXCEPT ![h] = g]
  /\ CloseEp(h)
  /\ UNCHANGED <<active, reader, pc, flow, assoc, relay, panicked, tracked,
                 snap, phase>>

\* ... then the association,
ShutdownFinish(h, g) ==
  /\ relay[h][g] = "shut"
  /\ once[h] = g
  /\ once' = [once EXCEPT ![h] = "done"]
  /\ CloseAssoc(h)
  /\ relay' = [relay EXCEPT ![h][g] = "exit"]
  /\ UNCHANGED <<active, reader, pc, flow, ep, panicked, tracked, snap, phase>>

\* and every other caller of once.Do waits until it has.
ShutdownSkip(h, g) ==
  /\ relay[h][g] = "shut"
  /\ once[h] = "done"
  /\ relay' = [relay EXCEPT ![h][g] = "exit"]
  /\ UNCHANGED <<active, reader, pc, flow, ep, assoc, once, panicked, tracked,
                 snap, phase>>

-----------------------------------------------------------------------------
(* CloseAllConnections, UDP half.                                           *)

CloseAllSnapshot ==
  /\ snap = {}
  /\ snap' = tracked
  /\ UNCHANGED <<active, reader, pc, flow, ep, assoc, relay, once, panicked,
                 tracked, phase>>

CloseAllCloses(h) ==
  /\ h \in snap
  /\ snap' = snap \ {h}
  /\ CloseEp(h)
  /\ UNCHANGED <<active, reader, pc, flow, assoc, relay, once, panicked,
                 tracked, phase>>

-----------------------------------------------------------------------------
(* Engine.Stop, as far as the flows see it.                                 *)

StopCancels ==
  /\ phase = "running"
  /\ phase' = "cancelled"
  /\ UNCHANGED <<active, reader, pc, flow, ep, assoc, relay, once, panicked,
                 tracked, snap>>

\* close(e.stopCh) and tunFile.Close().
StopClosesTun ==
  /\ phase = "cancelled"
  /\ phase' = "tunClosed"
  /\ UNCHANGED <<active, reader, pc, flow, ep, assoc, relay, once, panicked,
                 tracked, snap>>

ReaderExits ==
  /\ phase \in {"tunClosed", "stackClosed"}
  /\ reader = "loop"
  /\ reader' = "done"
  /\ UNCHANGED <<active, pc, flow, ep, assoc, relay, once, panicked, tracked,
                 snap, phase>>

\* stack.Close() aborts the endpoints that are registered at that moment.
StopClosesStack ==
  /\ phase = "tunClosed"
  /\ phase' = "stackClosed"
  /\ ep' = [h \in Handlers |-> IF ep[h] = "open" THEN "closed" ELSE ep[h]]
  /\ UNCHANGED <<active, reader, pc, flow, assoc, relay, once, panicked,
                 tracked, snap>>

-----------------------------------------------------------------------------
handleUDPForwarder(h) ==
  \/ CreateEndpoint(h) \/ CreateEndpointFails(h)
  \/ ValidateAllows(h) \/ ValidateDenies(h) \/ ValidatePanics(h)
  \/ DialContext(h) \/ DialFails(h) \/ AssociateOK(h) \/ AssociateFails(h)
  \/ trackUDPConn(h) \/ PipeStarts(h) \/ PipeReturns(h)
  \/ untrackUDPConn(h) \/ ReleaseSlot(h)

pipeGoroutine(h, g) ==
  \/ RelayUnblocked(h, g) \/ ShutdownEnter(h, g) \/ ShutdownFinish(h, g)
  \/ ShutdownSkip(h, g)

Next ==
  \/ \E f \in Flows : RefuseFlow(f) \/ \E h \in Handlers : ReserveSlot(f, h)
  \/ Rollback \/ ReaderExits
  \/ \E h \in Handlers :
       \/ handleUDPForwarder(h) \/ CloseAllCloses(h)
       \/ \E g \in Gors : pipeGoroutine(h, g) \/ RelayGivesUp(h, g)
  \/ CloseAllSnapshot
  \/ StopCancels \/ StopClosesTun \/ StopClosesStack

Spec == Init /\ [][Next]_vars

\* Goroutines run: the validator answers, dialTimeout and handshakeTimeout end
\* every UDPAssociate, and a goroutine whose socket is closed wakes up.  A new
\* packet, a call of Stop or CloseAllConnections, an idle deadline and any
\* progress of the proxy are not assumed.
Fairness ==
  /\ \A h \in Handlers : WF_vars(handleUDPForwarder(h))
  /\ \A h \in Handlers, g \in Gors : WF_vars(pipeGoroutine(h, g))
  /\ \A h \in Handlers : WF_vars(CloseAllCloses(h))
  /\ WF_vars(Rollback) /\ WF_vars(ReaderExits)
  /\ WF_vars(StopClosesTun) /\ WF_vars(StopClosesStack)

FairSpec == Spec /\ Fairness

-----------------------------------------------------------------------------
(* Properties.                                                             *)

\* Every variable of the flows keeps its type.
TypeOK ==
  /\ active \in 0..(MaxUDPConns + 1)
  /\ reader \in {"loop", "rollback", "done"}
  /\ pc \in [Handlers -> Live \cup {"new", "done"}]
  /\ flow \in [Handlers -> Flows \cup {NoFlow}]
  /\ ep \in [Handlers -> {"none", "open", "closed"}]
  /\ assoc \in [Handlers -> {"none", "open", "closed"}]
  /\ relay \in [Handlers -> [Gors -> {"off", "run", "shut", "exit"}]]
  /\ once \in [Handlers -> {"no", "done"} \cup Gors]
  /\ panicked \subseteq Handlers
  /\ tracked \subseteq Handlers
  /\ snap \subseteq Handlers
  /\ phase \in {"running", "cancelled", "tunClosed", "stackClosed"}

\* activeUDPConns counts exactly the live handlers, plus one while a refused
\* callback has not rolled back: no exit path, a panic included, loses a slot or
\* gives one back twice.
SlotAccounting ==
  active = Cardinality(Holding) + (IF reader = "rollback" THEN 1 ELSE 0)

\* engine.go:65 "maxUDPConns caps the number of concurrent UDP associations":
\* never more than maxUDPConns handlers live, and every SOCKS5 control connection
\* and UDP socket that is open belongs to one of them, so a burst of flows
\* cannot hold more descriptors than the cap allows, however slow the dials.
CapRespected ==
  /\ Cardinality(Holding) <= MaxUDPConns
  /\ \A h \in Handlers : assoc[h] = "open" => h \in Holding

\* A handler that has ended has left nothing behind: its sockets are closed, it
\* is out of the udpConns table, and its gVisor endpoint is closed, unless the
\* validator panicked (then the endpoint stays registered until Stop).
NothingLeftBehind ==
  \A h \in Handlers : pc[h] = "done" =>
    /\ assoc[h] # "open"
    /\ h \notin tracked
    /\ ep[h] = "open" => h \in panicked

\* activeUDPConns, less the claim of a refused callback that has yet to roll back,
\* keeps a bounded pool: it moves with every slot taken and given back and with
\* nothing else, a slot is taken only when it leaves one, and a flow is refused only
\* when all are taken, however rollbacks and exits interleave.
Pool == INSTANCE SlotPool WITH
          Users <- Handlers,
          Cap <- MaxUDPConns,
          holders <- Holding,
          free <- MaxUDPConns - active + (IF reader = "rollback" THEN 1 ELSE 0),
          turning <- (reader = "rollback")
SlotsArePooled == Pool!Spec

\* Each handler dials the proxy as ProxyDial, which Socks5 implements, allows: it
\* starts no dial once the context is done, and owns open sockets exactly from the
\* connect to the failure of the dial or the shutdown of the relay.
DialStage(h) ==
  IF pc[h] \in {"dial", "handshake"} THEN pc[h]
  ELSE IF pc[h] \in {"track", "spawn", "wait"} THEN "established"
  ELSE IF pc[h] \in {"untrack", "release", "done"} THEN "over" ELSE "idle"
Dials == INSTANCE ProxyDial WITH
           Calls <- Handlers,
           stage <- [h \in Handlers |-> DialStage(h)],
           sockets <- assoc
DialsAsPromised == Dials!Spec

\* After Stop has closed the stack every flow ends without the help of an idle
\* deadline: a handler whose endpoint stack.Close() missed cannot dial any more,
\* because the context was cancelled first.
StopDrains == (phase = "stackClosed") ~> [](Holding = {} /\ active = 0)

\* A flow that CloseAllConnections found in udpConns is torn down completely,
\* although only its gVisor side is closed.
CloseAllEndsFlows == \A h \in Handlers : (h \in snap) ~> (pc[h] = "done")
=============================================================================
