------------------------------ MODULE TcpFlows ------------------------------
(***************************************************************************)
(* TCP connections of one engine (go/engine.go): gVisor's forwarder with   *)
(* its inFlight table, handleTCPForwarder, the conns table and activeConns *)
(* around the pipe goroutine, CloseAllConnections, and the steps of        *)
(* Engine.Stop that reach the connections.                                 *)
(*                                                                         *)
(* A handler is one run of handleTCPForwarder with the pipe goroutine it   *)
(* launches.  What happens inside pipeConnections is TcpPipe's; here a     *)
(* pipe may be half-closed from the app's side and may end at any time.    *)
(***************************************************************************)
EXTENDS Integers, FiniteSets

CONSTANTS
  Flows,         \* 5-tuples
  Handlers,      \* runs of handleTCPForwarder, each used once
  NoFlow,        \* flow of a handler that was not launched
  MaxInFlight    \* the forwarder's limit of pending requests (1024)

ASSUME TcpAssumption == MaxInFlight \in Nat \ {0} /\ NoFlow \notin Flows

VARIABLES
  inFlight,      \* flows with a pending ForwarderRequest
  run,           \* per handler: pc, flow, gVisor endpoint, proxy connection
  panicked,      \* history: handlers whose validator call panicked
  conns,         \* e.conns
  activeConns,   \* e.activeConns
  snap,          \* connections CloseAllConnections has yet to close
  reader,        \* tunReadLoop still delivers packets
  phase          \* how far Engine.Stop has come

tables == <<inFlight, conns, activeConns, snap>>
engine == <<reader, phase>>
vars   == <<run, panicked, tables, engine>>

Pending == {"create", "complete"}             \* the request is not completed
Piped   == {"pipe", "half", "untrack", "uncount"}  \* the pipe goroutine exists
Live    == Pending \cup {"validate", "dial", "handshake", "track", "count"} \cup Piped

At(S) == {h \in Handlers : run[h].pc \in S}

\* gVisor hands a segment to the endpoint registered for its flow, if any.
Registered(f) == \E h \in Handlers : run[h].flow = f /\ run[h].ep = "open"

ctxDone == phase # "running"

Init ==
  /\ run = [h \in Handlers |->
              [pc |-> "new", flow |-> NoFlow, ep |-> "none", proxy |-> "none"]]
  /\ panicked = {}
  /\ inFlight = {} /\ conns = {} /\ snap = {}
  /\ activeConns = 0
  /\ reader = TRUE
  /\ phase = "running"

\* Handler h leaves step l for step m.
Goto(h, l, m) == /\ run[h].pc = l
                 /\ run' = [run EXCEPT ![h].pc = m]

\* The same, closing the gVisor endpoint.
GotoClosing(h, l, m) ==
  /\ run[h].pc = l
  /\ run' = [run EXCEPT ![h].pc = m, ![h].ep = "closed"]

-----------------------------------------------------------------------------
(* The forwarder.                                                          *)

\* A SYN for which gVisor has neither an endpoint nor a pending request, below
\* the limit: the callback launches handleTCPForwarder.  Other SYNs are ignored.
Admit(f, h) ==
  /\ reader
  /\ ~Registered(f) /\ f \notin inFlight
  /\ Cardinality(inFlight) < MaxInFlight
  /\ run[h].pc = "new"
  /\ inFlight' = inFlight \cup {f}
  /\ run' = [run EXCEPT ![h].pc = "create", ![h].flow = f]
  /\ UNCHANGED <<panicked, conns, activeConns, snap, engine>>

-----------------------------------------------------------------------------
(* handleTCPForwarder.                                                     *)

\* Mutant: Complete is called before the endpoint exists.
CreateEndpointLate(h) ==
  /\ run[h].pc = "create"
  /\ \/ /\ run[h].flow \in inFlight
        /\ inFlight' = inFlight \ {run[h].flow}
        /\ UNCHANGED run
     \/ /\ run[h].flow \notin inFlight
        /\ run' = [run EXCEPT ![h].pc = "validate", ![h].ep = "open"]
        /\ UNCHANGED inFlight
  /\ UNCHANGED <<panicked, conns, activeConns, snap, engine>>

\* CreateEndpoint returns once the three-way handshake is done; after
\* stack.Close() the endpoint is an aborted one.
CreateEndpoint(h) ==
  /\ run[h].pc = "create"
  /\ run' = [run EXCEPT ![h].pc = "complete",
               ![h].ep = IF phase = "stackClosed" THEN "aborted" ELSE "open"]
  /\ UNCHANGED <<panicked, tables, engine>>

\* The app gave up, or the stack is closed: Complete(true).
CreateEndpointFails(h) ==
  /\ Goto(h, "create", "done")
  /\ inFlight' = inFlight \ {run[h].flow}
  /\ UNCHANGED <<panicked, conns, activeConns, snap, engine>>

\* Mutant: the request is never completed.
CompleteForgotten(h) ==
  /\ Goto(h, "complete", "validate")
  /\ UNCHANGED <<panicked, tables, engine>>

\* Complete(false)
Complete(h) ==
  /\ Goto(h, "complete", "validate")
  /\ inFlight' = inFlight \ {run[h].flow}
  /\ UNCHANGED <<panicked, conns, activeConns, snap, engine>>

ValidateAllows(h) ==
  Goto(h, "validate", "dial") /\ UNCHANGED <<panicked, tables, engine>>

ValidateDenies(h) ==
  GotoClosing(h, "validate", "done") /\ UNCHANGED <<panicked, tables, engine>>

\* The callback panics: recover() runs, nothing closes gonetConn.
ValidatePanics(h) ==
  /\ Goto(h, "validate", "done")
  /\ panicked' = panicked \cup {h}
  /\ UNCHANGED <<tables, engine>>

\* Mutant: the dial does not use ctx.
DialIgnoresCtx(h) ==
  /\ run[h].pc = "dial"
  /\ run' = [run EXCEPT ![h].pc = "handshake", ![h].proxy = "open"]
  /\ UNCHANGED <<panicked, tables, engine>>

\* DialTCP up to the TCP connection: DialContext watches ctx.
DialContext(h) ==
  /\ run[h].pc = "dial"
  /\ ~ctxDone
  /\ run' = [run EXCEPT ![h].pc = "handshake", ![h].proxy = "open"]
  /\ UNCHANGED <<panicked, tables, engine>>

DialFails(h) ==
  GotoClosing(h, "dial", "done") /\ UNCHANGED <<panicked, tables, engine>>

\* The rest of DialTCP, bounded by handshakeTimeout; ctx is not watched.
ConnectOK(h) ==
  Goto(h, "handshake", "track") /\ UNCHANGED <<panicked, tables, engine>>

\* Mutant: a refused CONNECT leaves the proxy connection open.
ConnectFailsOpen(h) ==
  GotoClosing(h, "handshake", "done") /\ UNCHANGED <<panicked, tables, engine>>

ConnectFails(h) ==
  /\ run[h].pc = "handshake"
  /\ run' = [run EXCEPT ![h].pc = "done", ![h].ep = "closed", ![h].proxy = "closed"]
  /\ UNCHANGED <<panicked, tables, engine>>

trackConn(h) ==
  /\ Goto(h, "track", "count")
  /\ conns' = conns \cup {h}
  /\ UNCHANGED <<panicked, inFlight, activeConns, snap, engine>>

\* activeConns.Add(1) and the goroutine that runs pipeConnections.
StartPipe(h) ==
  /\ Goto(h, "count", "pipe")
  /\ activeConns' = activeConns + 1
  /\ UNCHANGED <<panicked, inFlight, conns, snap, engine>>

\* The app's FIN, or the local close of the gVisor end, which reads the same: it is
\* passed on as a half-close, and only the goroutine that reads upstream remains.
PipeHalfCloses(h) ==
  /\ run[h].ep # "aborted"
  /\ Goto(h, "pipe", "half")
  /\ UNCHANGED <<panicked, tables, engine>>

\* pipeConnections returns, both ends closed.
PipeReturns(h) ==
  /\ run[h].pc \in {"pipe", "half"}
  /\ run' = [run EXCEPT ![h].pc = "untrack", ![h].ep = "closed", ![h].proxy = "closed"]
  /\ UNCHANGED <<panicked, tables, engine>>

\* Mutant: the deferred activeConns.Add(-1) is missing.
untrackConnOnly(h) ==
  /\ Goto(h, "untrack", "done")
  /\ conns' = conns \ {h}
  /\ UNCHANGED <<panicked, inFlight, activeConns, snap, engine>>

\* The deferred calls run last in, first out.
untrackConn(h) ==
  /\ Goto(h, "untrack", "uncount")
  /\ conns' = conns \ {h}
  /\ UNCHANGED <<panicked, inFlight, activeConns, snap, engine>>

Uncount(h) ==
  /\ Goto(h, "uncount", "done")
  /\ activeConns' = activeConns - 1
  /\ UNCHANGED <<panicked, inFlight, conns, snap, engine>>

-----------------------------------------------------------------------------
(* CloseAllConnections, TCP half: it may also run on an engine that is being
   stopped, since the API reads t.engine before it calls.                   *)

CloseAllSnapshot ==
  /\ snap = {}
  /\ snap' = conns
  /\ UNCHANGED <<run, panicked, inFlight, conns, activeConns, engine>>

\* tc.app.Close(); an endpoint that stack.Close() has aborted keeps its error.
CloseAllCloses(h) ==
  /\ h \in snap
  /\ snap' = snap \ {h}
  /\ run' = [run EXCEPT ![h].ep = IF @ = "aborted" THEN @ ELSE "closed"]
  /\ UNCHANGED <<panicked, inFlight, conns, activeConns, engine>>

-----------------------------------------------------------------------------
(* Engine.Stop, as far as the connections see it.                          *)

StopCancels ==
  /\ phase = "running" /\ phase' = "cancelled"
  /\ UNCHANGED <<run, panicked, tables, reader>>

\* close(e.stopCh) and tunFile.Close().
StopClosesTun ==
  /\ phase = "cancelled" /\ phase' = "tunClosed"
  /\ UNCHANGED <<run, panicked, tables, reader>>

ReaderExits ==
  /\ phase \in {"tunClosed", "stackClosed"}
  /\ reader /\ reader' = FALSE
  /\ UNCHANGED <<run, panicked, tables, phase>>

\* Mutant: the stack is not closed.
StopForgetsStack ==
  /\ phase = "tunClosed" /\ phase' = "stackClosed"
  /\ UNCHANGED <<run, panicked, tables, reader>>

\* stack.Close() aborts the endpoints that are registered at that moment.
StopClosesStack ==
  /\ phase = "tunClosed" /\ phase' = "stackClosed"
  /\ run' = [h \in Handlers |->
               IF run[h].ep = "open" THEN [run[h] EXCEPT !.ep = "aborted"] ELSE run[h]]
  /\ UNCHANGED <<panicked, tables, reader>>

-----------------------------------------------------------------------------
handleTCPForwarder(h) ==
  \/ CreateEndpoint(h) \/ CreateEndpointFails(h) \/ Complete(h)
  \/ ValidateAllows(h) \/ ValidateDenies(h) \/ ValidatePanics(h)
  \/ DialContext(h) \/ DialFails(h) \/ ConnectOK(h) \/ ConnectFails(h)
  \/ trackConn(h) \/ StartPipe(h) \/ untrackConn(h) \/ Uncount(h)

Next ==
  \/ \E h \in Handlers : \/ handleTCPForwarder(h)
                         \/ PipeHalfCloses(h) \/ PipeReturns(h)
                         \/ CloseAllCloses(h)
                         \/ \E f \in Flows : Admit(f, h)
  \/ CloseAllSnapshot
  \/ StopCancels \/ StopClosesTun \/ ReaderExits \/ StopClosesStack

Spec == Init /\ [][Next]_vars

\* The goroutine that reads a gVisor end which is gone notices, once its write
\* deadline lets go of it: an abort is an error and ends the pipe, a local close is
\* EOF and half-closes it.
GoneEndNoticed(h) ==
  /\ run[h].pc = "pipe" /\ run[h].ep # "open"
  /\ PipeHalfCloses(h) \/ PipeReturns(h)

\* Goroutines run; gVisor's handshake, the validator and DialTCP come to an end
\* (dialTimeout, handshakeTimeout).  New SYNs, calls of the API, the end of a
\* healthy connection and that of a half-closed one are not assumed.
Fairness ==
  /\ \A h \in Handlers : WF_vars(handleTCPForwarder(h)) /\ WF_vars(GoneEndNoticed(h))
  /\ WF_vars(ReaderExits) /\ WF_vars(StopClosesTun) /\ WF_vars(StopClosesStack)

FairSpec == Spec /\ Fairness

-----------------------------------------------------------------------------
(* Properties.                                                             *)

\* Every variable of the connections keeps its type.
TypeOK ==
  /\ run \in [Handlers -> [pc : Live \cup {"new", "done"}, flow : Flows \cup {NoFlow},
                           ep : {"none", "open", "aborted", "closed"},
                           proxy : {"none", "open", "closed"}]]
  /\ panicked \subseteq Handlers /\ conns \subseteq Handlers /\ snap \subseteq Handlers
  /\ inFlight \subseteq Flows
  /\ activeConns \in Nat
  /\ reader \in BOOLEAN
  /\ phase \in {"running", "cancelled", "tunClosed", "stackClosed"}

\* A retransmitted SYN never launches a second handler for a flow that has one:
\* the request stays in the inFlight table until gVisor has the endpoint, so two
\* handlers never own endpoints of one flow.
OneHandlerPerFlow ==
  \A g, h \in Handlers :
    /\ g # h /\ run[g].flow = run[h].flow /\ run[g].flow # NoFlow
    /\ run[g].pc \in Pending \/ run[g].ep = "open"
    => run[h].pc \notin Pending /\ run[h].ep # "open"

\* activeConns and the conns table, which two steps keep on each side of a
\* connection's life, differ only by the handlers between those steps, so neither
\* drifts however many connections have come and gone.
CountMatchesTable ==
  /\ conns = At({"count", "pipe", "half", "untrack"})
  /\ activeConns = Cardinality(conns) - Cardinality(At({"count"}))
                     + Cardinality(At({"uncount"}))

\* A handler that has ended has left nothing behind: the proxy connection is closed,
\* it is in neither table, and its endpoint is closed unless the validator panicked.
NothingLeftBehind ==
  \A h \in Handlers : run[h].pc = "done" =>
    /\ run[h].proxy # "open"
    /\ h \notin conns
    /\ run[h].ep = "open" => h \in panicked

\* Each handler dials the proxy as ProxyDial, which Socks5 implements, allows: it
\* connects no dial once the context is done, and owns an open proxy connection
\* exactly from the connect to the failure of the dial or the end of the pipe.
DialStage(h) ==
  LET pc == run[h].pc IN
  IF pc \in {"dial", "handshake"} THEN pc
  ELSE IF pc \in {"track", "count", "pipe", "half"} THEN "established"
  ELSE IF pc \in {"untrack", "uncount", "done"} THEN "over" ELSE "idle"
Dials == INSTANCE ProxyDial WITH
           Calls <- Handlers,
           stage <- [h \in Handlers |-> DialStage(h)],
           sockets <- [h \in Handlers |-> run[h].proxy]
DialsAsPromised == Dials!Spec

\* engine.go:592 "after maxInFlight (1024) leaked entries gVisor silently drops
\* every new SYN": the forwarder is never full for good.
AdmissionRecovers == []<>(Cardinality(inFlight) < MaxInFlight)

\* After Stop nothing is left of the TCP side without the help of app, proxy or idle
\* check, but connections that were half-closed before, by the app or by
\* CloseAllConnections: stack.Close() does not reach the goroutine that waits for
\* their upstream (TcpPipe's IdleBound does).  A connection whose handshake with the
\* proxy ends only after Stop, and which is piped then, ends like the others.
StopDrains ==
  (phase = "stackClosed") ~>
    [](At(Live) \subseteq At({"half"}) /\ activeConns = Cardinality(At({"half"})))
=============================================================================
