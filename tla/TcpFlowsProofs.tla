--------------------------- MODULE TcpFlowsProofs ---------------------------
(***************************************************************************)
(* Proofs about TcpFlows, for any number of flows, handlers and pending    *)
(* requests: flows have one handler, the tables agree, nothing is left     *)
(* behind, and the handlers dial as ProxyDial allows.                      *)
(***************************************************************************)
EXTENDS TcpFlows, FiniteSetTheorems, TLAPS

Record == [pc : Live \cup {"new", "done"}, flow : Flows \cup {NoFlow},
           ep : {"none", "open", "aborted", "closed"}, proxy : {"none", "open", "closed"}]

(* What a handler holds at each step of handleTCPForwarder.                 *)
Holds(h) ==
  LET r == run[h] IN
  /\ r.pc = "new" <=> r.flow = NoFlow
  /\ r.pc \in {"new", "create"} => r.ep = "none"
  /\ r.pc \in {"new", "create", "complete", "validate", "dial"} => r.proxy = "none"
  /\ r.pc \in {"handshake", "track", "count", "pipe", "half"} <=> r.proxy = "open"
  /\ r.pc \in {"untrack", "uncount"} => r.ep = "closed"
  /\ r.pc = "done" /\ r.ep = "open" => h \in panicked
  /\ h \in snap => r.pc \in {"count", "done"} \cup Piped

(* The pending requests are those of the handlers that have not completed
   theirs, and conns holds the handlers between trackConn and untrackConn.  *)
Tables ==
  /\ inFlight = {run[h].flow : h \in At(Pending)}
  /\ conns = At({"count", "pipe", "half", "untrack"})

(* activeConns counts the pipe goroutines.                                  *)
Counted == /\ IsFiniteSet(At({"count"} \cup Piped))
           /\ activeConns = Cardinality(At(Piped))

Types == /\ run \in [Handlers -> Record]
         /\ panicked \subseteq Handlers /\ snap \subseteq Handlers
         /\ reader \in BOOLEAN
         /\ phase \in {"running", "cancelled", "tunClosed", "stackClosed"}

Inv == /\ Types
       /\ \A h \in Handlers : Holds(h)
       /\ OneHandlerPerFlow
       /\ Tables
       /\ Counted

-----------------------------------------------------------------------------
(* The steps of one handler.                                               *)

\* What changes outside a handler's own run is its entry in a table.
HandlerStep(h) ==
  \/ handleTCPForwarder(h) \/ PipeHalfCloses(h) \/ PipeReturns(h) \/ CloseAllCloses(h)
  \/ \E f \in Flows : Admit(f, h)

\* A handler's step changes its own run and nobody else's.
LEMMA OwnRun ==
  ASSUME Types, NEW h \in Handlers, HandlerStep(h)
  PROVE  /\ run'[h] \in Record
         /\ run' = [run EXCEPT ![h] = run'[h]]
         /\ Types' /\ UNCHANGED engine /\ snap' \subseteq snap
<1>1. run[h] \in Record
  BY DEF Types
<1>2. \E r \in Record : run' = [run EXCEPT ![h] = r]
  <2>1. CASE CreateEndpoint(h)
    <3>1. PICK ep \in {"open", "aborted"} :
            run' = [run EXCEPT ![h].pc = "complete", ![h].ep = ep]
      BY <2>1 DEF CreateEndpoint
    <3>2. run' = [run EXCEPT ![h] = [run[h] EXCEPT !.pc = "complete", !.ep = ep]]
      BY <3>1 DEF Types
    <3>3. [run[h] EXCEPT !.pc = "complete", !.ep = ep] \in Record
      BY <1>1 DEF Record, Live, Pending
    <3> QED
      BY <3>2, <3>3
  <2>2. CASE \/ CreateEndpointFails(h) \/ Complete(h) \/ ValidateAllows(h)
             \/ ValidatePanics(h) \/ ConnectOK(h) \/ trackConn(h) \/ StartPipe(h)
             \/ untrackConn(h) \/ Uncount(h) \/ PipeHalfCloses(h)
    <3>1. PICK m \in Live \cup {"done"} : run' = [run EXCEPT ![h].pc = m]
      BY <2>2 DEF CreateEndpointFails, Complete, ValidateAllows, ConnectOK, trackConn,
         StartPipe, untrackConn, Uncount, ValidatePanics, PipeHalfCloses, Goto, Live, Piped
    <3>2. run' = [run EXCEPT ![h] = [run[h] EXCEPT !.pc = m]]
      BY <3>1 DEF Types
    <3>3. [run[h] EXCEPT !.pc = m] \in Record
      BY <1>1 DEF Record
    <3> QED
      BY <3>2, <3>3
  <2>3. CASE ValidateDenies(h) \/ DialFails(h)
    <3>1. run' = [run EXCEPT ![h] = [run[h] EXCEPT !.pc = "done", !.ep = "closed"]]
      BY <2>3 DEF ValidateDenies, DialFails, GotoClosing, Types
    <3>2. [run[h] EXCEPT !.pc = "done", !.ep = "closed"] \in Record
      BY <1>1 DEF Record
    <3> QED
      BY <3>1, <3>2
  <2>4. CASE DialContext(h)
    <3>1. run' = [run EXCEPT ![h] = [run[h] EXCEPT !.pc = "handshake", !.proxy = "open"]]
      BY <2>4 DEF DialContext, Types
    <3>2. [run[h] EXCEPT !.pc = "handshake", !.proxy = "open"] \in Record
      BY <1>1 DEF Record, Live
    <3> QED
      BY <3>1, <3>2
  <2>5. CASE ConnectFails(h) \/ PipeReturns(h)
    <3>1. PICK m \in {"done", "untrack"} :
            run' = [run EXCEPT ![h] = [run[h] EXCEPT !.pc = m, !.ep = "closed",
                                                     !.proxy = "closed"]]
      BY <2>5 DEF ConnectFails, PipeReturns, Types
    <3>2. [run[h] EXCEPT !.pc = m, !.ep = "closed", !.proxy = "closed"] \in Record
      BY <1>1 DEF Record, Live, Piped
    <3> QED
      BY <3>1, <3>2
  <2>6. CASE CloseAllCloses(h)
    <3>1. PICK ep \in {"aborted", "closed"} : run' = [run EXCEPT ![h].ep = ep]
      BY <2>6 DEF CloseAllCloses, Types
    <3>2. run' = [run EXCEPT ![h] = [run[h] EXCEPT !.ep = ep]]
      BY <3>1 DEF Types
    <3>3. [run[h] EXCEPT !.ep = ep] \in Record
      BY <1>1 DEF Record
    <3> QED
      BY <3>2, <3>3
  <2>7. ASSUME NEW f \in Flows, Admit(f, h)
        PROVE  \E r \in Record : run' = [run EXCEPT ![h] = r]
    <3>1. run' = [run EXCEPT ![h] = [run[h] EXCEPT !.pc = "create", !.flow = f]]
      BY <2>7 DEF Admit, Types
    <3>2. [run[h] EXCEPT !.pc = "create", !.flow = f] \in Record
      BY <1>1 DEF Record, Live, Pending
    <3> QED
      BY <3>1, <3>2
  <2> QED
    BY <2>1, <2>2, <2>3, <2>4, <2>5, <2>6, <2>7 DEF HandlerStep, handleTCPForwarder
<1>3. UNCHANGED engine /\ panicked' \subseteq Handlers /\ snap' \subseteq snap
  BY DEF HandlerStep, handleTCPForwarder, CreateEndpoint, CreateEndpointFails, Complete,
     ValidateAllows, ValidateDenies, ValidatePanics, DialContext, DialFails, ConnectOK,
     ConnectFails, trackConn, StartPipe, untrackConn, Uncount, PipeHalfCloses, PipeReturns,
     CloseAllCloses, Admit, Goto, GotoClosing, tables, Types
<1>4. PICK r \in Record : run' = [run EXCEPT ![h] = r]
  BY <1>2
<1>5. run' \in [Handlers -> Record] /\ run'[h] = r
  BY <1>4 DEF Types
<1>6. Types'
  BY <1>3, <1>5 DEF Types, engine
<1> QED
  BY <1>3, <1>4, <1>5, <1>6

\* At each step of its life a handler holds what that step accounts for.
LEMMA HoldsStep ==
  ASSUME Types, \A g \in Handlers : Holds(g), NEW h \in Handlers, HandlerStep(h)
  PROVE  \A g \in Handlers : Holds(g)'
<1>1. run \in [Handlers -> Record] /\ run'[h] \in Record /\ Holds(h)
  BY OwnRun DEF Types
<1>2. ASSUME NEW g \in Handlers, g # h PROVE Holds(g)'
  <2>1. run'[g] = run[g] /\ snap' \subseteq snap /\ (g \in panicked => g \in panicked')
    BY <1>2, OwnRun DEF HandlerStep, handleTCPForwarder, CreateEndpoint,
       CreateEndpointFails, Complete, ValidateAllows, ValidateDenies, ValidatePanics,
       DialContext, DialFails, ConnectOK, ConnectFails, trackConn, StartPipe, untrackConn,
       Uncount, PipeHalfCloses, PipeReturns, CloseAllCloses, Admit, Goto, GotoClosing, Types
  <2> QED
    BY <2>1 DEF Holds
<1>3. Holds(h)'
  <2>1. CASE CreateEndpoint(h)
    <3>1. PICK ep \in {"open", "aborted"} :
            run' = [run EXCEPT ![h].pc = "complete", ![h].ep = ep]
      BY <2>1 DEF CreateEndpoint
    <3>2. run[h].pc = "create" /\ UNCHANGED <<panicked, snap>>
      BY <2>1 DEF CreateEndpoint, tables
    <3> QED
      BY <1>1, <3>1, <3>2 DEF Holds, Record, Piped
  <2>2. CASE CreateEndpointFails(h) \/ Complete(h) \/ ValidateAllows(h) \/ ConnectOK(h)
    BY <1>1, <2>2 DEF CreateEndpointFails, Complete, ValidateAllows, ConnectOK, Goto, Holds,
       Record, Piped, tables
  <2>3. CASE ValidateDenies(h) \/ ValidatePanics(h) \/ DialFails(h)
    BY <1>1, <2>3 DEF ValidateDenies, ValidatePanics, DialFails, Goto, GotoClosing, Holds,
       Record, Piped, tables
  <2>4. CASE DialContext(h) \/ ConnectFails(h)
    BY <1>1, <2>4 DEF DialContext, ConnectFails, Holds, Record, Piped, tables
  <2>5. CASE trackConn(h) \/ StartPipe(h) \/ untrackConn(h) \/ Uncount(h)
    BY <1>1, <2>5 DEF trackConn, StartPipe, untrackConn, Uncount, Goto, Holds, Record, Piped
  <2>6. CASE PipeReturns(h) \/ PipeHalfCloses(h)
    BY <1>1, <2>6 DEF PipeReturns, PipeHalfCloses, Goto, Holds, Record, Piped, tables
  <2>7. CASE CloseAllCloses(h)
    <3>1. PICK ep \in {"aborted", "closed"} :
            run' = [run EXCEPT ![h].ep = ep] /\ (run[h].ep = "closed" => ep = "closed")
      BY <2>7 DEF CloseAllCloses, Types
    <3>2. h \in snap /\ UNCHANGED panicked /\ h \notin snap'
      BY <2>7 DEF CloseAllCloses
    <3>3. /\ run'[h].pc = run[h].pc /\ run'[h].flow = run[h].flow
          /\ run'[h].proxy = run[h].proxy /\ run'[h].ep = ep
      BY <1>1, <3>1 DEF Record
    <3>4. run[h].pc \in {"count", "done"} \cup Piped
      BY <1>1, <3>2 DEF Holds
    <3>5. ep # "open" /\ run'[h].pc \notin {"new", "create"}
      BY <3>3, <3>4 DEF Piped
    <3> QED
      BY <1>1, <3>1, <3>2, <3>3, <3>5 DEF Holds
  <2>8. ASSUME NEW f \in Flows, Admit(f, h) PROVE Holds(h)'
    BY <1>1, <2>8, TcpAssumption DEF Admit, Holds, Record, Piped
  <2> QED
    BY <2>1, <2>2, <2>3, <2>4, <2>5, <2>6, <2>7, <2>8 DEF HandlerStep, handleTCPForwarder
<1> QED
  BY <1>2, <1>3

\* A handler owns its flow while its request is pending or gVisor has its endpoint;
\* ownership begins in Admit, which looks for another owner in both places.
LEMMA OwnersStep ==
  ASSUME Types, \A g \in Handlers : Holds(g), OneHandlerPerFlow, Tables,
         NEW h \in Handlers, HandlerStep(h)
  PROVE  OneHandlerPerFlow'
<1> DEFINE Owns(g) == run[g].pc \in Pending \/ run[g].ep = "open"
<1>1. run \in [Handlers -> Record] /\ run' = [run EXCEPT ![h] = run'[h]]
  BY OwnRun DEF Types
<1>2. \A g, k \in Handlers :
        g # k /\ run[g].flow = run[k].flow /\ run[g].flow # NoFlow => ~Owns(g) \/ ~Owns(k)
  BY DEF OneHandlerPerFlow
<1>3. CASE \E f \in Flows : Admit(f, h)
  <2>1. PICK f \in Flows : Admit(f, h)
    BY <1>3
  <2>2. run'[h].flow = f
    BY <1>1, <2>1 DEF Admit, Record
  <2>3. \A g \in Handlers : run[g].flow = f => ~Owns(g)
    BY <2>1 DEF Admit, Registered, Tables, At
  <2>4. \A g \in Handlers \ {h} : run'[g] = run[g]
    BY <1>1
  <2> QED
    BY <1>2, <2>2, <2>3, <2>4 DEF OneHandlerPerFlow
<1>4. CASE ~\E f \in Flows : Admit(f, h)
  <2>1. /\ run'[h].flow = run[h].flow
        /\ run'[h].pc \in Pending => run[h].pc \in Pending
        /\ run'[h].ep = "open" => Owns(h)
    BY <1>1, <1>4 DEF HandlerStep, handleTCPForwarder, CreateEndpoint,
       CreateEndpointFails, Complete, ValidateAllows, ValidateDenies, ValidatePanics,
       DialContext, DialFails, ConnectOK, ConnectFails, trackConn, StartPipe, untrackConn,
       Uncount, PipeHalfCloses, PipeReturns, CloseAllCloses, Goto, GotoClosing, Pending,
       Record, Types
  <2>2. \A g \in Handlers \ {h} : run'[g] = run[g]
    BY <1>1
  <2>3. \A g \in Handlers : /\ run'[g].flow = run[g].flow
                            /\ run'[g].pc \in Pending \/ run'[g].ep = "open" => Owns(g)
    BY <2>1, <2>2
  <2> HIDE DEF Owns
  <2> QED
    BY <1>2, <2>3 DEF OneHandlerPerFlow
<1> QED
  BY <1>3, <1>4

\* A handler's step moves at most itself into or out of a set of steps.
LEMMA AtStep ==
  ASSUME Types, NEW h \in Handlers, HandlerStep(h), NEW CONSTANT S
  PROVE  At(S)' = IF run'[h].pc \in S THEN At(S) \cup {h} ELSE At(S) \ {h}
<1>1. run \in [Handlers -> Record] /\ run' = [run EXCEPT ![h] = run'[h]]
  BY OwnRun DEF Types
<1> QED
  BY <1>1 DEF At

\* inFlight and conns follow the handlers: Complete removes the request of the one
\* handler that has it.
LEMMA TablesStep ==
  ASSUME Types, \A g \in Handlers : Holds(g), OneHandlerPerFlow, Tables,
         NEW h \in Handlers, HandlerStep(h)
  PROVE  Tables'
<1>1. run \in [Handlers -> Record] /\ run' = [run EXCEPT ![h] = run'[h]]
  BY OwnRun DEF Types
<1>2. \A g \in Handlers \ {h} : run'[g] = run[g]
  BY <1>1
<1>3. inFlight' = {run'[k].flow : k \in At(Pending)'}
  <2> DEFINE P == At(Pending)
  <2>0. P' = IF run'[h].pc \in Pending THEN P \cup {h} ELSE P \ {h}
    BY AtStep
  <2>1. CASE \E f \in Flows : Admit(f, h)
    <3>1. PICK f \in Flows : Admit(f, h)
      BY <2>1
    <3>2. /\ run'[h].flow = f /\ run'[h].pc \in Pending
          /\ inFlight' = inFlight \cup {f} /\ run[h].pc = "new"
      BY <1>1, <3>1 DEF Admit, Record, Pending
    <3>3. P' = P \cup {h} /\ h \notin P /\ P \subseteq Handlers
      BY <2>0, <3>2 DEF At, Pending
    <3> QED
      BY <1>2, <3>2, <3>3 DEF Tables
  <2>2. CASE Complete(h) \/ CreateEndpointFails(h)
    <3>1. /\ run[h].pc \in Pending /\ run'[h].pc \notin Pending
          /\ inFlight' = inFlight \ {run[h].flow}
      BY <1>1, <2>2 DEF Complete, CreateEndpointFails, Goto, Pending, Record
    <3>2. run[h].flow # NoFlow
      BY <3>1 DEF Holds, Pending
    <3>3. \A g \in P \ {h} : run[g].flow # run[h].flow
      BY <3>1, <3>2 DEF OneHandlerPerFlow, At
    <3>4. P' = P \ {h} /\ h \in P
      BY <2>0, <3>1 DEF At
    <3>5. P \subseteq Handlers
      BY DEF At
    <3> QED
      BY <1>2, <3>1, <3>3, <3>4, <3>5 DEF Tables
  <2>3. CASE CreateEndpoint(h)
    <3>1. /\ run[h].pc = "create" /\ UNCHANGED inFlight
          /\ run'[h].pc = "complete" /\ run'[h].flow = run[h].flow
      BY <1>1, <2>3 DEF CreateEndpoint, tables, Record
    <3>2. P' = P /\ P \subseteq Handlers
      BY <2>0, <3>1 DEF At, Pending
    <3> QED
      BY <1>2, <3>1, <3>2 DEF Tables
  <2>4. CASE \/ ValidateAllows(h) \/ ValidateDenies(h) \/ ValidatePanics(h)
             \/ DialContext(h) \/ DialFails(h) \/ ConnectOK(h) \/ ConnectFails(h)
             \/ trackConn(h) \/ StartPipe(h) \/ untrackConn(h) \/ Uncount(h)
             \/ PipeHalfCloses(h) \/ PipeReturns(h) \/ CloseAllCloses(h)
    <3>1. /\ run[h].pc \notin Pending /\ run'[h].pc \notin Pending /\ UNCHANGED inFlight
      BY <1>1, <2>4 DEF ValidateAllows, ValidateDenies, ValidatePanics, DialContext,
         DialFails, ConnectOK, ConnectFails, trackConn, StartPipe, untrackConn, Uncount,
         PipeHalfCloses, PipeReturns, CloseAllCloses, Goto, GotoClosing, tables, Pending,
         Record, Holds, Piped
    <3>2. P' = P /\ h \notin P /\ P \subseteq Handlers
      BY <2>0, <3>1 DEF At
    <3> QED
      BY <1>2, <3>1, <3>2 DEF Tables
  <2> QED
    BY <2>1, <2>2, <2>3, <2>4 DEF HandlerStep, handleTCPForwarder
<1>4. (conns = At({"count", "pipe", "half", "untrack"}))'
  <2> DEFINE T == {"count", "pipe", "half", "untrack"}
  <2>1. At(T)' = IF run'[h].pc \in T THEN At(T) \cup {h} ELSE At(T) \ {h}
    BY AtStep
  <2>2. CASE trackConn(h)
    BY <1>1, <2>1, <2>2 DEF trackConn, Goto, Tables, Record
  <2>3. CASE untrackConn(h)
    BY <1>1, <2>1, <2>3 DEF untrackConn, Goto, Tables, Record
  <2>4. CASE ~trackConn(h) /\ ~untrackConn(h)
    <3>1. conns' = conns /\ (run'[h].pc \in T <=> run[h].pc \in T)
      BY <1>1, <2>4 DEF HandlerStep, handleTCPForwarder, CreateEndpoint,
         CreateEndpointFails, Complete, ValidateAllows, ValidateDenies, ValidatePanics,
         DialContext, DialFails, ConnectOK, ConnectFails, StartPipe, Uncount, PipeHalfCloses,
         PipeReturns, CloseAllCloses, Admit, Goto, GotoClosing, tables, Record
    <3> QED
      BY <2>1, <3>1 DEF Tables, At
  <2> QED
    BY <2>2, <2>3, <2>4
<1> QED
  BY <1>3, <1>4 DEF Tables

\* StartPipe and Uncount are the only steps that move a handler into or out of Piped.
LEMMA CountedStep ==
  ASSUME Types, Counted, NEW h \in Handlers, HandlerStep(h)
  PROVE  Counted'
<1> DEFINE C == At({"count"} \cup Piped)
           P == At(Piped)
<1>1. run \in [Handlers -> Record] /\ run' = [run EXCEPT ![h] = run'[h]]
  BY OwnRun DEF Types
<1>2. C' = IF run'[h].pc \in {"count"} \cup Piped THEN C \cup {h} ELSE C \ {h}
  BY AtStep
<1>3. P' = IF run'[h].pc \in Piped THEN P \cup {h} ELSE P \ {h}
  BY AtStep
<1>4. IsFiniteSet(C')
  <2>1. IsFiniteSet(C)
    BY DEF Counted
  <2>2. IsFiniteSet(C \cup {h}) /\ IsFiniteSet(C \ {h})
    BY <2>1, FS_AddElement, FS_RemoveElement
  <2> QED
    BY <1>2, <2>2
<1>5. IsFiniteSet(P)
  BY FS_Subset DEF Counted, At
<1>6. CASE StartPipe(h)
  <2>1. h \notin P /\ P' = P \cup {h} /\ activeConns' = activeConns + 1
    BY <1>1, <1>3, <1>6 DEF StartPipe, Goto, Piped, At, Record
  <2> QED
    BY <1>4, <1>5, <2>1, FS_AddElement DEF Counted
<1>7. CASE Uncount(h)
  <2>1. h \in P /\ P' = P \ {h} /\ activeConns' = activeConns - 1
    BY <1>1, <1>3, <1>7 DEF Uncount, Goto, Piped, At, Record
  <2> QED
    BY <1>4, <1>5, <2>1, FS_RemoveElement DEF Counted
<1>8. CASE ~StartPipe(h) /\ ~Uncount(h)
  <2>1. activeConns' = activeConns /\ (run'[h].pc \in Piped <=> run[h].pc \in Piped)
    BY <1>1, <1>8 DEF HandlerStep, handleTCPForwarder, CreateEndpoint,
       CreateEndpointFails, Complete, ValidateAllows, ValidateDenies, ValidatePanics,
       DialContext, DialFails, ConnectOK, ConnectFails, trackConn, untrackConn,
       PipeHalfCloses, PipeReturns, CloseAllCloses, Admit, Goto, GotoClosing, tables, Record,
       Piped
  <2>2. P' = P
    BY <1>3, <2>1 DEF At
  <2> QED
    BY <1>4, <2>1, <2>2 DEF Counted
<1> QED
  BY <1>6, <1>7, <1>8

-----------------------------------------------------------------------------
(* The invariant.                                                          *)

\* Before the first SYN nobody holds anything.
LEMMA InitInv == Init => Inv
<1> SUFFICES ASSUME Init PROVE Inv
  OBVIOUS
<1>1. Types
  BY DEF Init, Types, Record
<1>2. \A h \in Handlers : Holds(h)
  BY DEF Init, Holds, Piped
<1>3. OneHandlerPerFlow
  BY DEF Init, OneHandlerPerFlow
<1>4. \A S : "new" \notin S => At(S) = {}
  BY DEF Init, At
<1>5. At(Pending) = {} /\ At({"count", "pipe", "half", "untrack"}) = {}
      /\ At({"count"} \cup Piped) = {} /\ At(Piped) = {}
  BY <1>4 DEF Pending, Piped
<1>6. Tables /\ Counted
  BY <1>5, FS_EmptySet DEF Init, Tables, Counted
<1> QED
  BY <1>1, <1>2, <1>3, <1>6 DEF Inv

\* CloseAllConnections takes its snapshot of conns; Engine.Stop moves no handler, and
\* stack.Close() takes endpoints away.
LEMMA EngineInv ==
  ASSUME Inv,
         \/ CloseAllSnapshot \/ StopCancels \/ StopClosesTun \/ ReaderExits
         \/ StopClosesStack \/ UNCHANGED vars
  PROVE  Inv'
<1>1. CASE CloseAllSnapshot
  <2>1. UNCHANGED <<run, panicked, inFlight, conns, activeConns, engine>> /\ snap' = conns
    BY <1>1 DEF CloseAllSnapshot
  <2>2. \A h \in Handlers : Holds(h)'
    BY <2>1 DEF Inv, Holds, Tables, At, Piped
  <2>3. Types'
    BY <2>1 DEF Inv, Types, engine, Tables, At
  <2> QED
    BY <2>1, <2>2, <2>3 DEF Inv, OneHandlerPerFlow, Tables, Counted, At
<1>2. CASE StopCancels \/ StopClosesTun \/ ReaderExits \/ UNCHANGED vars
  <2>1. UNCHANGED <<run, panicked, tables>>
    BY <1>2 DEF StopCancels, StopClosesTun, ReaderExits, vars
  <2>2. Types'
    BY <1>2 DEF StopCancels, StopClosesTun, ReaderExits, vars, Inv, Types, tables, engine
  <2> QED
    BY <2>1, <2>2 DEF Inv, Holds, OneHandlerPerFlow, Tables, Counted, At, tables
<1>3. CASE StopClosesStack
  <2>1. UNCHANGED <<panicked, tables, reader>> /\ phase' = "stackClosed"
    BY <1>3 DEF StopClosesStack
  <2>2. \A h \in Handlers :
          /\ run'[h] \in Record
          /\ run'[h].pc = run[h].pc /\ run'[h].flow = run[h].flow
          /\ run'[h].proxy = run[h].proxy
          /\ run'[h].ep = run[h].ep \/ (run[h].ep = "open" /\ run'[h].ep = "aborted")
    <3> TAKE h \in Handlers
    <3>1. \/ run'[h] = run[h]
          \/ run[h].ep = "open" /\ run'[h] = [run[h] EXCEPT !.ep = "aborted"]
      BY <1>3 DEF StopClosesStack
    <3>2. run[h] \in Record
      BY DEF Inv, Types
    <3> QED
      BY <3>1, <3>2 DEF Record
  <2>3. Types'
    BY <1>3, <2>1, <2>2 DEF StopClosesStack, Inv, Types, tables
  <2>4. \A h \in Handlers : Holds(h)'
    BY <2>1, <2>2 DEF Inv, Holds, tables, Piped
  <2>5. OneHandlerPerFlow'
    BY <2>2 DEF Inv, OneHandlerPerFlow
  <2>6. \A S : At(S)' = At(S)
    BY <2>2 DEF At
  <2>7. Tables' /\ Counted'
    <3>1. At(Pending)' = At(Pending) /\ At(Pending) \subseteq Handlers
      BY <2>6 DEF At
    <3>2. UNCHANGED <<inFlight, conns, activeConns>>
      BY <2>1 DEF tables
    <3> QED
      BY <2>2, <2>6, <3>1, <3>2 DEF Inv, Tables, Counted
  <2> QED
    BY <2>3, <2>4, <2>5, <2>7 DEF Inv
<1> QED
  BY <1>1, <1>2, <1>3

\* Every step preserves the invariant.
LEMMA NextInv == Inv /\ [Next]_vars => Inv'
<1> SUFFICES ASSUME Inv, [Next]_vars PROVE Inv'
  OBVIOUS
<1>1. ASSUME NEW h \in Handlers, HandlerStep(h) PROVE Inv'
  BY <1>1, OwnRun, HoldsStep, OwnersStep, TablesStep, CountedStep DEF Inv
<1> QED
  BY <1>1, EngineInv DEF Next, HandlerStep

\* The invariant holds in every state.
LEMMA FlowsInv == Spec => []Inv
<1> QED
  BY InitInv, NextInv, PTL DEF Spec

-----------------------------------------------------------------------------
(* What follows from it.                                                   *)

\* Every variable of the connections keeps its type: the types the invariant
\* carries, and the tables' from the handlers they are made of.
THEOREM FlowsTypesHold == Spec => []TypeOK
<1>1. Inv => TypeOK
  <2> SUFFICES ASSUME Inv PROVE TypeOK
    OBVIOUS
  <2>1. run \in [Handlers -> Record]
    BY DEF Inv, Types
  <2>2. inFlight \subseteq Flows
    BY <2>1 DEF Inv, Tables, Holds, At, Pending, Record
  <2>3. conns \subseteq Handlers
    BY DEF Inv, Tables, At
  <2>4. activeConns \in Nat
    <3>1. IsFiniteSet(At(Piped))
      BY FS_Subset DEF Inv, Counted, At
    <3> QED
      BY <3>1, FS_CardinalityType DEF Inv, Counted
  <2> QED
    BY <2>1, <2>2, <2>3, <2>4 DEF Inv, Types, TypeOK, Record
<1> QED
  BY <1>1, FlowsInv, PTL

\* However many SYNs are retransmitted, a flow has one handler.
THEOREM OneHandlerPerFlowHolds == Spec => []OneHandlerPerFlow
<1>1. Inv => OneHandlerPerFlow
  BY DEF Inv
<1> QED
  BY <1>1, FlowsInv, PTL

\* No slot of the forwarder is lost and none is freed twice: inFlight holds exactly
\* the flows of the handlers that have not completed their request.
THEOREM InFlightIsPending == Spec => [](inFlight = {run[h].flow : h \in At(Pending)})
<1>1. Inv => inFlight = {run[h].flow : h \in At(Pending)}
  BY DEF Inv, Tables
<1> QED
  BY <1>1, FlowsInv, PTL

\* activeConns and conns agree up to the handlers between the two steps that keep
\* them, after any number of connections.
THEOREM CountMatchesTableHolds == Spec => []CountMatchesTable
<1>1. Inv => CountMatchesTable
  <2> SUFFICES ASSUME Inv PROVE CountMatchesTable
    OBVIOUS
  <2> DEFINE B == At({"pipe", "half", "untrack"})
  <2>1. /\ At({"count"}) \subseteq At({"count"} \cup Piped)
        /\ B \subseteq At({"count"} \cup Piped)
        /\ At({"uncount"}) \subseteq At({"count"} \cup Piped)
    BY DEF At, Piped
  <2>2. IsFiniteSet(At({"count"})) /\ IsFiniteSet(B) /\ IsFiniteSet(At({"uncount"}))
    BY <2>1, FS_Subset DEF Inv, Counted
  <2>3. /\ conns = At({"count"}) \cup B /\ At({"count"}) \cap B = {}
        /\ At(Piped) = At({"uncount"}) \cup B /\ At({"uncount"}) \cap B = {}
    BY DEF Inv, Tables, At, Piped
  <2>4. /\ Cardinality(conns) = Cardinality(At({"count"})) + Cardinality(B)
        /\ activeConns = Cardinality(At({"uncount"})) + Cardinality(B)
    <3>1. \A S, T : IsFiniteSet(S) /\ IsFiniteSet(T) /\ S \cap T = {} =>
                     Cardinality(S \cup T) = Cardinality(S) + Cardinality(T)
      <4> SUFFICES ASSUME NEW S, NEW T, IsFiniteSet(S), IsFiniteSet(T), S \cap T = {}
                   PROVE  Cardinality(S \cup T) = Cardinality(S) + Cardinality(T)
        OBVIOUS
      <4>1. Cardinality(S) \in Nat /\ Cardinality(T) \in Nat
        BY FS_CardinalityType
      <4>2. Cardinality(S \cup T)
              = Cardinality(S) + Cardinality(T) - Cardinality(S \cap T)
        BY FS_Union
      <4>3. Cardinality(S \cap T) = 0
        BY FS_EmptySet
      <4> QED
        BY <4>1, <4>2, <4>3
    <3> QED
      BY <2>2, <2>3, <3>1 DEF Inv, Counted
  <2>5. /\ Cardinality(B) \in Nat /\ Cardinality(At({"count"})) \in Nat
        /\ Cardinality(At({"uncount"})) \in Nat
    BY <2>2, FS_CardinalityType
  <2> QED
    BY <2>4, <2>5 DEF Inv, Tables, CountMatchesTable
<1> QED
  BY <1>1, FlowsInv, PTL

\* Whichever way handleTCPForwarder ends, the proxy connection is closed, the tables
\* have forgotten the handler, and only a panic of the validator leaves an endpoint.
THEOREM NothingLeftBehindHolds == Spec => []NothingLeftBehind
<1>1. Inv => NothingLeftBehind
  BY DEF Inv, Holds, Tables, At, NothingLeftBehind
<1> QED
  BY <1>1, FlowsInv, PTL

-----------------------------------------------------------------------------
(* Refinement of ProxyDial.                                                *)

\* A handler's step is a step of its dial, or none.
LEMMA HandlerDials ==
  ASSUME Inv, NEW h \in Handlers, HandlerStep(h)
  PROVE  [Dials!Next]_(<<[g \in Handlers |-> DialStage(g)],
                         [g \in Handlers |-> run[g].proxy], ctxDone>>)
<1> DEFINE stage == [g \in Handlers |-> DialStage(g)]
           socks == [g \in Handlers |-> run[g].proxy]
<1>1. /\ run \in [Handlers -> Record] /\ run' = [run EXCEPT ![h] = run'[h]]
      /\ run'[h] \in Record
  BY OwnRun DEF Inv, Types
<1>2. ctxDone' = ctxDone
  BY OwnRun DEF Inv, ctxDone, engine
<1>3. \A g \in Handlers \ {h} : run'[g] = run[g]
  BY <1>1
<1>4. /\ stage' = [stage EXCEPT ![h] = DialStage(h)']
      /\ socks' = [socks EXCEPT ![h] = run'[h].proxy]
  BY <1>3 DEF DialStage
<1>5. stage[h] = DialStage(h) /\ socks[h] = run[h].proxy
  OBVIOUS
<1>6. ASSUME NEW from, NEW to, NEW socket,
             DialStage(h) = from, DialStage(h)' = to, run'[h].proxy = socket
      PROVE  Dials!Step(h, from, to, socket)
  BY <1>2, <1>4, <1>5, <1>6 DEF Dials!Step
<1>7. CASE \/ CreateEndpoint(h) \/ Complete(h) \/ trackConn(h) \/ StartPipe(h)
           \/ untrackConn(h) \/ Uncount(h) \/ PipeHalfCloses(h) \/ CloseAllCloses(h)
           \/ \E f \in Flows : Admit(f, h)
  <2>1. DialStage(h)' = DialStage(h) /\ run'[h].proxy = run[h].proxy
    BY <1>1, <1>7 DEF CreateEndpoint, Complete, trackConn, StartPipe, untrackConn, Uncount,
       PipeHalfCloses, CloseAllCloses, Admit, Goto, DialStage, Record
  <2> QED
    BY <1>2, <1>4, <2>1
<1>8. CASE \/ CreateEndpointFails(h) \/ ValidateAllows(h) \/ ValidateDenies(h)
           \/ ValidatePanics(h)
  <2>1. /\ DialStage(h) = "idle" /\ DialStage(h)' \in {"dial", "over"}
        /\ run'[h].proxy = "none"
    BY <1>1, <1>8 DEF CreateEndpointFails, ValidateAllows, ValidateDenies, ValidatePanics,
       Goto, GotoClosing, DialStage, Record, Inv, Holds
  <2>2. Dials!Begin(h)
    BY <1>6, <2>1 DEF Dials!Begin
  <2> QED
    BY <2>2 DEF Dials!Next
<1>9. CASE DialContext(h)
  <2>1. /\ DialStage(h) = "dial" /\ DialStage(h)' = "handshake"
        /\ run'[h].proxy = "open" /\ ~ctxDone
    BY <1>1, <1>9 DEF DialContext, DialStage, Record
  <2>2. Dials!Connected(h)
    BY <1>6, <2>1 DEF Dials!Connected
  <2> QED
    BY <2>2 DEF Dials!Next
<1>10. CASE DialFails(h) \/ ConnectFails(h)
  <2>1. /\ DialStage(h)' = "over"
        /\ \/ DialStage(h) = "dial" /\ run'[h].proxy = "none"
           \/ DialStage(h) = "handshake" /\ run'[h].proxy = "closed"
    BY <1>1, <1>10 DEF DialFails, ConnectFails, GotoClosing, DialStage, Record, Inv, Holds
  <2>2. Dials!Fails(h)
    BY <1>6, <2>1 DEF Dials!Fails
  <2> QED
    BY <2>2 DEF Dials!Next
<1>11. CASE ConnectOK(h)
  <2>1. /\ DialStage(h) = "handshake" /\ DialStage(h)' = "established"
        /\ run'[h].proxy = "open"
    BY <1>1, <1>11 DEF ConnectOK, Goto, DialStage, Record, Inv, Holds
  <2>2. Dials!Established(h)
    BY <1>6, <2>1 DEF Dials!Established
  <2> QED
    BY <2>2 DEF Dials!Next
<1>12. CASE PipeReturns(h)
  <2>1. /\ DialStage(h) = "established" /\ DialStage(h)' = "over"
        /\ run'[h].proxy = "closed"
    BY <1>1, <1>12 DEF PipeReturns, DialStage, Record
  <2>2. Dials!Closed(h)
    BY <1>6, <2>1 DEF Dials!Closed
  <2> QED
    BY <2>2 DEF Dials!Next
<1> QED
  BY <1>7, <1>8, <1>9, <1>10, <1>11, <1>12 DEF HandlerStep, handleTCPForwarder

\* Every step is a step of ProxyDial or leaves the dials alone.
LEMMA DialsStep ==
  ASSUME Inv, [Next]_vars
  PROVE  [Dials!Next]_(<<[h \in Handlers |-> DialStage(h)],
                         [h \in Handlers |-> run[h].proxy], ctxDone>>)
<1>1. CASE \E h \in Handlers : HandlerStep(h)
  BY <1>1, HandlerDials
<1>2. CASE \/ CloseAllSnapshot \/ StopClosesTun \/ ReaderExits \/ StopClosesStack
           \/ UNCHANGED vars
  <2>1. \A h \in Handlers : run'[h].pc = run[h].pc /\ run'[h].proxy = run[h].proxy
    BY <1>2 DEF CloseAllSnapshot, StopClosesTun, ReaderExits, StopClosesStack, vars, Inv,
       Types, Record
  <2>2. ctxDone' = ctxDone
    BY <1>2 DEF CloseAllSnapshot, StopClosesTun, ReaderExits, StopClosesStack, vars, engine,
       ctxDone
  <2> QED
    BY <2>1, <2>2 DEF DialStage
<1>3. CASE StopCancels
  <2>1. UNCHANGED run /\ ~ctxDone /\ ctxDone'
    BY <1>3 DEF StopCancels, ctxDone
  <2> QED
    BY <2>1 DEF DialStage, Dials!Next, Dials!Cancel
<1> QED
  BY <1>1, <1>2, <1>3 DEF Next, HandlerStep

\* handleTCPForwarder dials as ProxyDial allows: no dial is connected once ctx is
\* done, and the proxy connection is open exactly while somebody owns it.
THEOREM TcpFlowsDial == Spec => DialsAsPromised
<1>1. Init => Dials!Init
  BY DEF Init, Dials!Init, DialStage, ctxDone
<1> QED
  BY <1>1, InitInv, NextInv, DialsStep, PTL DEF Spec, DialsAsPromised, Dials!Spec
=============================================================================
