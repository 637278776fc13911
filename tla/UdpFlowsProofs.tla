--------------------------- MODULE UdpFlowsProofs ---------------------------
(***************************************************************************)
(* Proofs about UdpFlows, for every set of flows and handlers and every    *)
(* cap: the slot counter is exact, the cap holds, nothing is left behind,  *)
(* and the flows implement SlotPool and ProxyDial.  At the end, about      *)
(* UdpRelay: the relay of a flow in time.                                  *)
(***************************************************************************)
EXTENDS UdpFlows, UdpRelay, FiniteSetTheorems, TLAPS

Steps == Live \cup {"new", "done"}

(* TypeOK without the bound on active, which is a consequence of the slots. *)
FlowTypes ==
  /\ active \in Int
  /\ reader \in {"loop", "rollback", "done"}
  /\ pc \in [Handlers -> Steps]
  /\ flow \in [Handlers -> Flows \cup {NoFlow}]
  /\ ep \in [Handlers -> {"none", "open", "closed"}]
  /\ assoc \in [Handlers -> {"none", "open", "closed"}]
  /\ relay \in [Handlers -> [Gors -> {"off", "run", "shut", "exit"}]]
  /\ once \in [Handlers -> {"no", "done"} \cup Gors]
  /\ panicked \subseteq Handlers
  /\ tracked \subseteq Handlers
  /\ snap \subseteq Handlers
  /\ phase \in {"running", "cancelled", "tunClosed", "stackClosed"}

(* The counter and the live handlers.  Finiteness is part of the invariant: the
   handlers of an engine are not bounded, the live ones are.                  *)
Slots ==
  /\ IsFiniteSet(Holding)
  /\ SlotAccounting
  /\ Cardinality(Holding) <= MaxUDPConns

(* Where a handler is when it still has something to give back.            *)
Ends ==
  \A h \in Handlers :
    /\ assoc[h] = "open" => pc[h] \in {"handshake", "track", "spawn", "wait"}
    /\ h \in tracked => pc[h] \in {"spawn", "wait", "untrack"}
    /\ ep[h] = "open" =>
         \/ h \in panicked
         \/ pc[h] \in {"validate", "dial", "handshake", "track", "spawn", "wait"}

Inv == FlowTypes /\ Slots /\ Ends

(* NewEngine: no flow, no slot taken.                                      *)
LEMMA InitInv == Init => Inv
<1> SUFFICES ASSUME Init PROVE Inv
  OBVIOUS
<1>1. FlowTypes /\ Ends
  BY DEF Init, FlowTypes, Ends, Steps, Live, Gors
<1>2. Holding = {}
  BY DEF Init, Holding, Live
<1>3. IsFiniteSet(Holding) /\ Cardinality(Holding) = 0
  BY <1>2, FS_EmptySet
<1>4. Slots
  BY <1>3, UdpAssumption DEF Init, Slots, SlotAccounting
<1> QED
  BY <1>1, <1>4 DEF Inv

(* A step that neither launches nor ends a handler leaves the slots alone. *)
Quiet ==
  /\ active' = active
  /\ (reader' = "rollback") <=> (reader = "rollback")
  /\ Holding' = Holding

(* Such a step keeps the slot invariant.                                   *)
LEMMA QuietSlots == Slots /\ Quiet => Slots'
BY DEF Slots, Quiet, SlotAccounting

(* Moving a handler from one live step to another.                         *)
LEMMA StaysLive ==
  ASSUME FlowTypes, NEW h \in Handlers, pc[h] \in Live, NEW l \in Live, Goto(h, l)
  PROVE  Holding' = Holding /\ pc' \in [Handlers -> Steps] /\ pc'[h] = l
         /\ \A g \in Handlers \ {h} : pc'[g] = pc[g]
BY DEF FlowTypes, Goto, Holding, Steps

(* The steps of handleUDPForwarder between its launch and its end.         *)
LEMMA HandlerInv ==
  ASSUME Inv, NEW h \in Handlers,
         handleUDPForwarder(h), ~ReleaseSlot(h)
  PROVE  Inv'
<1> USE DEF Inv
<1>1. CASE CreateEndpoint(h)
  <2>1. pc[h] \in Live /\ "validate" \in Live /\ Goto(h, "validate") /\ active' = active /\ reader' = reader
    BY <1>1 DEF CreateEndpoint, Live
  <2>2. /\ Holding' = Holding /\ pc' \in [Handlers -> Steps] /\ pc'[h] = "validate"
        /\ \A g \in Handlers \ {h} : pc'[g] = pc[g]
    BY <2>1, StaysLive
  <2>3. FlowTypes'
    BY <1>1, <2>2 DEF CreateEndpoint, FlowTypes, CloseEp, CloseAssoc, Gors
  <2>4. Ends'
    BY <1>1, <2>2 DEF CreateEndpoint, FlowTypes, Ends, CloseEp, CloseAssoc
  <2> QED
    BY <2>1, <2>2, <2>3, <2>4, QuietSlots DEF Quiet
<1>2. CASE CreateEndpointFails(h)
  <2>1. pc[h] \in Live /\ "release" \in Live /\ Goto(h, "release") /\ active' = active /\ reader' = reader
    BY <1>2 DEF CreateEndpointFails, Live
  <2>2. /\ Holding' = Holding /\ pc' \in [Handlers -> Steps] /\ pc'[h] = "release"
        /\ \A g \in Handlers \ {h} : pc'[g] = pc[g]
    BY <2>1, StaysLive
  <2>3. FlowTypes'
    BY <1>2, <2>2 DEF CreateEndpointFails, FlowTypes, CloseEp, CloseAssoc, Gors
  <2>4. Ends'
    BY <1>2, <2>2 DEF CreateEndpointFails, FlowTypes, Ends, CloseEp, CloseAssoc
  <2> QED
    BY <2>1, <2>2, <2>3, <2>4, QuietSlots DEF Quiet
<1>3. CASE ValidateAllows(h)
  <2>1. pc[h] \in Live /\ "dial" \in Live /\ Goto(h, "dial") /\ active' = active /\ reader' = reader
    BY <1>3 DEF ValidateAllows, Live
  <2>2. /\ Holding' = Holding /\ pc' \in [Handlers -> Steps] /\ pc'[h] = "dial"
        /\ \A g \in Handlers \ {h} : pc'[g] = pc[g]
    BY <2>1, StaysLive
  <2>3. FlowTypes'
    BY <1>3, <2>2 DEF ValidateAllows, FlowTypes, CloseEp, CloseAssoc, Gors
  <2>4. Ends'
    BY <1>3, <2>2 DEF ValidateAllows, FlowTypes, Ends, CloseEp, CloseAssoc
  <2> QED
    BY <2>1, <2>2, <2>3, <2>4, QuietSlots DEF Quiet
<1>4. CASE ValidateDenies(h)
  <2>1. pc[h] \in Live /\ "release" \in Live /\ Goto(h, "release") /\ active' = active /\ reader' = reader
    BY <1>4 DEF ValidateDenies, Live
  <2>2. /\ Holding' = Holding /\ pc' \in [Handlers -> Steps] /\ pc'[h] = "release"
        /\ \A g \in Handlers \ {h} : pc'[g] = pc[g]
    BY <2>1, StaysLive
  <2>3. FlowTypes'
    BY <1>4, <2>2 DEF ValidateDenies, FlowTypes, CloseEp, CloseAssoc, Gors
  <2>4. Ends'
    BY <1>4, <2>2 DEF ValidateDenies, FlowTypes, Ends, CloseEp, CloseAssoc
  <2> QED
    BY <2>1, <2>2, <2>3, <2>4, QuietSlots DEF Quiet
<1>5. CASE ValidatePanics(h)
  <2>1. pc[h] \in Live /\ "release" \in Live /\ Goto(h, "release") /\ active' = active /\ reader' = reader
    BY <1>5 DEF ValidatePanics, Live
  <2>2. /\ Holding' = Holding /\ pc' \in [Handlers -> Steps] /\ pc'[h] = "release"
        /\ \A g \in Handlers \ {h} : pc'[g] = pc[g]
    BY <2>1, StaysLive
  <2>3. FlowTypes'
    BY <1>5, <2>2 DEF ValidatePanics, FlowTypes, CloseEp, CloseAssoc, Gors
  <2>4. Ends'
    BY <1>5, <2>2 DEF ValidatePanics, FlowTypes, Ends, CloseEp, CloseAssoc
  <2> QED
    BY <2>1, <2>2, <2>3, <2>4, QuietSlots DEF Quiet
<1>6. CASE DialContext(h)
  <2>1. pc[h] \in Live /\ "handshake" \in Live /\ Goto(h, "handshake") /\ active' = active /\ reader' = reader
    BY <1>6 DEF DialContext, Live
  <2>2. /\ Holding' = Holding /\ pc' \in [Handlers -> Steps] /\ pc'[h] = "handshake"
        /\ \A g \in Handlers \ {h} : pc'[g] = pc[g]
    BY <2>1, StaysLive
  <2>3. FlowTypes'
    BY <1>6, <2>2 DEF DialContext, FlowTypes, CloseEp, CloseAssoc, Gors
  <2>4. Ends'
    BY <1>6, <2>2 DEF DialContext, FlowTypes, Ends, CloseEp, CloseAssoc
  <2> QED
    BY <2>1, <2>2, <2>3, <2>4, QuietSlots DEF Quiet
<1>7. CASE DialFails(h)
  <2>1. pc[h] \in Live /\ "release" \in Live /\ Goto(h, "release") /\ active' = active /\ reader' = reader
    BY <1>7 DEF DialFails, Live
  <2>2. /\ Holding' = Holding /\ pc' \in [Handlers -> Steps] /\ pc'[h] = "release"
        /\ \A g \in Handlers \ {h} : pc'[g] = pc[g]
    BY <2>1, StaysLive
  <2>3. FlowTypes'
    BY <1>7, <2>2 DEF DialFails, FlowTypes, CloseEp, CloseAssoc, Gors
  <2>4. Ends'
    BY <1>7, <2>2 DEF DialFails, FlowTypes, Ends, CloseEp, CloseAssoc
  <2> QED
    BY <2>1, <2>2, <2>3, <2>4, QuietSlots DEF Quiet
<1>8. CASE AssociateOK(h)
  <2>1. pc[h] \in Live /\ "track" \in Live /\ Goto(h, "track") /\ active' = active /\ reader' = reader
    BY <1>8 DEF AssociateOK, Live
  <2>2. /\ Holding' = Holding /\ pc' \in [Handlers -> Steps] /\ pc'[h] = "track"
        /\ \A g \in Handlers \ {h} : pc'[g] = pc[g]
    BY <2>1, StaysLive
  <2>3. FlowTypes'
    BY <1>8, <2>2 DEF AssociateOK, FlowTypes, CloseEp, CloseAssoc, Gors
  <2>4. Ends'
    BY <1>8, <2>2 DEF AssociateOK, FlowTypes, Ends, CloseEp, CloseAssoc
  <2> QED
    BY <2>1, <2>2, <2>3, <2>4, QuietSlots DEF Quiet
<1>9. CASE AssociateFails(h)
  <2>1. pc[h] \in Live /\ "release" \in Live /\ Goto(h, "release") /\ active' = active /\ reader' = reader
    BY <1>9 DEF AssociateFails, Live
  <2>2. /\ Holding' = Holding /\ pc' \in [Handlers -> Steps] /\ pc'[h] = "release"
        /\ \A g \in Handlers \ {h} : pc'[g] = pc[g]
    BY <2>1, StaysLive
  <2>3. FlowTypes'
    BY <1>9, <2>2 DEF AssociateFails, FlowTypes, CloseEp, CloseAssoc, Gors
  <2>4. Ends'
    BY <1>9, <2>2 DEF AssociateFails, FlowTypes, Ends, CloseEp, CloseAssoc
  <2> QED
    BY <2>1, <2>2, <2>3, <2>4, QuietSlots DEF Quiet
<1>10. CASE trackUDPConn(h)
  <2>1. pc[h] \in Live /\ "spawn" \in Live /\ Goto(h, "spawn") /\ active' = active /\ reader' = reader
    BY <1>10 DEF trackUDPConn, Live
  <2>2. /\ Holding' = Holding /\ pc' \in [Handlers -> Steps] /\ pc'[h] = "spawn"
        /\ \A g \in Handlers \ {h} : pc'[g] = pc[g]
    BY <2>1, StaysLive
  <2>3. FlowTypes'
    BY <1>10, <2>2 DEF trackUDPConn, FlowTypes, CloseEp, CloseAssoc, Gors
  <2>4. Ends'
    BY <1>10, <2>2 DEF trackUDPConn, FlowTypes, Ends, CloseEp, CloseAssoc
  <2> QED
    BY <2>1, <2>2, <2>3, <2>4, QuietSlots DEF Quiet
<1>11. CASE PipeStarts(h)
  <2>1. pc[h] \in Live /\ "wait" \in Live /\ Goto(h, "wait") /\ active' = active /\ reader' = reader
    BY <1>11 DEF PipeStarts, Live
  <2>2. /\ Holding' = Holding /\ pc' \in [Handlers -> Steps] /\ pc'[h] = "wait"
        /\ \A g \in Handlers \ {h} : pc'[g] = pc[g]
    BY <2>1, StaysLive
  <2>3. FlowTypes'
    BY <1>11, <2>2 DEF PipeStarts, FlowTypes, CloseEp, CloseAssoc, Gors
  <2>4. Ends'
    BY <1>11, <2>2 DEF PipeStarts, FlowTypes, Ends, CloseEp, CloseAssoc
  <2> QED
    BY <2>1, <2>2, <2>3, <2>4, QuietSlots DEF Quiet
<1>12. CASE PipeReturns(h)
  <2>1. pc[h] \in Live /\ "untrack" \in Live /\ Goto(h, "untrack") /\ active' = active /\ reader' = reader
    BY <1>12 DEF PipeReturns, Live
  <2>2. /\ Holding' = Holding /\ pc' \in [Handlers -> Steps] /\ pc'[h] = "untrack"
        /\ \A g \in Handlers \ {h} : pc'[g] = pc[g]
    BY <2>1, StaysLive
  <2>3. FlowTypes'
    BY <1>12, <2>2 DEF PipeReturns, FlowTypes, CloseEp, CloseAssoc, Gors
  <2>4. Ends'
    BY <1>12, <2>2 DEF PipeReturns, FlowTypes, Ends, CloseEp, CloseAssoc
  <2> QED
    BY <2>1, <2>2, <2>3, <2>4, QuietSlots DEF Quiet
<1>13. CASE untrackUDPConn(h)
  <2>1. pc[h] \in Live /\ "release" \in Live /\ Goto(h, "release") /\ active' = active /\ reader' = reader
    BY <1>13 DEF untrackUDPConn, Live
  <2>2. /\ Holding' = Holding /\ pc' \in [Handlers -> Steps] /\ pc'[h] = "release"
        /\ \A g \in Handlers \ {h} : pc'[g] = pc[g]
    BY <2>1, StaysLive
  <2>3. FlowTypes'
    BY <1>13, <2>2 DEF untrackUDPConn, FlowTypes, CloseEp, CloseAssoc, Gors
  <2>4. Ends'
    BY <1>13, <2>2 DEF untrackUDPConn, FlowTypes, Ends, CloseEp, CloseAssoc
  <2> QED
    BY <2>1, <2>2, <2>3, <2>4, QuietSlots DEF Quiet
<1> QED
  BY <1>1, <1>2, <1>3, <1>4, <1>5, <1>6, <1>7, <1>8, <1>9, <1>10, <1>11, <1>12, <1>13 DEF handleUDPForwarder

(* The goroutines of pipeUDP, CloseAllConnections and Engine.Stop do not move a
   handler.                                                                   *)
LEMMA OthersInv ==
  ASSUME Inv,
         \/ \E h \in Handlers, g \in Gors : pipeGoroutine(h, g) \/ RelayGivesUp(h, g)
         \/ \E h \in Handlers : CloseAllCloses(h)
         \/ ReaderExits \/ CloseAllSnapshot
         \/ StopCancels \/ StopClosesTun \/ StopClosesStack
  PROVE  Inv'
<1> USE DEF Inv
<1>1. /\ active' = active /\ pc' = pc
      /\ (reader' = "rollback") <=> (reader = "rollback")
  BY DEF pipeGoroutine, RelayUnblocked, RelayGivesUp, ShutdownEnter, ShutdownFinish,
         ShutdownSkip, CloseAllCloses, ReaderExits, CloseAllSnapshot, StopCancels,
         StopClosesTun, StopClosesStack
<1>2. Slots'
  BY <1>1, QuietSlots DEF Quiet, Holding
<1>3. ASSUME NEW h \in Handlers, NEW g \in Gors, pipeGoroutine(h, g) \/ RelayGivesUp(h, g)
      PROVE  FlowTypes' /\ Ends'
  <2>1. CASE RelayUnblocked(h, g) \/ RelayGivesUp(h, g) \/ ShutdownSkip(h, g)
    <3>1. PICK to \in {"shut", "exit"} : relay' = [relay EXCEPT ![h][g] = to]
      BY <2>1 DEF RelayUnblocked, RelayGivesUp, ShutdownSkip
    <3>2. UNCHANGED <<active, reader, pc, flow, ep, assoc, once, panicked, tracked,
                      snap, phase>>
      BY <2>1 DEF RelayUnblocked, RelayGivesUp, ShutdownSkip
    <3> QED
      BY <1>3, <3>1, <3>2 DEF FlowTypes, Ends
  <2>2. CASE ShutdownEnter(h, g)
    BY <1>1, <1>3, <2>2 DEF FlowTypes, Ends, ShutdownEnter, CloseEp
  <2>3. CASE ShutdownFinish(h, g)
    BY <1>1, <1>3, <2>3 DEF FlowTypes, Ends, ShutdownFinish, CloseAssoc
  <2> QED
    BY <1>3, <2>1, <2>2, <2>3 DEF pipeGoroutine
<1>4. ASSUME NEW h \in Handlers, CloseAllCloses(h)
      PROVE  FlowTypes' /\ Ends'
  BY <1>4 DEF FlowTypes, Ends, CloseAllCloses, CloseEp
<1>5. CASE ReaderExits \/ CloseAllSnapshot \/ StopCancels \/ StopClosesTun
  BY <1>2, <1>5 DEF FlowTypes, Ends, ReaderExits, CloseAllSnapshot, StopCancels, StopClosesTun
<1>6. CASE StopClosesStack
  BY <1>2, <1>6 DEF FlowTypes, Ends, StopClosesStack
<1> QED
  BY <1>2, <1>3, <1>4, <1>5, <1>6

(* The counter moves with the handlers: launch, end, and the refused callback. *)
LEMMA ReserveInv ==
  ASSUME Inv, NEW f \in Flows, NEW h \in Handlers, ReserveSlot(f, h)
  PROVE  Inv'
<1> USE DEF Inv
<1>1. FlowTypes'
  BY DEF FlowTypes, ReserveSlot, Goto, Steps, Live
<1>2. Ends'
  BY DEF FlowTypes, Ends, ReserveSlot, Goto
<1>3. h \notin Holding /\ Holding' = Holding \cup {h}
  BY DEF FlowTypes, ReserveSlot, Goto, Holding, Live
<1>4. IsFiniteSet(Holding') /\ Cardinality(Holding') = Cardinality(Holding) + 1
  BY <1>3, FS_AddElement DEF Slots
<1>5. Cardinality(Holding) \in Nat /\ active = Cardinality(Holding)
      /\ active' = active + 1 /\ active + 1 <= MaxUDPConns /\ reader' = "loop"
  BY FS_CardinalityType DEF Slots, SlotAccounting, ReserveSlot
<1>6. Slots'
  BY <1>4, <1>5, UdpAssumption DEF Slots, SlotAccounting
<1> QED
  BY <1>1, <1>2, <1>6

(* The deferred activeUDPConns.Add(-1) at the end of handleUDPForwarder.    *)
LEMMA ReleaseInv ==
  ASSUME Inv, NEW h \in Handlers, ReleaseSlot(h)
  PROVE  Inv'
<1> USE DEF Inv
<1>1. FlowTypes'
  BY DEF FlowTypes, ReleaseSlot, Goto, Steps, Live
<1>2. Ends'
  BY DEF FlowTypes, Ends, ReleaseSlot, Goto
<1>3. h \in Holding /\ Holding' = Holding \ {h}
  BY DEF FlowTypes, ReleaseSlot, Goto, Holding, Live
<1>4. IsFiniteSet(Holding') /\ Cardinality(Holding') = Cardinality(Holding) - 1
  BY <1>3, FS_RemoveElement DEF Slots
<1>5. Cardinality(Holding) \in Nat
  BY FS_CardinalityType DEF Slots
<1>6. active' = active - 1 /\ reader' = reader
  BY DEF ReleaseSlot
<1>7. Slots'
  BY <1>4, <1>5, <1>6, UdpAssumption DEF Slots, SlotAccounting
<1> QED
  BY <1>1, <1>2, <1>7

(* A packet over the cap: counted and counted back.                        *)
LEMMA RefusalInv ==
  ASSUME Inv, Rollback \/ \E f \in Flows : RefuseFlow(f)
  PROVE  Inv'
<1> USE DEF Inv
<1>1. FlowTypes' /\ Ends' /\ Holding' = Holding
  BY DEF FlowTypes, Ends, Rollback, RefuseFlow, Holding
<1>2. Cardinality(Holding) \in Nat
  BY FS_CardinalityType DEF Slots
<1>3. Slots'
  BY <1>1, <1>2 DEF FlowTypes, Slots, SlotAccounting, Rollback, RefuseFlow
<1> QED
  BY <1>1, <1>3

(* Every step of the flows, Stop and CloseAllConnections keeps the invariant. *)
LEMMA NextInv == Inv /\ [Next]_vars => Inv'
<1> SUFFICES ASSUME Inv, [Next]_vars PROVE Inv'
  OBVIOUS
<1>1. CASE UNCHANGED vars
  BY <1>1 DEF vars, Inv, FlowTypes, Slots, Ends, SlotAccounting, Holding
<1>2. CASE Next
  <2>1. ASSUME NEW h \in Handlers, handleUDPForwarder(h) PROVE Inv'
    BY <2>1, HandlerInv, ReleaseInv
  <2> QED
    BY <1>2, <2>1, OthersInv, ReserveInv, RefusalInv DEF Next
<1> QED
  BY <1>1, <1>2

-----------------------------------------------------------------------------
\* Whatever the flows do, a panicking validator and Stop included, activeUDPConns
\* counts exactly the live handlers and the refusal in progress.
THEOREM SlotAccountingHolds == Spec => []SlotAccounting
<1>1. Inv => SlotAccounting
  BY DEF Inv, Slots
<1> QED
  BY InitInv, NextInv, <1>1, PTL DEF Spec

\* For any number of flows and any maxUDPConns, no more handlers than the cap live,
\* and no SOCKS5 socket is open outside one.
THEOREM CapHolds == Spec => []CapRespected
<1>1. Inv => CapRespected
  BY DEF Inv, FlowTypes, Slots, Ends, CapRespected, Holding, Live
<1> QED
  BY InitInv, NextInv, <1>1, PTL DEF Spec

\* Every exit path of handleUDPForwarder closes the sockets, leaves the udpConns
\* table and, unless the validator panicked, closes the gVisor endpoint.
THEOREM NothingLeftBehindHolds == Spec => []NothingLeftBehind
<1>1. Inv => NothingLeftBehind
  BY DEF Inv, Ends, NothingLeftBehind
<1> QED
  BY InitInv, NextInv, <1>1, PTL DEF Spec

\* Type correctness; the counter never leaves 0..maxUDPConns + 1.
THEOREM FlowTypesHold == Spec => []TypeOK
<1>1. Inv => TypeOK
  <2> SUFFICES ASSUME Inv PROVE TypeOK
    OBVIOUS
  <2>1. Cardinality(Holding) \in Nat
    BY FS_CardinalityType DEF Inv, Slots
  <2>2. active \in 0..(MaxUDPConns + 1)
    BY <2>1, UdpAssumption DEF Inv, Slots, SlotAccounting
  <2> QED
    BY <2>2 DEF Inv, FlowTypes, TypeOK, Steps
<1> QED
  BY InitInv, NextInv, <1>1, PTL DEF Spec

-----------------------------------------------------------------------------
(* The flows implement SlotPool.                                           *)

\* Every step of a handler but its last stays within the live steps.
LEMMA HandlerKeepsSlot ==
  ASSUME FlowTypes, NEW h \in Handlers, handleUDPForwarder(h), ~ReleaseSlot(h)
  PROVE  Holding' = Holding
<1>1. pc[h] \in Live /\ \E l \in Live : Goto(h, l)
  <2>1. CASE \/ CreateEndpoint(h) \/ CreateEndpointFails(h)
             \/ ValidateAllows(h) \/ ValidateDenies(h) \/ ValidatePanics(h)
    BY <2>1 DEF CreateEndpoint, CreateEndpointFails, ValidateAllows, ValidateDenies,
                ValidatePanics, Live
  <2>2. CASE DialContext(h) \/ DialFails(h) \/ AssociateOK(h) \/ AssociateFails(h)
    BY <2>2 DEF DialContext, DialFails, AssociateOK, AssociateFails, Live
  <2>3. CASE trackUDPConn(h) \/ PipeStarts(h) \/ PipeReturns(h) \/ untrackUDPConn(h)
    BY <2>3 DEF trackUDPConn, PipeStarts, PipeReturns, untrackUDPConn, Live
  <2> QED
    BY <2>1, <2>2, <2>3 DEF handleUDPForwarder
<1> QED
  BY <1>1, StaysLive

\* The places that activeUDPConns leaves.
Free == MaxUDPConns - active + (IF reader = "rollback" THEN 1 ELSE 0)

\* In every state the count leaves what the live handlers do not hold.
LEMMA FreeIsRest ==
  ASSUME Inv
  PROVE  /\ Free = MaxUDPConns - Cardinality(Holding)
         /\ Free \in Nat /\ active \in Int
<1>1. Cardinality(Holding) \in Nat /\ Cardinality(Holding) <= MaxUDPConns
  BY FS_CardinalityType DEF Inv, Slots
<1>2. active = Cardinality(Holding) + (IF reader = "rollback" THEN 1 ELSE 0)
  BY DEF Inv, Slots, SlotAccounting
<1> HIDE DEF Holding
<1> DEFINE c == Cardinality(Holding)
<1> HIDE DEF c
<1> QED
  BY <1>1, <1>2, UdpAssumption DEF Free

\* Each step of the flows takes one place of the pool, gives one back, turns a flow
\* away when none is left, or does neither.
LEMMA PoolStep == Inv /\ [Next]_vars => [Pool!Next]_(Pool!vars)
<1> SUFFICES ASSUME Inv, [Next]_vars PROVE [Pool!Next]_(Pool!vars)
  OBVIOUS
<1> DEFINE Still == Holding' = Holding /\ active' = active
                      /\ ((reader' = "rollback") <=> (reader = "rollback"))
<1>1. ASSUME NEW f \in Flows, NEW h \in Handlers, ReserveSlot(f, h)
      PROVE  Pool!Next
  <2>1. h \notin Holding /\ Holding' = Holding \cup {h}
    BY <1>1 DEF Inv, FlowTypes, ReserveSlot, Goto, Holding, Live
  <2>2. Free > 0 /\ Free' = Free - 1
    BY <1>1, FreeIsRest, UdpAssumption DEF ReserveSlot, Free
  <2>3. (reader = "rollback")' = (reader = "rollback")
    BY <1>1 DEF ReserveSlot
  <2> QED
    BY <2>1, <2>2, <2>3 DEF Pool!Next, Pool!Take, Free
<1>2. ASSUME NEW h \in Handlers, ReleaseSlot(h)
      PROVE  Pool!Next
  <2>1. h \in Holding /\ Holding' = Holding \ {h}
    BY <1>2 DEF Inv, FlowTypes, ReleaseSlot, Goto, Holding, Live
  <2>2. Free' = Free + 1
    BY <1>2, FreeIsRest, UdpAssumption DEF ReleaseSlot, Free
  <2>3. (reader = "rollback")' = (reader = "rollback")
    BY <1>2 DEF ReleaseSlot
  <2> QED
    BY <2>1, <2>2, <2>3 DEF Pool!Next, Pool!Give, Free
<1>3. ASSUME NEW f \in Flows, RefuseFlow(f)
      PROVE  Pool!Next
  <2>1. Holding' = Holding
    BY <1>3 DEF RefuseFlow, Holding
  <2>2. Free = 0 /\ Free' = Free
    BY <1>3, FreeIsRest, UdpAssumption DEF RefuseFlow, Free
  <2>3. reader # "rollback" /\ reader' = "rollback"
    BY <1>3 DEF RefuseFlow
  <2> QED
    BY <2>1, <2>2, <2>3 DEF Pool!Next, Pool!TurnAway, Free
<1>4. CASE Rollback
  <2>1. Holding' = Holding
    BY <1>4 DEF Rollback, Holding
  <2>2. Free' = Free
    BY <1>4, FreeIsRest, UdpAssumption DEF Rollback, Free
  <2>3. reader = "rollback" /\ reader' # "rollback"
    BY <1>4 DEF Rollback
  <2> QED
    BY <2>1, <2>2, <2>3 DEF Pool!Next, Pool!Turned, Free
<1>5. Still => UNCHANGED Pool!vars
  BY DEF Pool!vars
<1>6. ASSUME NEW h \in Handlers, handleUDPForwarder(h), ~ReleaseSlot(h)
      PROVE  Still
  <2>1. Holding' = Holding
    BY <1>6, HandlerKeepsSlot DEF Inv
  <2>2. active' = active /\ reader' = reader
    BY <1>6 DEF handleUDPForwarder, CreateEndpoint, CreateEndpointFails, ValidateAllows,
         ValidateDenies, ValidatePanics, DialContext, DialFails, AssociateOK,
         AssociateFails, trackUDPConn, PipeStarts, PipeReturns, untrackUDPConn
  <2> QED
    BY <2>1, <2>2
<1>7. ASSUME \/ \E h \in Handlers, g \in Gors : pipeGoroutine(h, g) \/ RelayGivesUp(h, g)
             \/ \E h \in Handlers : CloseAllCloses(h)
             \/ ReaderExits \/ CloseAllSnapshot
             \/ StopCancels \/ StopClosesTun \/ StopClosesStack
      PROVE  Still
  <2>1. /\ pc' = pc /\ active' = active
        /\ reader' = reader \/ (reader = "loop" /\ reader' = "done")
    BY <1>7 DEF pipeGoroutine, RelayUnblocked, RelayGivesUp, ShutdownEnter, ShutdownFinish,
         ShutdownSkip, CloseAllCloses, ReaderExits, CloseAllSnapshot, StopCancels,
         StopClosesTun, StopClosesStack
  <2>2. Holding' = Holding
    BY <2>1 DEF Holding
  <2> QED
    BY <2>1, <2>2
<1>8. ASSUME UNCHANGED vars PROVE Still
  BY <1>8 DEF vars, Holding
<1> HIDE DEF Still
<1> QED
  BY <1>1, <1>2, <1>3, <1>4, <1>5, <1>6, <1>7, <1>8 DEF Next

\* For any number of flows and any cap activeUDPConns keeps the abstract pool: it
\* moves with every slot taken or given back, admits a flow only while a slot is
\* free and refuses one only when none is.
THEOREM FlowsImplementPool == Spec => SlotsArePooled
<1>1. ASSUME Init PROVE Pool!Init
  <2>1. Holding = {}
    BY <1>1 DEF Init, Holding, Live
  <2> QED
    BY <1>1, <2>1, UdpAssumption DEF Init, Pool!Init
<1> QED
  BY <1>1, InitInv, NextInv, PoolStep, PTL DEF Spec, SlotsArePooled, Pool!Spec

-----------------------------------------------------------------------------
(* The flows implement ProxyDial.                                          *)

(* The sockets follow the handler up to pipeUDP.  From there they belong to the
   shared shutdown: its sync.Once is taken only while pipeUDP waits, and used up
   when pipeUDP returns.                                                      *)
Dialling ==
  \A h \in Handlers :
    /\ pc[h] \in {"new", "create", "validate", "dial"} => assoc[h] = "none"
    /\ pc[h] \in {"handshake", "track", "spawn"} => assoc[h] = "open"
    /\ \A g \in Gors : relay[h][g] # "off" => pc[h] = "wait" \/ once[h] = "done"
    /\ once[h] \in Gors => pc[h] = "wait"

\* The handler's own steps: how each moves its stage and its sockets.
LEMMA HandlerDials ==
  ASSUME FlowTypes, Dialling, NEW h \in Handlers,
         handleUDPForwarder(h) \/ \E f \in Flows : ReserveSlot(f, h)
  PROVE  /\ Dialling'
         /\ [Dials!Next]_(<<[g \in Handlers |-> DialStage(g)], assoc, ctxDone>>)
<1> DEFINE stage == [g \in Handlers |-> DialStage(g)]
<1>1. /\ pc \in [Handlers -> Steps]
      /\ assoc \in [Handlers -> {"none", "open", "closed"}]
      /\ \A g \in Gors : relay[h][g] # "off" => pc[h] = "wait" \/ once[h] = "done"
      /\ once[h] \in Gors => pc[h] = "wait"
  BY DEF FlowTypes, Dialling
<1>2. ctxDone' = ctxDone
  BY DEF handleUDPForwarder, CreateEndpoint, CreateEndpointFails, ValidateAllows,
     ValidateDenies, ValidatePanics, DialContext, DialFails, AssociateOK, AssociateFails,
     trackUDPConn, PipeStarts, PipeReturns, untrackUDPConn, ReleaseSlot, ReserveSlot, ctxDone
<1>3. ASSUME NEW to \in Steps, NEW socket, Goto(h, to), assoc' = [assoc EXCEPT ![h] = socket],
             to \in {"new", "create", "validate", "dial"} => socket = "none",
             to \in {"handshake", "track", "spawn"} => socket = "open",
             \/ to = "wait"
             \/ UNCHANGED <<relay, once>> /\ pc[h] # "wait"
             \/ UNCHANGED relay /\ once' = [once EXCEPT ![h] = "done"],
             \A g \in Handlers \ {h} : relay'[g] = relay[g] /\ once'[g] = once[g]
      PROVE  /\ Dialling'
             /\ stage' = [stage EXCEPT ![h] = DialStage(h)']
             /\ pc'[h] = to
  <2>1. /\ pc'[h] = to /\ assoc'[h] = socket
        /\ \A g \in Handlers \ {h} : pc'[g] = pc[g] /\ assoc'[g] = assoc[g]
    BY <1>1, <1>3 DEF Goto
  <2>2. \A g \in Handlers \ {h} : DialStage(g)' = DialStage(g)
    BY <2>1 DEF DialStage
  <2>3. /\ \A g \in Gors : relay'[h][g] # "off" => to = "wait" \/ once'[h] = "done"
        /\ once'[h] \in Gors => to = "wait"
    BY <1>1, <1>3 DEF FlowTypes, Gors
  <2>4. Dialling'
    BY <1>3, <2>1, <2>3 DEF Dialling
  <2> QED
    BY <2>1, <2>2, <2>4
<1>4. ASSUME NEW to, NEW socket, stage' = [stage EXCEPT ![h] = to],
             assoc' = [assoc EXCEPT ![h] = socket]
      PROVE  Dials!Step(h, DialStage(h), to, socket)
  BY <1>2, <1>4 DEF Dials!Step
<1>5. CASE \/ CreateEndpoint(h) \/ trackUDPConn(h) \/ untrackUDPConn(h) \/ ReleaseSlot(h)
           \/ \E f \in Flows : ReserveSlot(f, h)
  <2>1. PICK to \in {"validate", "spawn", "release", "done", "create"} :
               /\ Goto(h, to)
               /\ to = "validate" => pc[h] = "create"
               /\ to = "spawn" => pc[h] = "track"
               /\ to = "release" => pc[h] = "untrack"
               /\ to = "done" => pc[h] = "release"
               /\ to = "create" => pc[h] = "new"
    BY <1>5 DEF CreateEndpoint, trackUDPConn, untrackUDPConn, ReleaseSlot, ReserveSlot
  <2>2. UNCHANGED <<assoc, relay, once>>
    BY <1>5 DEF CreateEndpoint, trackUDPConn, untrackUDPConn, ReleaseSlot, ReserveSlot
  <2>3. /\ to \in {"new", "create", "validate", "dial"} => assoc[h] = "none"
        /\ to \in {"handshake", "track", "spawn"} => assoc[h] = "open"
    BY <2>1 DEF Dialling
  <2>4. assoc' = [assoc EXCEPT ![h] = assoc[h]] /\ to \in Steps /\ pc[h] # "wait"
    BY <1>1, <2>1, <2>2 DEF Steps, Live
  <2>5. Dialling' /\ stage' = [stage EXCEPT ![h] = DialStage(h)'] /\ pc'[h] = to
    BY <1>3, <2>1, <2>2, <2>3, <2>4
  <2>6. DialStage(h)' = DialStage(h)
    BY <2>1, <2>5 DEF DialStage
  <2>7. stage' = stage
    BY <2>5, <2>6
  <2> QED
    BY <1>2, <2>2, <2>5, <2>7
<1>6. CASE \/ CreateEndpointFails(h) \/ ValidateAllows(h) \/ ValidateDenies(h)
           \/ ValidatePanics(h) \/ DialFails(h)
  <2>1. PICK to \in {"dial", "release"} :
               /\ Goto(h, to)
               /\ to = "dial" => pc[h] = "validate"
               /\ to = "release" => pc[h] \in {"create", "validate", "dial"}
    BY <1>6 DEF CreateEndpointFails, ValidateAllows, ValidateDenies, ValidatePanics, DialFails
  <2>2. UNCHANGED <<assoc, relay, once>>
    BY <1>6 DEF CreateEndpointFails, ValidateAllows, ValidateDenies, ValidatePanics, DialFails
  <2>3. /\ assoc' = [assoc EXCEPT ![h] = "none"] /\ to \in Steps /\ pc[h] # "wait"
    BY <1>1, <2>1, <2>2 DEF Dialling, Steps, Live
  <2>4. Dialling' /\ stage' = [stage EXCEPT ![h] = DialStage(h)'] /\ pc'[h] = to
    BY <1>3, <2>1, <2>2, <2>3
  <2>5. Dials!Step(h, DialStage(h), DialStage(h)', "none")
    BY <1>4, <2>3, <2>4
  <2>6. \/ DialStage(h) = "idle" /\ DialStage(h)' \in {"dial", "over"}
        \/ DialStage(h) = "dial" /\ DialStage(h)' = "over"
    BY <2>1, <2>4 DEF DialStage
  <2>7. Dials!Begin(h) \/ Dials!Fails(h)
    BY <2>5, <2>6 DEF Dials!Begin, Dials!Fails
  <2> QED
    BY <2>4, <2>7 DEF Dials!Next
<1>7. CASE DialContext(h) \/ AssociateOK(h)
  <2>1. PICK to \in {"handshake", "track"} :
               /\ Goto(h, to) /\ assoc' = [assoc EXCEPT ![h] = "open"]
               /\ to = "handshake" => pc[h] = "dial" /\ ~ctxDone
               /\ to = "track" => pc[h] = "handshake"
    BY <1>1, <1>7 DEF DialContext, AssociateOK, Dialling
  <2>2. UNCHANGED <<relay, once>> /\ to \in Steps /\ pc[h] # "wait"
    BY <1>7, <2>1 DEF DialContext, AssociateOK, Steps, Live
  <2>3. Dialling' /\ stage' = [stage EXCEPT ![h] = DialStage(h)'] /\ pc'[h] = to
    BY <1>3, <2>1, <2>2
  <2>4. Dials!Step(h, DialStage(h), DialStage(h)', "open")
    BY <1>4, <2>1, <2>3
  <2>5. \/ DialStage(h) = "dial" /\ DialStage(h)' = "handshake" /\ ~ctxDone
        \/ DialStage(h) = "handshake" /\ DialStage(h)' = "established"
    BY <2>1, <2>3 DEF DialStage
  <2>6. Dials!Connected(h) \/ Dials!Established(h)
    BY <2>4, <2>5 DEF Dials!Connected, Dials!Established
  <2> QED
    BY <2>3, <2>6 DEF Dials!Next
<1>8. CASE PipeStarts(h)
  <2>1. /\ Goto(h, "wait") /\ pc[h] = "spawn" /\ UNCHANGED <<assoc, once>>
        /\ "wait" \in Steps
    BY <1>8 DEF PipeStarts, Steps, Live
  <2>2. \A g \in Handlers \ {h} : relay'[g] = relay[g]
    BY <1>8 DEF PipeStarts, FlowTypes
  <2>3. assoc' = [assoc EXCEPT ![h] = assoc[h]]
    BY <1>1, <2>1
  <2>4. Dialling' /\ stage' = [stage EXCEPT ![h] = DialStage(h)'] /\ pc'[h] = "wait"
    BY <1>3, <2>1, <2>2, <2>3
  <2>5. DialStage(h)' = DialStage(h)
    BY <2>1, <2>4 DEF DialStage
  <2>6. stage' = stage
    BY <2>4, <2>5
  <2> QED
    BY <1>2, <2>1, <2>4, <2>6
<1>9. CASE AssociateFails(h) \/ PipeReturns(h)
  <2>1. PICK to \in {"release", "untrack"} :
               /\ Goto(h, to) /\ assoc' = [assoc EXCEPT ![h] = "closed"] /\ UNCHANGED relay
               /\ to = "release" => pc[h] = "handshake" /\ UNCHANGED once
               /\ to = "untrack" => pc[h] = "wait" /\ once' = [once EXCEPT ![h] = "done"]
    BY <1>9 DEF AssociateFails, PipeReturns, CloseAssoc
  <2>2. to \in Steps /\ \A g \in Handlers \ {h} : once'[g] = once[g]
    BY <2>1 DEF Steps, Live, FlowTypes
  <2>3. Dialling' /\ stage' = [stage EXCEPT ![h] = DialStage(h)'] /\ pc'[h] = to
    BY <1>3, <2>1, <2>2
  <2>4. Dials!Step(h, DialStage(h), DialStage(h)', "closed")
    BY <1>4, <2>1, <2>3
  <2>5. DialStage(h)' = "over" /\ DialStage(h) \in {"handshake", "established"}
    BY <2>1, <2>3 DEF DialStage
  <2>6. Dials!Fails(h) \/ Dials!Closed(h)
    BY <2>4, <2>5 DEF Dials!Fails, Dials!Closed
  <2> QED
    BY <2>3, <2>6 DEF Dials!Next
<1> QED
  BY <1>5, <1>6, <1>7, <1>8, <1>9 DEF handleUDPForwarder

\* Of the goroutines of pipeUDP only the one inside the shutdown touches the sockets,
\* and only while pipeUDP waits for it.
LEMMA RelayDials ==
  ASSUME FlowTypes, Dialling, NEW h \in Handlers, NEW g \in Gors,
         pipeGoroutine(h, g) \/ RelayGivesUp(h, g)
  PROVE  /\ Dialling'
         /\ [Dials!Next]_(<<[k \in Handlers |-> DialStage(k)], assoc, ctxDone>>)
<1> DEFINE stage == [k \in Handlers |-> DialStage(k)]
<1>1. UNCHANGED <<pc, phase>> /\ relay[h][g] # "off"
  BY DEF pipeGoroutine, RelayUnblocked, RelayGivesUp, ShutdownEnter, ShutdownFinish,
     ShutdownSkip
<1>2. stage' = stage /\ ctxDone' = ctxDone
  BY <1>1 DEF DialStage, ctxDone
<1>3. \A k \in Handlers, i \in Gors : relay'[k][i] # "off" => relay[k][i] # "off"
  <2>1. relay' = relay \/ \E to \in {"shut", "exit"} : relay' = [relay EXCEPT ![h][g] = to]
    BY DEF pipeGoroutine, RelayUnblocked, RelayGivesUp, ShutdownEnter, ShutdownFinish,
       ShutdownSkip
  <2> QED
    BY <1>1, <2>1 DEF FlowTypes
<1>4. CASE RelayUnblocked(h, g) \/ RelayGivesUp(h, g) \/ ShutdownSkip(h, g)
  <2>1. UNCHANGED <<assoc, once>>
    BY <1>4 DEF RelayUnblocked, RelayGivesUp, ShutdownSkip
  <2> QED
    BY <1>1, <1>2, <1>3, <2>1 DEF Dialling
<1>5. CASE ShutdownEnter(h, g)
  <2>1. /\ once[h] = "no" /\ once' = [once EXCEPT ![h] = g] /\ UNCHANGED <<assoc, relay>>
    BY <1>5 DEF ShutdownEnter
  <2>2. pc[h] = "wait"
    BY <1>1, <2>1 DEF Dialling
  <2> QED
    BY <1>1, <1>2, <2>1, <2>2 DEF Dialling, FlowTypes
<1>6. CASE ShutdownFinish(h, g)
  <2>1. /\ once[h] = g /\ once' = [once EXCEPT ![h] = "done"]
        /\ assoc' = [assoc EXCEPT ![h] = "closed"]
    BY <1>6 DEF ShutdownFinish, CloseAssoc
  <2>2. pc[h] = "wait"
    BY <2>1 DEF Dialling
  <2>3. Dialling'
    BY <1>1, <1>3, <2>1, <2>2 DEF Dialling, FlowTypes, Gors
  <2>4. stage[h] = "established" /\ stage' = [stage EXCEPT ![h] = "established"]
    BY <1>2, <2>2 DEF DialStage
  <2>5. Dials!Closed(h)
    BY <1>2, <2>1, <2>4 DEF Dials!Closed, Dials!Step
  <2> QED
    BY <2>3, <2>5 DEF Dials!Next
<1> QED
  BY <1>4, <1>5, <1>6 DEF pipeGoroutine

\* Every step of the flows is a step of ProxyDial or leaves the dials alone.
LEMMA DialsStep ==
  ASSUME FlowTypes, Dialling, [Next]_vars
  PROVE  /\ Dialling'
         /\ [Dials!Next]_(<<[h \in Handlers |-> DialStage(h)], assoc, ctxDone>>)
<1>1. CASE \/ ReaderExits \/ CloseAllSnapshot \/ StopClosesTun \/ StopClosesStack \/ Rollback
           \/ \E h \in Handlers : CloseAllCloses(h)
           \/ \E f \in Flows : RefuseFlow(f)
           \/ UNCHANGED vars
  <2>1. UNCHANGED <<pc, assoc, relay, once>> /\ ctxDone' = ctxDone
    BY <1>1 DEF CloseAllCloses, ReaderExits, CloseAllSnapshot, StopClosesTun,
       StopClosesStack, Rollback, RefuseFlow, vars, ctxDone
  <2> QED
    BY <2>1 DEF Dialling, DialStage
<1>2. CASE StopCancels
  <2>1. UNCHANGED <<pc, assoc, relay, once>> /\ ~ctxDone /\ ctxDone'
    BY <1>2 DEF StopCancels, ctxDone
  <2> QED
    BY <2>1 DEF Dialling, DialStage, Dials!Next, Dials!Cancel
<1> QED
  BY <1>1, <1>2, HandlerDials, RelayDials DEF Next

\* handleUDPForwarder and pipeUDP dial as ProxyDial allows: no association is started
\* once ctx is done, and its sockets are closed once, by the failure or the shutdown
\* that ends it.
THEOREM UdpFlowsDial == Spec => DialsAsPromised
<1>1. Init => Dials!Init /\ Dialling
  BY DEF Init, Dials!Init, Dialling, DialStage, ctxDone, Gors
<1>2. Inv => FlowTypes
  BY DEF Inv
<1> QED
  BY <1>1, <1>2, InitInv, NextInv, DialsStep, PTL DEF Spec, DialsAsPromised, Dials!Spec
-----------------------------------------------------------------------------
(* UdpRelay, for every udpIdleTimeout and every amount of traffic: an idle   *)
(* flow is released in time, and nobody is stranded on the way.              *)

(* A datagram is read at the time it arrives, for the clock waits for readers;
   so the deadline of a direction is never further away than udpIdleTimeout
   from the last datagram that arrived in it.                              *)
Deadlines ==
  \A d \in Dirs :
    /\ heard[d] <= now
    /\ queue[d] > 0 /\ relayPc[d] = "run" /\ open[Reads(d)] => heard[d] = now
    /\ by[d] <= heard[d] + udpIdleTimeout

(* The sync.Once: its holder is in shutdown and will finish; nobody has returned
   before the ends were closed, and the association is closed by it alone.  *)
Once ==
  /\ onceBy \in Procs => relayPc[onceBy] = "shutdown" /\ ~open["gonet"]
  /\ onceBy = "done" => \A e \in Sockets : ~open[e]
  /\ onceBy # "done" => open["udp"] /\ \A p \in Procs : relayPc[p] # "returned"

RelayInv ==
  /\ RelayTypeOK
  /\ \A d \in Dirs : queue[d] <= came[d]
  /\ Deadlines /\ Once /\ IdleReleased

\* Both readers start with their deadlines ahead of them.
LEMMA RelayStarts == RelayInit => RelayInv
BY RelayAssumption DEF RelayInit, RelayInv, RelayTypeOK, Deadlines, Once,
   IdleReleased, LastHeard, Dirs, Procs, Sockets

(* A goroutine that leaves its loop only changes its own place.            *)
LEMMA LeaveInv ==
  ASSUME RelayInv, NEW p \in Procs, Leave(p),
         UNCHANGED <<now, by, came, ctrl, open, onceBy, heard>>,
         \/ queue' = queue
         \/ \E d \in Dirs : queue[d] > 0 /\ queue' = [queue EXCEPT ![d] = @ - 1],
         quiet' \in Nat \cup {-1}
  PROVE  RelayInv'
<1>1. RelayTypeOK' /\ (\A e \in Dirs : queue'[e] <= came'[e])
  BY RelayAssumption DEF RelayInv, RelayTypeOK, Leave
<1>2. Deadlines'
  BY DEF RelayInv, RelayTypeOK, Leave, Deadlines, Procs
<1>3. Once'
  BY DEF RelayInv, RelayTypeOK, Leave, Once
<1>4. IdleReleased'
  BY DEF RelayInv, RelayTypeOK, Leave, IdleReleased, LastHeard
<1> QED
  BY <1>1, <1>2, <1>3, <1>4 DEF RelayInv

\* The relay goroutines.
LEMMA RelayLoops ==
  ASSUME RelayInv, NEW d \in Dirs,
         Forward(d) \/ ForwardFails(d) \/ ReadTimeout(d) \/ ReadClosed(d)
  PROVE  RelayInv'
<1>1. CASE Forward(d)
  <2>1. RelayTypeOK' /\ (\A e \in Dirs : queue'[e] <= came'[e])
    BY <1>1, RelayAssumption DEF RelayInv, RelayTypeOK, Forward, Takes, Rearm
  <2>2. Deadlines'
    BY <1>1, RelayAssumption DEF RelayInv, RelayTypeOK, Forward, Takes, Rearm, Deadlines
  <2>3. Once' /\ IdleReleased'
    BY <1>1 DEF RelayInv, Forward, Once, IdleReleased, LastHeard
  <2> QED
    BY <2>1, <2>2, <2>3 DEF RelayInv
<1>2. d \in Procs
  BY DEF Procs
<1>3. CASE ForwardFails(d)
  BY <1>2, <1>3, LeaveInv DEF ForwardFails, Takes, RelayInv, RelayTypeOK
<1>4. CASE ReadTimeout(d)
  <2>1. now - LastHeard \in Nat
    BY DEF RelayInv, RelayTypeOK, Deadlines, LastHeard, Dirs
  <2>2. quiet' \in Nat \cup {-1}
    BY <1>4, <2>1 DEF ReadTimeout, RelayInv, RelayTypeOK
  <2> QED
    BY <1>2, <1>4, <2>2, LeaveInv DEF ReadTimeout, traffic
<1>5. CASE ReadClosed(d)
  BY <1>2, <1>5, LeaveInv DEF ReadClosed, traffic, RelayInv, RelayTypeOK
<1> QED
  BY <1>1, <1>3, <1>4, <1>5

\* The control monitor and wg.Wait().
LEMMA WaitersLeave ==
  ASSUME RelayInv, CtrlMonitor \/ PipesReturned
  PROVE  RelayInv'
<1>1. "ctrl" \in Procs /\ "main" \in Procs
  BY DEF Procs
<1> QED
  BY <1>1, LeaveInv DEF CtrlMonitor, PipesReturned, traffic, RelayInv, RelayTypeOK

\* shutdown, and CloseAllConnections: ends are closed, never opened.
LEMMA ClosingInv ==
  ASSUME RelayInv,
         \/ \E p \in Procs : CloseFirst(p) \/ CloseSecond(p) \/ CloseNothing(p)
         \/ CloseAll \/ ProxyDropsCtrl
  PROVE  RelayInv'
<1>1. /\ UNCHANGED <<now, by, queue, came, heard, quiet>>
      /\ \A e \in Sockets : open'[e] => open[e]
      /\ \A p \in Procs : relayPc'[p] = "run" <=> relayPc[p] = "run"
      /\ \A p \in Procs : relayPc'[p] # "returned" => relayPc[p] # "returned"
  BY DEF CloseFirst, CloseSecond, CloseNothing, CloseAll, ProxyDropsCtrl, traffic, RelayInv,
         RelayTypeOK, Sockets
<1>2. RelayTypeOK' /\ (\A e \in Dirs : queue'[e] <= came'[e])
  BY <1>1 DEF CloseFirst, CloseSecond, CloseNothing, CloseAll, ProxyDropsCtrl, RelayInv,
         RelayTypeOK
<1>3. Deadlines'
  BY <1>1 DEF RelayInv, Deadlines, Procs, Reads, Sockets, Dirs
<1>4. Once'
  <2>1. ASSUME NEW p \in Procs, CloseFirst(p) PROVE Once'
    BY <2>1 DEF CloseFirst, RelayInv, RelayTypeOK, Once, Sockets, Procs, Dirs
  <2>2. ASSUME NEW p \in Procs, CloseSecond(p) PROVE Once'
    <3>1. ~open["gonet"]
      BY <2>2 DEF CloseSecond, RelayInv, Once
    <3> QED
      BY <2>2 DEF CloseSecond, RelayInv, RelayTypeOK, Once, Sockets, Procs, Dirs
  <2>3. ASSUME NEW p \in Procs, CloseNothing(p) PROVE Once'
    BY <2>3 DEF CloseNothing, RelayInv, RelayTypeOK, Once, Procs, Dirs
  <2>4. CASE CloseAll \/ ProxyDropsCtrl
    BY <2>4 DEF CloseAll, ProxyDropsCtrl, RelayInv, RelayTypeOK, Once, Sockets
  <2> QED
    BY <2>1, <2>2, <2>3, <2>4
<1>5. IdleReleased'
  BY <1>1 DEF RelayInv, IdleReleased, LastHeard
<1> QED
  BY <1>2, <1>3, <1>4, <1>5 DEF RelayInv

\* A datagram waits until it is read: deadlines are armed by reads alone.
LEMMA ArrivesInv == ASSUME RelayInv, NEW d \in Dirs, Arrives(d) PROVE RelayInv'
<1>1. RelayTypeOK' /\ (\A e \in Dirs : queue'[e] <= came'[e])
  BY RelayAssumption DEF RelayInv, RelayTypeOK, Arrives
<1>2. Deadlines' /\ Once'
  BY RelayAssumption DEF RelayInv, RelayTypeOK, Arrives, Deadlines, Once
<1>3. IdleReleased'
  <2>1. LastHeard' >= LastHeard
    BY DEF RelayInv, RelayTypeOK, Arrives, Deadlines, LastHeard, Dirs
  <2>2. LastHeard \in Nat /\ LastHeard' \in Nat
    BY <1>1 DEF RelayInv, RelayTypeOK, LastHeard, Dirs
  <2>3. now' = now /\ now \in Nat
    BY DEF RelayInv, RelayTypeOK, Arrives
  <2>4. now <= LastHeard + udpIdleTimeout
    BY DEF RelayInv, Arrives, IdleReleased, Sockets, Reads
  <2>5. now' <= LastHeard' + udpIdleTimeout
    BY <2>1, <2>2, <2>3, <2>4, RelayAssumption DEF LastHeard
  <2> QED
    BY <2>5 DEF IdleReleased
<1> QED
  BY <1>1, <1>2, <1>3 DEF RelayInv

(* When all are blocked the holder of the sync.Once is not among them, so nobody
   waits in once.Do: either it was never taken, or it is done and all have left. *)
LEMMA BlockedTogether == RelayInv => RelayAllOrNothing
<1> SUFFICES ASSUME RelayInv, \A p \in Procs : Blocked(p)
             PROVE  \/ (\A p \in Procs : relayPc[p] = "run") /\ (\A e \in Sockets : open[e])
                    \/ (\A p \in Procs : relayPc[p] = "returned") /\ (\A e \in Sockets : ~open[e])
  BY DEF RelayAllOrNothing
<1>1. /\ relayPc \in [Procs -> {"run", "shutdown", "returned"}]
      /\ onceBy \in Procs \cup {"no", "done"}
  BY DEF RelayInv, RelayTypeOK
<1>2. onceBy \notin Procs
  <2> SUFFICES ASSUME onceBy \in Procs PROVE FALSE
    OBVIOUS
  <2>1. relayPc[onceBy] = "shutdown" /\ Blocked(onceBy)
    BY DEF RelayInv, Once
  <2> QED
    BY <2>1 DEF Blocked
<1>3. \A p \in Procs : relayPc[p] # "shutdown"
  BY <1>1, <1>2 DEF Blocked
<1>4. CASE onceBy = "no"
  <2>1. \A p \in Procs : relayPc[p] = "run"
    BY <1>1, <1>3, <1>4 DEF RelayInv, Once
  <2>2. open["gonet"] /\ open["udp"]
    BY <2>1 DEF Blocked, Procs, Dirs, Reads
  <2> QED
    BY <2>1, <2>2 DEF Sockets
<1>5. CASE onceBy = "done"
  <2>1. \A e \in Sockets : ~open[e]
    BY <1>5 DEF RelayInv, Once
  <2>2. relayPc["tx"] # "run" /\ relayPc["rx"] # "run" /\ relayPc["ctrl"] # "run"
    BY <2>1 DEF Blocked, CtrlGone, Procs, Dirs, Sockets, Reads
  <2>3. relayPc["main"] # "run"
    BY <1>1, <1>3, <2>2 DEF Blocked, Finished, Procs, Dirs
  <2>4. \A p \in Procs : relayPc[p] = "returned"
    BY <1>1, <1>3, <2>2, <2>3 DEF Procs, Dirs
  <2> QED
    BY <2>1, <2>4
<1> QED
  BY <1>1, <1>2, <1>4, <1>5

(* The clock moves with both readers blocked, ahead of both deadlines.     *)
LEMMA TickInv == ASSUME RelayInv, Tick PROVE RelayInv'
<1>1. \A p \in Procs : relayPc[p] = "run"
  BY BlockedTogether DEF Tick, RelayAllOrNothing
<1>2. \A d \in Dirs : ~(queue[d] > 0) /\ now < by[d]
  BY <1>1, RelayAssumption DEF RelayInv, RelayTypeOK, Tick, Blocked, Procs, Dirs
<1>3. RelayTypeOK' /\ (\A e \in Dirs : queue'[e] <= came'[e])
  BY RelayAssumption DEF RelayInv, RelayTypeOK, Tick, traffic
<1>4. Deadlines' /\ Once'
  BY <1>2 DEF RelayInv, RelayTypeOK, Tick, Deadlines, Once, traffic
<1>5. IdleReleased'
  BY <1>2, RelayAssumption DEF RelayInv, RelayTypeOK, Tick, Deadlines, IdleReleased,
     LastHeard, Dirs, traffic
<1> QED
  BY <1>3, <1>4, <1>5 DEF RelayInv

\* Every step preserves the invariant.
LEMMA RelayKeepsInv == RelayInv /\ [RelayNext]_relayVars => RelayInv'
<1> SUFFICES ASSUME RelayInv, [RelayNext]_relayVars PROVE RelayInv'
  OBVIOUS
<1>1. CASE UNCHANGED relayVars
  BY <1>1 DEF relayVars, traffic, RelayInv, RelayTypeOK, Deadlines, Once, IdleReleased,
     LastHeard
<1> QED
  BY <1>1, RelayLoops, WaitersLeave, ClosingInv, ArrivesInv, TickInv DEF RelayNext, pipeUDP

\* Type correctness of the relay.
THEOREM RelayTypesHold == RelaySpec => []RelayTypeOK
<1>1. RelayInv => RelayTypeOK
  BY DEF RelayInv
<1> QED
  BY RelayStarts, RelayKeepsInv, <1>1, PTL DEF RelaySpec

\* However datagrams, write errors and the control connection interleave, pipeUDP never
\* keeps a goroutine or a socket of a flow that has heard nothing for udpIdleTimeout.
THEOREM IdleReleasedHolds == RelaySpec => []IdleReleased
<1>1. RelayInv => IdleReleased
  BY DEF RelayInv
<1> QED
  BY RelayStarts, RelayKeepsInv, <1>1, PTL DEF RelaySpec

\* In every order of the four goroutines through the shared shutdown none of them is
\* left behind and neither end is left open.
THEOREM RelayAllOrNothingHolds == RelaySpec => []RelayAllOrNothing
<1> QED
  BY RelayStarts, RelayKeepsInv, BlockedTogether, PTL DEF RelaySpec
=============================================================================
