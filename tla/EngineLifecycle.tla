--------------------------- MODULE EngineLifecycle ---------------------------
(***************************************************************************)
(* The life of an Engine behind the gomobile API: TeapodTun2socks.Start    *)
(* and Stop (go/teapod_tun2socks.go), Engine.Start, Engine.Stop, the two   *)
(* TUN loops and the self-stop that tunReadLoop launches when the TUN fd   *)
(* is closed under it (go/engine.go).                                      *)
(*                                                                         *)
(* Goroutines: the callers of the API; per engine the goroutine that runs  *)
(* Engine.Start, tunReadLoop, tunWriteLoop, and the self-stop goroutine,   *)
(* which is named by its engine.  Every atomic operation, channel          *)
(* operation and mutex-protected section is one action.                    *)
(***************************************************************************)
EXTENDS Naturals, FiniteSets

CONSTANTS
  Callers,       \* threads that call Start and Stop
  Engines,       \* the Engine objects NewEngine may create, each used once
  NoEngine,      \* t.engine = nil
  MaxQueue,      \* capacity of the gVisor -> tunWriteLoop channel (channelSize)
  AwaitRunning   \* TRUE: callers call Stop only once IsRunning() was true

ASSUME LifecycleAssumption ==
  /\ NoEngine \notin Engines
  /\ Callers \cap Engines = {}
  /\ MaxQueue \in Nat \ {0}
  /\ AwaitRunning \in BOOLEAN

VARIABLES
  engine,       \* t.engine
  born,         \* the engines NewEngine has returned
  running,      \* e.running
  cancelled,    \* e.ctx is done
  stopCh,       \* e.stopCh is closed
  tunOpen,      \* e.tunFile, the dup of the TUN fd, is open
  tunUp,        \* the TUN device behind the fd still exists
  stackClosed,  \* e.stack.Close() was called
  wg,           \* the counter of e.wg
  queue,        \* packets waiting in e.endpoint
  startPc,      \* where the goroutine running Engine.Start is
  readPc,       \* where tunReadLoop is
  writePc,      \* where tunWriteLoop is
  stopPc,       \* where a call of Stop is
  target        \* the engine that call of Stop works on

api     == <<engine, born>>
flags   == <<running, cancelled, stopCh, tunOpen, stackClosed>>
loops   == <<wg, queue, startPc, readPc, writePc>>
stops   == <<stopPc, target>>
vars    == <<api, flags, tunUp, loops, stops>>

Stoppers == Callers \cup Engines

StartSteps == {"none", "launched", "addRead", "addWrite", "await", "returned"}
ReadSteps  == {"off", "check", "read", "done"}
WriteSteps == {"off", "recv", "write", "done"}
TearDown   == {"cancel", "closeCh", "closeTun", "closeStack", "wait"}
StopSteps  == {"idle", "cas"} \cup TearDown

Init ==
  /\ engine = NoEngine
  /\ born = {}
  /\ running     = [e \in Engines |-> FALSE]
  /\ cancelled   = [e \in Engines |-> FALSE]
  /\ stopCh      = [e \in Engines |-> FALSE]
  /\ tunOpen     = [e \in Engines |-> FALSE]
  /\ tunUp       = [e \in Engines |-> TRUE]
  /\ stackClosed = [e \in Engines |-> FALSE]
  /\ wg          = [e \in Engines |-> 0]
  /\ queue       = [e \in Engines |-> 0]
  /\ startPc     = [e \in Engines |-> "none"]
  /\ readPc      = [e \in Engines |-> "off"]
  /\ writePc     = [e \in Engines |-> "off"]
  /\ stopPc      = [p \in Stoppers |-> "idle"]
  /\ target      = [p \in Stoppers |-> NoEngine]

-----------------------------------------------------------------------------
(* TeapodTun2socks.Start and the goroutine it launches.                    *)

\* A fresh stack, context and stop channel, and a dup of the TUN fd.  When one of
\* its steps fails NewEngine undoes the ones before and nothing has changed.
NewEngine(e) ==
  /\ born' = born \cup {e}
  /\ tunOpen' = [tunOpen EXCEPT ![e] = TRUE]

\* The next engine to be created; which of those not yet used makes no difference.
Fresh == {e \in Engines \ born : e = CHOOSE x \in Engines \ born : TRUE}

\* TeapodTun2socks.Start, one section under t.mu.  With an engine in place, or
\* when NewEngine fails, the call changes nothing.
ApiStart(c) ==
  /\ stopPc[c] = "idle"
  /\ engine = NoEngine
  /\ \E e \in Fresh :
       /\ NewEngine(e)
       /\ engine' = e
       /\ startPc' = [startPc EXCEPT ![e] = "launched"]
  /\ UNCHANGED <<running, cancelled, stopCh, stackClosed, tunUp,
                 wg, queue, readPc, writePc, stops>>

\* e.running.CompareAndSwap(false, true).  Each engine's Start runs once, so
\* the "engine already running" return is never taken.
StartCAS(e) ==
  /\ startPc[e] = "launched"
  /\ running' = [running EXCEPT ![e] = TRUE]
  /\ startPc' = [startPc EXCEPT ![e] = "addRead"]
  /\ UNCHANGED <<api, cancelled, stopCh, tunOpen, stackClosed, tunUp,
                 wg, queue, readPc, writePc, stops>>

\* Mutant: one Add(2) for both loops, with the second Add left in place.
StartReadLoopAddsTwo(e) ==
  /\ startPc[e] = "addRead"
  /\ wg' = [wg EXCEPT ![e] = @ + 2]
  /\ readPc' = [readPc EXCEPT ![e] = "check"]
  /\ startPc' = [startPc EXCEPT ![e] = "addWrite"]
  /\ UNCHANGED <<api, flags, tunUp, queue, writePc, stops>>

\* e.wg.Add(1) and go tunReadLoop.
StartReadLoop(e) ==
  /\ startPc[e] = "addRead"
  /\ wg' = [wg EXCEPT ![e] = @ + 1]
  /\ readPc' = [readPc EXCEPT ![e] = "check"]
  /\ startPc' = [startPc EXCEPT ![e] = "addWrite"]
  /\ UNCHANGED <<api, flags, tunUp, queue, writePc, stops>>

\* e.wg.Add(1) and go tunWriteLoop.
StartWriteLoop(e) ==
  /\ startPc[e] = "addWrite"
  /\ wg' = [wg EXCEPT ![e] = @ + 1]
  /\ writePc' = [writePc EXCEPT ![e] = "recv"]
  /\ startPc' = [startPc EXCEPT ![e] = "await"]
  /\ UNCHANGED <<api, flags, tunUp, queue, readPc, stops>>

\* <-e.stopCh
StartReturns(e) ==
  /\ startPc[e] = "await"
  /\ stopCh[e]
  /\ startPc' = [startPc EXCEPT ![e] = "returned"]
  /\ UNCHANGED <<api, flags, tunUp, wg, queue, readPc, writePc, stops>>

-----------------------------------------------------------------------------
(* tunReadLoop.                                                            *)

\* The select on stopCh at the head of the loop.
ReadCheck(e) ==
  /\ readPc[e] = "check"
  /\ IF stopCh[e]
     THEN /\ readPc' = [readPc EXCEPT ![e] = "done"]
          /\ wg' = [wg EXCEPT ![e] = @ - 1]
     ELSE /\ readPc' = [readPc EXCEPT ![e] = "read"]
          /\ UNCHANGED wg
  /\ UNCHANGED <<api, flags, tunUp, queue, startPc, writePc, stops>>

\* tunFile.Read returns a packet: it is filtered, rejected or injected, and the
\* loop goes round.  What happens to the packet is not this module's concern.
ReadPacket(e) ==
  /\ readPc[e] = "read"
  /\ tunOpen[e] /\ tunUp[e]
  /\ readPc' = [readPc EXCEPT ![e] = "check"]
  /\ UNCHANGED <<api, flags, tunUp, wg, queue, startPc, writePc, stops>>

\* Mutant: the fd is left in blocking mode, so our own Close does not interrupt
\* a read.
ReadErrorBlocking(e) ==
  /\ readPc[e] = "read"
  /\ ~tunUp[e]
  /\ readPc' = [readPc EXCEPT ![e] = "done"]
  /\ wg' = [wg EXCEPT ![e] = @ - 1]
  /\ IF running[e]
     THEN /\ stopPc' = [stopPc EXCEPT ![e] = "cas"]
          /\ target' = [target EXCEPT ![e] = e]
     ELSE UNCHANGED <<stopPc, target>>
  /\ UNCHANGED <<api, flags, tunUp, queue, startPc, writePc>>

\* Mutant: the read loop just ends when the fd is closed externally.
ReadErrorSilent(e) ==
  /\ readPc[e] = "read"
  /\ ~(tunOpen[e] /\ tunUp[e])
  /\ readPc' = [readPc EXCEPT ![e] = "done"]
  /\ wg' = [wg EXCEPT ![e] = @ - 1]
  /\ UNCHANGED <<api, flags, tunUp, queue, startPc, writePc, stops>>

\* tunFile.Read fails: our own Close, or the fd was closed externally.  In the
\* second case e.running still holds and the loop launches go e.Stop().
ReadError(e) ==
  /\ readPc[e] = "read"
  /\ ~(tunOpen[e] /\ tunUp[e])
  /\ readPc' = [readPc EXCEPT ![e] = "done"]
  /\ wg' = [wg EXCEPT ![e] = @ - 1]
  /\ IF running[e]
     THEN /\ stopPc' = [stopPc EXCEPT ![e] = "cas"]
          /\ target' = [target EXCEPT ![e] = e]
     ELSE UNCHANGED <<stopPc, target>>
  /\ UNCHANGED <<api, flags, tunUp, queue, startPc, writePc>>

-----------------------------------------------------------------------------
(* tunWriteLoop.  ReadContext selects between a packet and ctx.Done(): when
   both are ready either may be taken.                                      *)

WriteRecv(e) ==
  /\ writePc[e] = "recv"
  /\ queue[e] > 0
  /\ queue' = [queue EXCEPT ![e] = @ - 1]
  /\ writePc' = [writePc EXCEPT ![e] = "write"]
  /\ UNCHANGED <<api, flags, tunUp, wg, startPc, readPc, stops>>

\* tunFile.Write; an error is logged and the loop goes on.
WriteTun(e) ==
  /\ writePc[e] = "write"
  /\ writePc' = [writePc EXCEPT ![e] = "recv"]
  /\ UNCHANGED <<api, flags, tunUp, wg, queue, startPc, readPc, stops>>

\* Packets left in the channel are never looked at.
WriteCancelled(e) ==
  /\ writePc[e] = "recv"
  /\ cancelled[e]
  /\ writePc' = [writePc EXCEPT ![e] = "done"]
  /\ wg' = [wg EXCEPT ![e] = @ - 1]
  /\ queue' = [queue EXCEPT ![e] = 0]
  /\ UNCHANGED <<api, flags, tunUp, startPc, readPc, stops>>

-----------------------------------------------------------------------------
(* TeapodTun2socks.Stop and Engine.Stop.                                   *)

\* The section under t.mu: take t.engine and forget it.  Without an engine the
\* call returns at once.
ApiStop(c) ==
  /\ stopPc[c] = "idle"
  /\ engine # NoEngine
  /\ AwaitRunning => startPc[engine] # "launched"
  /\ stopPc' = [stopPc EXCEPT ![c] = "cas"]
  /\ target' = [target EXCEPT ![c] = engine]
  /\ engine' = NoEngine
  /\ UNCHANGED <<born, flags, tunUp, loops>>

\* The call of Stop made by p returns.
Return(p) ==
  /\ stopPc' = [stopPc EXCEPT ![p] = "idle"]
  /\ target' = [target EXCEPT ![p] = NoEngine]

\* Mutant: Load instead of CompareAndSwap.
StopLoad(p) ==
  /\ stopPc[p] = "cas"
  /\ IF running[target[p]]
     THEN /\ stopPc' = [stopPc EXCEPT ![p] = "cancel"]
          /\ UNCHANGED target
     ELSE Return(p)
  /\ UNCHANGED <<api, flags, tunUp, loops>>

\* e.running.CompareAndSwap(true, false), or return.
StopCAS(p) ==
  /\ stopPc[p] = "cas"
  /\ LET e == target[p] IN
       IF running[e]
       THEN /\ running' = [running EXCEPT ![e] = FALSE]
            /\ stopPc' = [stopPc EXCEPT ![p] = "cancel"]
            /\ UNCHANGED target
       ELSE Return(p) /\ UNCHANGED running
  /\ UNCHANGED <<api, cancelled, stopCh, tunOpen, stackClosed, tunUp, loops>>

StopCancel(p) ==
  /\ stopPc[p] = "cancel"
  /\ cancelled' = [cancelled EXCEPT ![target[p]] = TRUE]
  /\ stopPc' = [stopPc EXCEPT ![p] = "closeCh"]
  /\ UNCHANGED <<api, running, stopCh, tunOpen, stackClosed, tunUp,
                 loops, target>>

\* close(e.stopCh): panics if the channel is closed already.
StopCloseCh(p) ==
  /\ stopPc[p] = "closeCh"
  /\ stopCh' = [stopCh EXCEPT ![target[p]] = TRUE]
  /\ stopPc' = [stopPc EXCEPT ![p] = "closeTun"]
  /\ UNCHANGED <<api, running, cancelled, tunOpen, stackClosed, tunUp,
                 loops, target>>

StopCloseTun(p) ==
  /\ stopPc[p] = "closeTun"
  /\ tunOpen' = [tunOpen EXCEPT ![target[p]] = FALSE]
  /\ stopPc' = [stopPc EXCEPT ![p] = "closeStack"]
  /\ UNCHANGED <<api, running, cancelled, stopCh, stackClosed, tunUp,
                 loops, target>>

StopCloseStack(p) ==
  /\ stopPc[p] = "closeStack"
  /\ stackClosed' = [stackClosed EXCEPT ![target[p]] = TRUE]
  /\ stopPc' = [stopPc EXCEPT ![p] = "wait"]
  /\ UNCHANGED <<api, running, cancelled, stopCh, tunOpen, tunUp,
                 loops, target>>

\* e.wg.Wait()
StopWait(p) ==
  /\ stopPc[p] = "wait"
  /\ wg[target[p]] = 0
  /\ Return(p)
  /\ UNCHANGED <<api, flags, tunUp, loops>>

-----------------------------------------------------------------------------
(* Environment.                                                            *)

\* Android revokes the VPN: reads of the fd fail from now on.  (A revocation after
\* the last read shows nowhere.)
TunRevoked(e) ==
  /\ e \in born /\ readPc[e] # "done"
  /\ tunUp[e] /\ tunOpen[e]
  /\ tunUp' = [tunUp EXCEPT ![e] = FALSE]
  /\ UNCHANGED <<api, flags, loops, stops>>

\* gVisor queues a packet for the TUN, in answer to one that was read; a full channel
\* drops it.  What it queues once tunWriteLoop has ended is never looked at.
StackEmits(e) ==
  /\ readPc[e] # "off" /\ writePc[e] # "done"
  /\ ~stackClosed[e]
  /\ queue[e] < MaxQueue
  /\ queue' = [queue EXCEPT ![e] = @ + 1]
  /\ UNCHANGED <<api, flags, tunUp, wg, startPc, readPc, writePc, stops>>

-----------------------------------------------------------------------------
EngineStart(e)  == StartCAS(e) \/ StartReadLoop(e) \/ StartWriteLoop(e)
                     \/ StartReturns(e)
tunReadLoop(e)  == ReadCheck(e) \/ ReadPacket(e) \/ ReadError(e)
tunWriteLoop(e) == WriteRecv(e) \/ WriteTun(e) \/ WriteCancelled(e)
EngineStop(p)   == StopCAS(p) \/ StopCancel(p) \/ StopCloseCh(p)
                     \/ StopCloseTun(p) \/ StopCloseStack(p) \/ StopWait(p)

Next ==
  \/ \E c \in Callers : ApiStart(c) \/ ApiStop(c)
  \/ \E p \in Stoppers : EngineStop(p)
  \/ \E e \in Engines : \/ EngineStart(e) \/ tunReadLoop(e) \/ tunWriteLoop(e)
                        \/ TunRevoked(e) \/ StackEmits(e)

Spec == Init /\ [][Next]_vars

\* The Go scheduler runs every goroutine that can run: the started goroutines
\* and the calls of Stop are weakly fair.  Callers and the environment are not,
\* so no packet is ever promised to a blocked read of the TUN fd.
Fairness ==
  /\ \A e \in Engines : /\ WF_vars(EngineStart(e))
                         /\ WF_vars(ReadCheck(e) \/ ReadError(e))
                         /\ WF_vars(tunWriteLoop(e))
  /\ \A p \in Stoppers : WF_vars(EngineStop(p))

FairSpec == Spec /\ Fairness

-----------------------------------------------------------------------------
(* Properties.                                                             *)

\* Every variable of the engines, the API and the calls of Stop keeps its type.
TypeOK ==
  /\ engine \in Engines \cup {NoEngine}
  /\ born \subseteq Engines
  /\ running \in [Engines -> BOOLEAN]
  /\ cancelled \in [Engines -> BOOLEAN]
  /\ stopCh \in [Engines -> BOOLEAN]
  /\ tunOpen \in [Engines -> BOOLEAN]
  /\ tunUp \in [Engines -> BOOLEAN]
  /\ stackClosed \in [Engines -> BOOLEAN]
  /\ wg \in [Engines -> 0..2]
  /\ queue \in [Engines -> 0..MaxQueue]
  /\ startPc \in [Engines -> StartSteps]
  /\ readPc \in [Engines -> ReadSteps]
  /\ writePc \in [Engines -> WriteSteps]
  /\ stopPc \in [Stoppers -> StopSteps]
  /\ target \in [Stoppers -> Engines \cup {NoEngine}]

TearingDown(p) == stopPc[p] \in TearDown

\* However API calls of Stop and the self-stop of tunReadLoop race, at most one
\* of them tears an engine down, and close(e.stopCh) never meets a channel that
\* is closed already, which would panic and take the whole app down.
SingleShutdown ==
  /\ \A p, q \in Stoppers :
       TearingDown(p) /\ TearingDown(q) /\ target[p] = target[q] => p = q
  /\ \A p \in Stoppers : stopPc[p] = "closeCh" => ~stopCh[target[p]]

\* Two engines never read the same TUN device at once: a caller that stops one
\* engine and starts the next cannot have packets split between the two (each
\* packet goes to one reader only).
SingleReader ==
  \A d, e \in Engines :
    readPc[d] = "read" /\ tunOpen[d] /\ readPc[e] = "read" /\ tunOpen[e] => d = e

\* The loops of an engine have ended and its copy of the TUN fd is closed.
Quiesced(e) ==
  /\ ~running[e] /\ ~tunOpen[e] /\ stackClosed[e]
  /\ startPc[e] = "returned" /\ readPc[e] = "done" /\ writePc[e] = "done"

\* An engine the API has let go of comes to rest: goroutines ended, the dup'ed fd
\* closed, the stack closed, even if no packet ever arrives.
StopTearsDown ==
  \A e \in Engines : (e \in born /\ engine # e) ~> Quiesced(e)

\* When Android closes the TUN under a running engine, IsRunning() turns false
\* without any call from the app: this is what its heartbeat waits for.
RevokedDetected ==
  \A e \in Engines : (~tunUp[e] /\ running[e]) ~> ~running[e]

\* teapod_tun2socks.go:68 "Stop gracefully shuts down TeapodTun2socks": an engine
\* that runs is the API's current one, or some call of Stop is about to stop it.
NoOrphanEngine ==
  \A e \in Engines : running[e] =>
    \/ engine = e
    \/ \E p \in Stoppers : stopPc[p] = "cas" /\ target[p] = e
=============================================================================
