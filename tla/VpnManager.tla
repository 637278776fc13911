----------------------------- MODULE VpnManager -----------------------------
(***************************************************************************)
(* TeapodVpnManager (Kotlin) over the gomobile API: start() and stop() are *)
(* @Synchronized on the manager, isRunning() is not.                       *)
(*                                                                         *)
(* The manager makes a TeapodTun2socks object per start and drops it in    *)
(* stop(); an object is dropped with no engine left in it, so "engine" is  *)
(* that of the current object.  Callers are the app's threads that use the *)
(* manager.                                                                *)
(***************************************************************************)
EXTENDS EngineLifecycle

CONSTANT NoCaller   \* the monitor is free

ASSUME ManagerAssumption == NoCaller \notin Callers

VARIABLES
  isStarted,
  monitor      \* the thread inside stop()

managed     == <<isStarted, monitor>>
managerVars == <<vars, managed>>

ManagerInit == Init /\ isStarted = FALSE /\ monitor = NoCaller

\* start() never blocks inside, so it is one step: it throws and changes nothing
\* when isStarted, for a bad fd, or when the API returns an error.
Start(c) ==
  /\ monitor = NoCaller
  /\ ~isStarted
  /\ ApiStart(c)
  /\ isStarted' = TRUE
  /\ UNCHANGED monitor

\* Mutant: stop() is not @Synchronized and clears isStarted first.
StopUnsynchronized(c) ==
  /\ monitor = NoCaller
  /\ isStarted
  /\ ApiStop(c)
  /\ isStarted' = FALSE
  /\ UNCHANGED monitor

\* stop() up to the call of Engine.Stop; without isStarted it returns.
Stop(c) ==
  /\ monitor = NoCaller
  /\ isStarted
  /\ ApiStop(c)
  /\ monitor' = c
  /\ UNCHANGED isStarted

\* The finally block, once the API call is back.
StopFinally(c) ==
  /\ monitor = c
  /\ stopPc[c] = "idle"
  /\ isStarted' = FALSE
  /\ monitor' = NoCaller
  /\ UNCHANGED vars

Underneath ==
  /\ \/ \E p \in Stoppers : EngineStop(p)
     \/ \E e \in Engines : \/ EngineStart(e) \/ tunReadLoop(e) \/ tunWriteLoop(e)
                           \/ TunRevoked(e) \/ StackEmits(e)
  /\ UNCHANGED managed

ManagerNext ==
  \/ \E c \in Callers : Start(c) \/ Stop(c) \/ StopFinally(c)
  \/ Underneath

\* As in EngineLifecycle; a thread inside stop() goes on when the call is back.
ManagerSpec ==
  /\ ManagerInit /\ [][ManagerNext]_managerVars
  /\ Fairness
  /\ \A c \in Callers : WF_managerVars(StopFinally(c))

-----------------------------------------------------------------------------
(* Properties.                                                             *)

\* Manager and Go object agree whenever the monitor is free: started exactly when
\* an engine is in place, and no thread inside Go's Stop.  So start() never gets
\* "already started" from the API, and one stop() at most is under way.
ManagerInSync ==
  /\ monitor = NoCaller => (isStarted <=> engine # NoEngine)
  /\ \A c \in Callers : stopPc[c] # "idle" => monitor = c

\* stop() returns, whoever else tears the engine down meanwhile: the monitor is not
\* held for ever, which would block every later start() and stop().
StopReturns == monitor # NoCaller ~> monitor = NoCaller
=============================================================================
