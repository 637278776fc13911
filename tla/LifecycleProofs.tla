--------------------------- MODULE LifecycleProofs ---------------------------
(***************************************************************************)
(* Proofs about EngineLifecycle and about VpnManager, which uses it, for   *)
(* any number of callers and engines: types, SingleShutdown, who answers   *)
(* for a running engine, ManagerInSync and SingleReader.                   *)
(***************************************************************************)
EXTENDS VpnManager, Integers, TLAPS

(* TypeOK without the bound on wg.                                         *)
Types ==
  /\ engine \in Engines \cup {NoEngine}
  /\ born \subseteq Engines
  /\ running \in [Engines -> BOOLEAN]
  /\ cancelled \in [Engines -> BOOLEAN]
  /\ stopCh \in [Engines -> BOOLEAN]
  /\ tunOpen \in [Engines -> BOOLEAN]
  /\ tunUp \in [Engines -> BOOLEAN]
  /\ stackClosed \in [Engines -> BOOLEAN]
  /\ wg \in [Engines -> Int]
  /\ queue \in [Engines -> 0..MaxQueue]
  /\ startPc \in [Engines -> StartSteps]
  /\ readPc \in [Engines -> ReadSteps]
  /\ writePc \in [Engines -> WriteSteps]
  /\ stopPc \in [Stoppers -> StopSteps]
  /\ target \in [Stoppers -> Engines \cup {NoEngine}]

(* The wait group counts the loops that live; a loop not launched is off.  *)
Loops ==
  \A e \in Engines :
    /\ wg[e] = (IF readPc[e] \in {"check", "read"} THEN 1 ELSE 0)
                 + (IF writePc[e] \in {"recv", "write"} THEN 1 ELSE 0)
    /\ startPc[e] \in {"none", "launched", "addRead"} => readPc[e] = "off"
    /\ startPc[e] \in {"none", "launched", "addRead", "addWrite"} => writePc[e] = "off"

(* Before Engine.Start has run its CAS, and while running holds, the stop
   channel is open; an engine that is not born has no Start goroutine.      *)
Flags ==
  \A e \in Engines :
    /\ e \notin born => startPc[e] = "none"
    /\ startPc[e] \in {"none", "launched"} => ~running[e] /\ ~stopCh[e]
    /\ running[e] => ~stopCh[e]

(* Who passed the CAS of Stop owns the teardown: the flag is down, Start cannot
   raise it again, and nobody else passed for that engine.                    *)
Owners ==
  /\ \A p \in Stoppers :
       /\ stopPc[p] # "idle" => target[p] \in Engines
       /\ stopPc[p] \in TearDown =>
            ~running[target[p]] /\ startPc[target[p]] \notin {"none", "launched"}
       /\ stopPc[p] \in {"cancel", "closeCh"} => ~stopCh[target[p]]
  /\ \A p, q \in Stoppers :
       stopPc[p] \in TearDown /\ stopPc[q] \in TearDown /\ target[p] = target[q] => p = q

Inv == Types /\ Loops /\ Flags /\ Owners

(* Before the first Start there is no engine.                              *)
LEMMA InitInv == Init => Inv
<1> SUFFICES ASSUME Init PROVE Inv
  OBVIOUS
<1>1. Types
  BY LifecycleAssumption
    DEF Init, Types, StartSteps, ReadSteps, WriteSteps, StopSteps
<1>2. Loops /\ Flags
  BY DEF Init, Loops, Flags
<1>3. Owners
  BY DEF Init, Owners, TearDown
<1> QED
  BY <1>1, <1>2, <1>3 DEF Inv

(* NewEngine returns an object nobody has used.                            *)
LEMMA FreshIsNew == \A e \in Fresh : e \in Engines /\ e \notin born
BY Zenon DEF Fresh

(* Engine.Start.                                                           *)
LEMMA StartInv ==
  ASSUME Inv, NEW e \in Engines, EngineStart(e)
  PROVE  Inv'
<1> USE DEF Inv, Stoppers
<1>1. CASE StartCAS(e)
  <2>1. Types'
    BY <1>1, LifecycleAssumption
      DEF Types, StartSteps, ReadSteps, WriteSteps, StopSteps, TearDown,
          StartCAS, api, flags, loops, stops
  <2>2. Loops'
    BY <1>1 DEF Loops, Types, StartCAS, api, flags, loops, stops
  <2>3. Flags'
    BY <1>1 DEF Flags, Types, StartCAS, api, flags, loops, stops
  <2>4. Owners'
    BY <1>1 DEF Owners, Types, Flags, TearDown, StartCAS, api, flags, loops, stops
  <2> QED
    BY <2>1, <2>2, <2>3, <2>4
<1>2. CASE StartReadLoop(e)
  <2>1. Types'
    BY <1>2, LifecycleAssumption
      DEF Types, StartSteps, ReadSteps, WriteSteps, StopSteps, TearDown,
          StartReadLoop, api, flags, loops, stops
  <2>2. Loops'
    BY <1>2 DEF Loops, Types, StartReadLoop, api, flags, loops, stops
  <2>3. Flags'
    BY <1>2 DEF Flags, Types, StartReadLoop, api, flags, loops, stops
  <2>4. Owners'
    BY <1>2
      DEF Owners, Types, Flags, TearDown, StartReadLoop, api, flags, loops,
          stops
  <2> QED
    BY <2>1, <2>2, <2>3, <2>4
<1>3. CASE StartWriteLoop(e)
  <2>1. Types'
    BY <1>3, LifecycleAssumption
      DEF Types, StartSteps, ReadSteps, WriteSteps, StopSteps, TearDown,
          StartWriteLoop, api, flags, loops, stops
  <2>2. Loops'
    BY <1>3 DEF Loops, Types, StartWriteLoop, api, flags, loops, stops
  <2>3. Flags'
    BY <1>3 DEF Flags, Types, StartWriteLoop, api, flags, loops, stops
  <2>4. Owners'
    BY <1>3
      DEF Owners, Types, Flags, TearDown, StartWriteLoop, api, flags, loops,
          stops
  <2> QED
    BY <2>1, <2>2, <2>3, <2>4
<1>4. CASE StartReturns(e)
  <2>1. Types'
    BY <1>4, LifecycleAssumption
      DEF Types, StartSteps, ReadSteps, WriteSteps, StopSteps, TearDown,
          StartReturns, api, flags, loops, stops
  <2>2. Loops'
    BY <1>4 DEF Loops, Types, StartReturns, api, flags, loops, stops
  <2>3. Flags'
    BY <1>4 DEF Flags, Types, StartReturns, api, flags, loops, stops
  <2>4. Owners'
    BY <1>4
      DEF Owners, Types, Flags, TearDown, StartReturns, api, flags, loops, stops
  <2> QED
    BY <2>1, <2>2, <2>3, <2>4
<1> QED
  BY <1>1, <1>2, <1>3, <1>4 DEF EngineStart

(* tunReadLoop.                                                            *)
LEMMA ReadLoopInv ==
  ASSUME Inv, NEW e \in Engines, tunReadLoop(e)
  PROVE  Inv'
<1> USE DEF Inv, Stoppers
<1>1. CASE ReadCheck(e)
  <2>1. Types'
    BY <1>1, LifecycleAssumption
      DEF Types, StartSteps, ReadSteps, WriteSteps, StopSteps, TearDown,
          ReadCheck, api, flags, loops, stops
  <2>2. Loops'
    BY <1>1 DEF Loops, Types, ReadCheck, api, flags, loops, stops
  <2>3. Flags'
    BY <1>1 DEF Flags, Types, ReadCheck, api, flags, loops, stops
  <2>4. Owners'
    BY <1>1 DEF Owners, Types, Flags, TearDown, ReadCheck, api, flags, loops, stops
  <2> QED
    BY <2>1, <2>2, <2>3, <2>4
<1>2. CASE ReadPacket(e)
  <2>1. Types'
    BY <1>2, LifecycleAssumption
      DEF Types, StartSteps, ReadSteps, WriteSteps, StopSteps, TearDown,
          ReadPacket, api, flags, loops, stops
  <2>2. Loops'
    BY <1>2 DEF Loops, Types, ReadPacket, api, flags, loops, stops
  <2>3. Flags'
    BY <1>2 DEF Flags, Types, ReadPacket, api, flags, loops, stops
  <2>4. Owners'
    BY <1>2 DEF Owners, Types, Flags, TearDown, ReadPacket, api, flags, loops, stops
  <2> QED
    BY <2>1, <2>2, <2>3, <2>4
<1>3. CASE ReadError(e)
  <2>1. Types'
    BY <1>3, LifecycleAssumption
      DEF Types, StartSteps, ReadSteps, WriteSteps, StopSteps, TearDown,
          ReadError, api, flags, loops, stops
  <2>2. Loops'
    BY <1>3 DEF Loops, Types, ReadError, api, flags, loops, stops
  <2>3. Flags'
    BY <1>3 DEF Flags, Types, ReadError, api, flags, loops, stops
  <2>4. Owners'
    <3>1. UNCHANGED <<running, stopCh, startPc>>
      BY <1>3 DEF ReadError, flags
    <3>2. CASE running[e]
      <4>1. /\ stopPc' = [stopPc EXCEPT ![e] = "cas"]
            /\ target' = [target EXCEPT ![e] = e]
        BY <1>3, <3>2 DEF ReadError
      <4> QED
        BY <3>1, <4>1 DEF Owners, Types, TearDown
    <3>3. CASE ~running[e]
      <4>1. UNCHANGED <<stopPc, target>>
        BY <1>3, <3>3 DEF ReadError
      <4> QED
        BY <3>1, <4>1 DEF Owners
    <3> QED
      BY <3>2, <3>3
  <2> QED
    BY <2>1, <2>2, <2>3, <2>4
<1> QED
  BY <1>1, <1>2, <1>3 DEF tunReadLoop

(* tunWriteLoop.                                                           *)
LEMMA WriteLoopInv ==
  ASSUME Inv, NEW e \in Engines, tunWriteLoop(e)
  PROVE  Inv'
<1> USE DEF Inv, Stoppers
<1>1. CASE WriteRecv(e)
  <2>1. Types'
    BY <1>1, LifecycleAssumption
      DEF Types, StartSteps, ReadSteps, WriteSteps, StopSteps, TearDown,
          WriteRecv, api, flags, loops, stops
  <2>2. Loops'
    BY <1>1 DEF Loops, Types, WriteRecv, api, flags, loops, stops
  <2>3. Flags'
    BY <1>1 DEF Flags, Types, WriteRecv, api, flags, loops, stops
  <2>4. Owners'
    BY <1>1 DEF Owners, Types, Flags, TearDown, WriteRecv, api, flags, loops, stops
  <2> QED
    BY <2>1, <2>2, <2>3, <2>4
<1>2. CASE WriteTun(e)
  <2>1. Types'
    BY <1>2, LifecycleAssumption
      DEF Types, StartSteps, ReadSteps, WriteSteps, StopSteps, TearDown,
          WriteTun, api, flags, loops, stops
  <2>2. Loops'
    BY <1>2 DEF Loops, Types, WriteTun, api, flags, loops, stops
  <2>3. Flags'
    BY <1>2 DEF Flags, Types, WriteTun, api, flags, loops, stops
  <2>4. Owners'
    BY <1>2 DEF Owners, Types, Flags, TearDown, WriteTun, api, flags, loops, stops
  <2> QED
    BY <2>1, <2>2, <2>3, <2>4
<1>3. CASE WriteCancelled(e)
  <2>1. Types'
    BY <1>3, LifecycleAssumption
      DEF Types, StartSteps, ReadSteps, WriteSteps, StopSteps, TearDown,
          WriteCancelled, api, flags, loops, stops
  <2>2. Loops'
    BY <1>3 DEF Loops, Types, WriteCancelled, api, flags, loops, stops
  <2>3. Flags'
    BY <1>3 DEF Flags, Types, WriteCancelled, api, flags, loops, stops
  <2>4. Owners'
    BY <1>3
      DEF Owners, Types, Flags, TearDown, WriteCancelled, api, flags, loops,
          stops
  <2> QED
    BY <2>1, <2>2, <2>3, <2>4
<1> QED
  BY <1>1, <1>2, <1>3 DEF tunWriteLoop

(* Engine.Stop.                                                            *)
LEMMA StopInv ==
  ASSUME Inv, NEW p \in Stoppers, EngineStop(p)
  PROVE  Inv'
<1> USE DEF Inv, Stoppers
<1>1. CASE StopCAS(p)
  <2>1. Types'
    <3>1. target[p] \in Engines
      BY <1>1 DEF Owners, StopCAS
    <3>2. CASE running[target[p]]
      <4>1. /\ running' = [running EXCEPT ![target[p]] = FALSE]
            /\ stopPc' = [stopPc EXCEPT ![p] = "cancel"]
            /\ UNCHANGED target
        BY <1>1, <3>2 DEF StopCAS
      <4> QED
        BY <1>1, <4>1 DEF Types, StopSteps, TearDown, StopCAS, api, flags, loops
    <3>3. CASE ~running[target[p]]
      <4>1. /\ UNCHANGED running
            /\ stopPc' = [stopPc EXCEPT ![p] = "idle"]
            /\ target' = [target EXCEPT ![p] = NoEngine]
        BY <1>1, <3>3 DEF StopCAS, Return
      <4> QED
        BY <1>1, <3>1, <4>1 DEF Types, StopSteps, StopCAS, api, flags, loops
    <3> QED
      BY <3>2, <3>3
  <2>2. Loops'
    BY <1>1 DEF Loops, Types, StopCAS, Return, api, flags, loops, stops
  <2>3. Flags'
    BY <1>1 DEF Flags, Types, StopCAS, Return, api, flags, loops, stops
  <2>4. Owners'
    BY <1>1
      DEF Owners, Types, Flags, TearDown, StopCAS, Return, api, flags, loops,
          stops
  <2> QED
    BY <2>1, <2>2, <2>3, <2>4
<1>2. CASE StopCancel(p)
  <2>1. Types'
    BY <1>2, LifecycleAssumption
      DEF Types, StartSteps, ReadSteps, WriteSteps, StopSteps, TearDown,
          StopCancel, Return, api, flags, loops, stops
  <2>2. Loops'
    BY <1>2 DEF Loops, Types, StopCancel, Return, api, flags, loops, stops
  <2>3. Flags'
    BY <1>2 DEF Flags, Types, StopCancel, Return, api, flags, loops, stops
  <2>4. Owners'
    BY <1>2
      DEF Owners, Types, Flags, TearDown, StopCancel, Return, api, flags, loops,
          stops
  <2> QED
    BY <2>1, <2>2, <2>3, <2>4
<1>3. CASE StopCloseCh(p)
  <2>1. Types'
    BY <1>3, LifecycleAssumption
      DEF Types, StartSteps, ReadSteps, WriteSteps, StopSteps, TearDown,
          StopCloseCh, Return, api, flags, loops, stops
  <2>2. Loops'
    BY <1>3 DEF Loops, Types, StopCloseCh, Return, api, flags, loops, stops
  <2>3. Flags'
    BY <1>3
      DEF Flags, Types, Owners, TearDown, StopCloseCh, Return, api, flags,
          loops, stops
  <2>4. Owners'
    BY <1>3
      DEF Owners, Types, Flags, TearDown, StopCloseCh, Return, api, flags,
          loops, stops
  <2> QED
    BY <2>1, <2>2, <2>3, <2>4
<1>4. CASE StopCloseTun(p)
  <2>1. Types'
    BY <1>4, LifecycleAssumption
      DEF Types, StartSteps, ReadSteps, WriteSteps, StopSteps, TearDown,
          StopCloseTun, Return, api, flags, loops, stops
  <2>2. Loops'
    BY <1>4 DEF Loops, Types, StopCloseTun, Return, api, flags, loops, stops
  <2>3. Flags'
    BY <1>4 DEF Flags, Types, StopCloseTun, Return, api, flags, loops, stops
  <2>4. Owners'
    BY <1>4
      DEF Owners, Types, Flags, TearDown, StopCloseTun, Return, api, flags,
          loops, stops
  <2> QED
    BY <2>1, <2>2, <2>3, <2>4
<1>5. CASE StopCloseStack(p)
  <2>1. Types'
    BY <1>5, LifecycleAssumption
      DEF Types, StartSteps, ReadSteps, WriteSteps, StopSteps, TearDown,
          StopCloseStack, Return, api, flags, loops, stops
  <2>2. Loops'
    BY <1>5 DEF Loops, Types, StopCloseStack, Return, api, flags, loops, stops
  <2>3. Flags'
    BY <1>5 DEF Flags, Types, StopCloseStack, Return, api, flags, loops, stops
  <2>4. Owners'
    BY <1>5
      DEF Owners, Types, Flags, TearDown, StopCloseStack, Return, api, flags,
          loops, stops
  <2> QED
    BY <2>1, <2>2, <2>3, <2>4
<1>6. CASE StopWait(p)
  <2>1. Types'
    BY <1>6, LifecycleAssumption
      DEF Types, StartSteps, ReadSteps, WriteSteps, StopSteps, TearDown, Owners,
          StopWait, Return, api, flags, loops, stops
  <2>2. Loops'
    BY <1>6 DEF Loops, Types, StopWait, Return, api, flags, loops, stops
  <2>3. Flags'
    BY <1>6 DEF Flags, Types, StopWait, Return, api, flags, loops, stops
  <2>4. Owners'
    BY <1>6
      DEF Owners, Types, Flags, TearDown, StopWait, Return, api, flags, loops,
          stops
  <2> QED
    BY <2>1, <2>2, <2>3, <2>4
<1> QED
  BY <1>1, <1>2, <1>3, <1>4, <1>5, <1>6 DEF EngineStop

(* TeapodTun2socks.Start and Stop.                                         *)
LEMMA ApiInv ==
  ASSUME Inv, NEW c \in Callers, ApiStart(c) \/ ApiStop(c)
  PROVE  Inv'
<1> USE DEF Inv, Stoppers
<1>1. CASE ApiStart(c)
  <2>1. Types'
    BY <1>1, FreshIsNew, LifecycleAssumption
      DEF Types, StartSteps, ReadSteps, WriteSteps, StopSteps, TearDown,
          ApiStart, NewEngine, api, flags, loops, stops
  <2>2. Loops'
    BY <1>1, FreshIsNew DEF Loops, Types, Flags, ApiStart, NewEngine, api, flags, loops, stops
  <2>3. Flags'
    BY <1>1, FreshIsNew DEF Flags, Types, ApiStart, NewEngine, api, flags, loops, stops
  <2>4. Owners'
    BY <1>1, FreshIsNew
      DEF Owners, Types, Flags, TearDown, ApiStart, NewEngine, api, flags,
          loops, stops
  <2> QED
    BY <2>1, <2>2, <2>3, <2>4
<1>2. CASE ApiStop(c)
  <2>1. Types'
    BY <1>2, LifecycleAssumption
      DEF Types, StartSteps, ReadSteps, WriteSteps, StopSteps, TearDown,
          ApiStop, api, flags, loops, stops
  <2>2. Loops'
    BY <1>2 DEF Loops, Types, ApiStop, api, flags, loops, stops
  <2>3. Flags'
    BY <1>2 DEF Flags, Types, ApiStop, api, flags, loops, stops
  <2>4. Owners'
    BY <1>2 DEF Owners, Types, Flags, TearDown, ApiStop, api, flags, loops, stops
  <2> QED
    BY <2>1, <2>2, <2>3, <2>4
<1> QED
  BY <1>1, <1>2 DEF Inv

(* The environment.                                                        *)
LEMMA EnvironmentInv ==
  ASSUME Inv, NEW e \in Engines, TunRevoked(e) \/ StackEmits(e)
  PROVE  Inv'
<1> USE DEF Inv, Stoppers
<1>1. CASE TunRevoked(e)
  <2>1. Types'
    BY <1>1, LifecycleAssumption
      DEF Types, StartSteps, ReadSteps, WriteSteps, StopSteps, TearDown,
          TunRevoked, api, flags, loops, stops
  <2>2. Loops'
    BY <1>1 DEF Loops, Types, TunRevoked, api, flags, loops, stops
  <2>3. Flags'
    BY <1>1 DEF Flags, Types, TunRevoked, api, flags, loops, stops
  <2>4. Owners'
    BY <1>1 DEF Owners, Types, Flags, TearDown, TunRevoked, api, flags, loops, stops
  <2> QED
    BY <2>1, <2>2, <2>3, <2>4
<1>2. CASE StackEmits(e)
  <2>1. Types'
    BY <1>2, LifecycleAssumption
      DEF Types, StartSteps, ReadSteps, WriteSteps, StopSteps, TearDown,
          StackEmits, api, flags, loops, stops
  <2>2. Loops'
    BY <1>2 DEF Loops, Types, StackEmits, api, flags, loops, stops
  <2>3. Flags'
    BY <1>2 DEF Flags, Types, StackEmits, api, flags, loops, stops
  <2>4. Owners'
    BY <1>2 DEF Owners, Types, Flags, TearDown, StackEmits, api, flags, loops, stops
  <2> QED
    BY <2>1, <2>2, <2>3, <2>4
<1> QED
  BY <1>1, <1>2 DEF Inv

(* Every step of the API, the engines and the environment keeps the invariant. *)
LEMMA NextInv == Inv /\ [Next]_vars => Inv'
<1> SUFFICES ASSUME Inv, [Next]_vars PROVE Inv'
  OBVIOUS
<1>1. CASE UNCHANGED vars
  BY <1>1 DEF vars, api, flags, loops, stops, Inv, Types, Loops, Flags, Owners
<1>2. CASE Next
  BY <1>2, StartInv, ReadLoopInv, WriteLoopInv, StopInv, ApiInv, EnvironmentInv
    DEF Next
<1> QED
  BY <1>1, <1>2

-----------------------------------------------------------------------------
\* The CompareAndSwap in Engine.Stop makes teardown exclusive and close(stopCh) safe,
\* however many API calls and self-stops race, also against a Start still to run.
THEOREM SingleShutdownHolds == Spec => []SingleShutdown
<1>1. Inv => SingleShutdown
  BY DEF Inv, Owners, SingleShutdown, TearingDown
<1> QED
  BY InitInv, NextInv, <1>1, PTL DEF Spec

\* Type correctness; the counter of the wait group never turns negative, which
\* would panic, nor exceeds the two loops.
THEOREM LifecycleTypesHold == Spec => []TypeOK
<1>1. Inv => TypeOK
  <2> SUFFICES ASSUME Inv PROVE TypeOK
    OBVIOUS
  <2>1. \A e \in Engines : wg[e] \in 0..2
    BY DEF Inv, Types, Loops
  <2>2. wg \in [Engines -> 0..2]
    BY <2>1 DEF Inv, Types
  <2> QED
    BY <2>2 DEF Inv, Types, TypeOK
<1> QED
  BY InitInv, NextInv, <1>1, PTL DEF Spec

-----------------------------------------------------------------------------
(* Who answers for an engine, as long as no caller stops one whose Start goroutine
   has not run (AwaitRunning).                                               *)

\* The call of Stop made by p will bring e down: the CAS is ahead and will succeed, or
\* the teardown has not closed the TUN fd yet.
Closing(p, e) ==
  /\ target[p] = e
  /\ \/ stopPc[p] = "cas" /\ running[e]
     \/ stopPc[p] \in {"cancel", "closeCh", "closeTun"}

\* An engine with a read loop that can still read is the API's or about to be closed by
\* a caller: a self-stop comes after the end of its read loop.
Answered ==
  \A e \in Engines :
    /\ startPc[e] = "launched" => engine = e
    /\ running[e] => engine = e \/ \E p \in Stoppers : stopPc[p] = "cas" /\ target[p] = e
    /\ stopPc[e] # "idle" => target[e] = e /\ readPc[e] = "done"
    /\ tunOpen[e] /\ readPc[e] # "done" =>
         \/ engine = e /\ (running[e] \/ startPc[e] = "launched")
         \/ \E c \in Callers : Closing(c, e)

\* No engine exists yet.
LEMMA AnsweredInit == Init => Answered
BY DEF Init, Answered, Stoppers

\* Callers: Start takes an engine nobody used, Stop one that runs.
LEMMA AnsweredApi ==
  ASSUME AwaitRunning, Inv, Answered, NEW c \in Callers, ApiStart(c) \/ ApiStop(c)
  PROVE  Answered'
<1> USE DEF Inv
<1>1. Types /\ Callers \subseteq Stoppers /\ Engines \subseteq Stoppers
  BY DEF Stoppers
<1>2. CASE ApiStart(c)
  <2>1. PICK e \in Fresh : /\ tunOpen' = [tunOpen EXCEPT ![e] = TRUE]
                           /\ engine' = e
                           /\ startPc' = [startPc EXCEPT ![e] = "launched"]
    BY <1>2 DEF ApiStart, NewEngine
  <2>2. /\ engine = NoEngine /\ e \in Engines
        /\ UNCHANGED <<running, readPc, stopPc, target>>
    BY <1>2, <2>1, FreshIsNew DEF ApiStart, stops
  <2>3. \A d \in Engines : engine # d /\ startPc[d] # "launched"
    BY <2>2, LifecycleAssumption DEF Answered
  <2> QED
    BY <1>1, <2>1, <2>2, <2>3 DEF Answered, Closing, Types
<1>3. CASE ApiStop(c)
  <2>1. PICK e \in Engines : e = engine
    BY <1>3 DEF ApiStop, Types
  <2>2. /\ engine = e /\ startPc[e] # "launched" /\ stopPc[c] = "idle"
        /\ stopPc' = [stopPc EXCEPT ![c] = "cas"]
        /\ target' = [target EXCEPT ![c] = e]
        /\ engine' = NoEngine /\ UNCHANGED <<running, tunOpen, startPc, readPc>>
    BY <1>3, <2>1 DEF ApiStop, flags, loops
  <2>3. /\ stopPc'[c] = "cas" /\ target'[c] = e
        /\ \A p \in Stoppers \ {c} : stopPc'[p] = stopPc[p] /\ target'[p] = target[p]
    BY <1>1, <2>2 DEF Types
  <2>4. c \notin Engines
    BY LifecycleAssumption
  <2>5. \A d \in Engines, k \in Callers : Closing(k, d) => Closing(k, d)'
    BY <1>1, <2>2, <2>3 DEF Closing
  <2>6. running[e] => Closing(c, e)'
    BY <2>2, <2>3 DEF Closing
  <2>7. ASSUME NEW d \in Engines
        PROVE  /\ startPc'[d] = "launched" => engine' = d
               /\ stopPc'[d] # "idle" => target'[d] = d /\ readPc'[d] = "done"
    BY <1>1, <2>2, <2>3, <2>4, <2>7 DEF Answered
  <2>8. ASSUME NEW d \in Engines, running'[d]
        PROVE  \E p \in Stoppers : stopPc'[p] = "cas" /\ target'[p] = d
    BY <1>1, <2>2, <2>3, <2>8 DEF Answered
  <2>9. ASSUME NEW d \in Engines, tunOpen'[d], readPc'[d] # "done"
        PROVE  \E k \in Callers : Closing(k, d)'
    <3>1. CASE d = e
      BY <2>2, <2>5, <2>6, <2>9, <3>1 DEF Answered
    <3>2. CASE d # e
      BY <2>2, <2>5, <2>9, <3>2 DEF Answered
    <3> QED
      BY <3>1, <3>2
  <2> QED
    BY <2>7, <2>8, <2>9 DEF Answered
<1> QED
  BY <1>2, <1>3

\* A call of Stop: it moves itself, and what it gives up it has closed.
LEMMA AnsweredStop ==
  ASSUME Inv, Answered, NEW p \in Stoppers, EngineStop(p)
  PROVE  Answered'
<1> USE DEF Inv
<1>1. Types /\ Callers \subseteq Stoppers /\ Engines \subseteq Stoppers
  BY DEF Stoppers
<1>2. stopPc[p] # "idle"
  BY DEF EngineStop, StopCAS, StopCancel, StopCloseCh, StopCloseTun, StopCloseStack,
     StopWait
<1>3. PICK e \in Engines : e = target[p]
  BY <1>2 DEF Owners
<1>4. UNCHANGED <<engine, startPc, readPc>>
  BY DEF EngineStop, StopCAS, StopCancel, StopCloseCh, StopCloseTun, StopCloseStack,
     StopWait, api, loops, flags
<1>5. \A q \in Stoppers \ {p} : stopPc'[q] = stopPc[q] /\ target'[q] = target[q]
  BY <1>1 DEF EngineStop, StopCAS, StopCancel, StopCloseCh, StopCloseTun, StopCloseStack,
     StopWait, Return, Types
<1>6. \A d \in Engines \ {e} : running'[d] = running[d] /\ tunOpen'[d] = tunOpen[d]
  BY <1>1, <1>3 DEF EngineStop, StopCAS, StopCancel, StopCloseCh, StopCloseTun, StopCloseStack,
     StopWait, flags, Types
<1>7. /\ stopPc'[p] # "idle" => target'[p] = e
      /\ running'[e] => running[e] /\ stopPc[p] # "cas"
      /\ tunOpen'[e] => tunOpen[e] /\ stopPc[p] # "closeTun"
      /\ stopPc[p] # "cas" => running'[e] = running[e]
      /\ stopPc[p] = "cas" /\ running[e] => stopPc'[p] = "cancel"
      /\ stopPc[p] = "cancel" => stopPc'[p] = "closeCh"
      /\ stopPc[p] = "closeCh" => stopPc'[p] = "closeTun"
  BY <1>1, <1>3 DEF EngineStop, StopCAS, StopCancel, StopCloseCh, StopCloseTun,
     StopCloseStack, StopWait, Return, flags, Types
<1>8. ASSUME NEW d \in Engines
      PROVE  /\ startPc'[d] = "launched" => engine' = d
             /\ stopPc'[d] # "idle" => target'[d] = d /\ readPc'[d] = "done"
  BY <1>1, <1>2, <1>3, <1>4, <1>5, <1>7, <1>8 DEF Answered
<1>9. ASSUME NEW d \in Engines, running'[d]
      PROVE  engine' = d \/ \E q \in Stoppers : stopPc'[q] = "cas" /\ target'[q] = d
  <2>1. running[d] /\ (d = e => stopPc[p] # "cas")
    BY <1>6, <1>7, <1>9
  <2>2. ASSUME NEW q \in Stoppers, stopPc[q] = "cas", target[q] = d
        PROVE  q # p
    BY <1>3, <2>1, <2>2
  <2> QED
    BY <1>4, <1>5, <2>1, <2>2 DEF Answered
<1>10. ASSUME NEW d \in Engines, tunOpen'[d], readPc'[d] # "done"
      PROVE  \/ engine' = d /\ (running'[d] \/ startPc'[d] = "launched")
             \/ \E c \in Callers : Closing(c, d)'
  <2>1. tunOpen[d] /\ readPc[d] # "done"
    BY <1>4, <1>6, <1>7, <1>10
  <2>2. CASE d # e
    <3>1. running'[d] = running[d]
      BY <1>6, <2>2
    <3>2. \A c \in Callers : Closing(c, d) => Closing(c, d)'
      BY <1>1, <1>3, <1>5, <2>2, <3>1 DEF Closing
    <3> QED
      BY <1>4, <2>1, <3>1, <3>2 DEF Answered
  <2>3. CASE d = e
    <3>1. p \notin Engines
      BY <1>2, <1>3, <2>1, <2>3 DEF Answered
    <3>2. p \in Callers
      BY <3>1 DEF Stoppers
    <3>3. CASE Closing(p, e)
      <4>1. stopPc'[p] \in {"cancel", "closeCh", "closeTun"}
        BY <1>7, <1>10, <2>3, <3>3 DEF Closing
      <4> QED
        BY <1>7, <2>3, <3>2, <4>1 DEF Closing
    <3>4. CASE ~Closing(p, e)
      <4>1. stopPc[p] = "cas" => ~running[e]
        BY <1>3, <3>4 DEF Closing
      <4>2. running'[e] = running[e]
        BY <1>1, <1>3, <1>7, <4>1 DEF Types, EngineStop, StopCAS, StopCancel, StopCloseCh,
           StopCloseTun, StopCloseStack, StopWait, flags
      <4>3. \A c \in Callers : Closing(c, e) => Closing(c, e)'
        BY <1>1, <1>5, <3>4, <4>2 DEF Closing
      <4> QED
        BY <1>4, <2>1, <2>3, <4>2, <4>3 DEF Answered
    <3> QED
      BY <3>3, <3>4
  <2> QED
    BY <2>2, <2>3
<1> QED
  BY <1>8, <1>9, <1>10 DEF Answered

\* The engine's own goroutines and the environment.
LEMMA AnsweredLoops ==
  ASSUME Inv, Answered, NEW e \in Engines,
         EngineStart(e) \/ tunReadLoop(e) \/ tunWriteLoop(e) \/ TunRevoked(e) \/ StackEmits(e)
  PROVE  Answered'
<1> USE DEF Inv
<1>1. Types /\ Callers \subseteq Stoppers /\ Engines \subseteq Stoppers
  BY DEF Stoppers
<1>2. CASE EngineStart(e)
  <2>1. UNCHANGED <<engine, tunOpen, stopPc, target>>
    BY <1>2 DEF EngineStart, StartCAS, StartReadLoop, StartWriteLoop, StartReturns, api,
       flags, stops
  <2>2. \A d \in Engines : readPc[d] = "done" => readPc'[d] = "done"
    BY <1>1, <1>2 DEF EngineStart, StartCAS, StartReadLoop, StartWriteLoop, StartReturns,
       Types, Loops
  <2>3. /\ \A d \in Engines : /\ running[d] => running'[d]
                              /\ running'[d] => running[d] \/ startPc[d] = "launched"
                              /\ startPc[d] = "launched" => running'[d] \/ startPc'[d] = "launched"
                              /\ startPc'[d] = "launched" => startPc[d] = "launched"
    BY <1>1, <1>2 DEF EngineStart, StartCAS, StartReadLoop, StartWriteLoop, StartReturns,
       Types, flags
  <2>4. \A d \in Engines, c \in Callers : Closing(c, d) => Closing(c, d)'
    BY <2>1, <2>3 DEF Closing
  <2> QED
    BY <2>1, <2>2, <2>3, <2>4 DEF Answered
<1>3. CASE ReadError(e)
  <2>1. /\ UNCHANGED <<engine, running, tunOpen, startPc>>
        /\ readPc[e] = "read" /\ readPc' = [readPc EXCEPT ![e] = "done"]
    BY <1>3 DEF ReadError, api, flags
  <2>2. /\ \A p \in Stoppers \ {e} : stopPc'[p] = stopPc[p] /\ target'[p] = target[p]
        /\ stopPc'[e] # "idle" => target'[e] = e
    BY <1>1, <1>3, <2>1 DEF ReadError, Types, Answered
  <2>3. stopPc[e] = "idle" /\ e \notin Callers
    BY <2>1, LifecycleAssumption DEF Answered
  <2>4. \A d \in Engines, c \in Callers : Closing(c, d) => Closing(c, d)'
    BY <1>1, <2>1, <2>2, <2>3 DEF Closing
  <2> QED
    BY <1>1, <2>1, <2>2, <2>3, <2>4 DEF Answered, Types
<1>4. CASE \/ ReadCheck(e) \/ ReadPacket(e) \/ tunWriteLoop(e) \/ TunRevoked(e) \/ StackEmits(e)
  <2>1. UNCHANGED <<engine, running, tunOpen, startPc, stopPc, target>>
    BY <1>4 DEF ReadCheck, ReadPacket, tunWriteLoop, WriteRecv, WriteTun, WriteCancelled,
       TunRevoked, StackEmits, api, flags, loops, stops
  <2>2. \A d \in Engines : readPc[d] = "done" => readPc'[d] = "done"
    BY <1>1, <1>4 DEF ReadCheck, ReadPacket, tunWriteLoop, WriteRecv, WriteTun,
       WriteCancelled, TunRevoked, StackEmits, loops, Types
  <2> QED
    BY <2>1, <2>2 DEF Answered, Closing
<1> QED
  BY <1>2, <1>3, <1>4 DEF tunReadLoop

\* Every step leaves each engine that lives answered for.
LEMMA AnsweredNext ==
  ASSUME AwaitRunning, Inv, Answered, [Next]_vars
  PROVE  Answered'
<1>1. CASE UNCHANGED vars
  BY <1>1 DEF vars, api, flags, loops, stops, Answered, Closing
<1> QED
  BY <1>1, AnsweredApi, AnsweredStop, AnsweredLoops DEF Next

\* Answered holds all along if the callers wait for IsRunning().
LEMMA AnsweredAlways == AwaitRunning => (Spec => []Answered)
<1> SUFFICES ASSUME AwaitRunning PROVE Spec => []Answered
  OBVIOUS
<1>1. Inv /\ Answered /\ [Next]_vars => Inv' /\ Answered'
  BY NextInv, AnsweredNext
<1> QED
  BY InitInv, AnsweredInit, <1>1, PTL DEF Spec

\* Callers that wait for IsRunning() before they call Stop leave no engine running that
\* the API has forgotten: the other half of what NoOrphanEngine's counterexample, a
\* Stop before the goroutine of Start has run, shows.
THEOREM AwaitingLeavesNoOrphan == AwaitRunning => (Spec => []NoOrphanEngine)
<1>1. Answered => NoOrphanEngine
  BY DEF Answered, NoOrphanEngine
<1> QED
  BY AnsweredAlways, <1>1, PTL

-----------------------------------------------------------------------------
(* The manager is a caller of the API like any other, so what is proved above
   holds under it, and it stays in step with the API.                        *)

\* Every step of the manager is a step of EngineLifecycle or leaves it alone.
LEMMA ManagerStep == ASSUME [ManagerNext]_managerVars PROVE [Next]_vars
<1>1. CASE ManagerNext
  BY <1>1 DEF ManagerNext, Start, Stop, StopFinally, Underneath, Next
<1>2. CASE UNCHANGED managerVars
  BY <1>2 DEF managerVars
<1> QED
  BY <1>1, <1>2

\* TeapodVpnManager.kt uses TeapodTun2socks only as EngineLifecycle lets its callers.
THEOREM ManagerUsesApi == ManagerSpec => Spec
  BY ManagerStep, PTL DEF ManagerSpec, ManagerInit, Spec

\* ManagerInSync says nothing of a stop under way; while there is one the flag is
\* still up and the engine is already gone.
InStep ==
  /\ isStarted \in BOOLEAN
  /\ monitor = NoCaller => (isStarted <=> engine # NoEngine)
  /\ monitor # NoCaller => isStarted /\ engine = NoEngine
  /\ \A c \in Callers : stopPc[c] # "idle" => monitor = c

\* The monitor is free, and nothing was started.
LEMMA InStepInit == ManagerInit => InStep
  BY DEF ManagerInit, Init, InStep, Stoppers

\* start() sets isStarted and the engine in one step under the monitor.
LEMMA InStepStart ==
  ASSUME TypeOK, InStep, NEW c \in Callers, Start(c)
  PROVE  InStep'
  BY FreshIsNew, LifecycleAssumption DEF InStep, Start, ApiStart, stops

\* stop() takes the monitor when it clears the engine and gives it back with isStarted
\* down.
LEMMA InStepStop ==
  ASSUME TypeOK, InStep, NEW c \in Callers, Stop(c) \/ StopFinally(c)
  PROVE  InStep'
<1>1. CASE Stop(c)
  <2>1. /\ monitor' = c /\ c # NoCaller
        /\ isStarted' = isStarted /\ isStarted
        /\ engine' = NoEngine
    BY <1>1, ManagerAssumption DEF Stop, ApiStop
  <2>2. \A d \in Callers : stopPc'[d] # "idle" => d = c
    BY <1>1, ManagerAssumption DEF Stop, ApiStop, InStep, TypeOK, Stoppers
  <2> QED
    BY <2>1, <2>2 DEF InStep
<1>2. CASE StopFinally(c)
  <2>1. /\ monitor' = NoCaller /\ isStarted' = FALSE
        /\ engine' = engine /\ engine = NoEngine
    BY <1>2, ManagerAssumption DEF StopFinally, vars, api, InStep
  <2>2. \A d \in Callers : stopPc'[d] = "idle"
    BY <1>2 DEF StopFinally, vars, stops, InStep
  <2> QED
    BY <2>1, <2>2 DEF InStep
<1> QED
  BY <1>1, <1>2

\* No step underneath starts a call of Stop for a thread of the app, or touches the
\* API's engine.
LEMMA InStepUnderneath ==
  ASSUME TypeOK, InStep, Underneath
  PROVE  InStep'
<1>1. UNCHANGED managed
  BY DEF Underneath
<1>2. engine' = engine /\ \A c \in Callers : stopPc'[c] # "idle" => stopPc[c] # "idle"
  <2>1. CASE \E p \in Stoppers : EngineStop(p)
    <3>1. PICK p \in Stoppers : EngineStop(p)
      BY <2>1
    <3>2. engine' = engine /\ stopPc[p] # "idle"
      BY <3>1 DEF EngineStop, StopCAS, StopCancel, StopCloseCh, StopCloseTun,
                  StopCloseStack, StopWait, api
    <3>3. \E s \in StopSteps : stopPc' = [stopPc EXCEPT ![p] = s]
      BY <3>1 DEF EngineStop, StopCAS, StopCancel, StopCloseCh, StopCloseTun,
                  StopCloseStack, StopWait, Return, StopSteps, TearDown
    <3> QED
      BY <3>2, <3>3 DEF TypeOK, Stoppers
  <2>2. ASSUME NEW e \in Engines,
               EngineStart(e) \/ tunWriteLoop(e) \/ TunRevoked(e) \/ StackEmits(e)
        PROVE  engine' = engine /\ stopPc' = stopPc
    BY <2>2 DEF EngineStart, StartCAS, StartReadLoop, StartWriteLoop, StartReturns,
                tunWriteLoop, WriteRecv, WriteTun, WriteCancelled, TunRevoked,
                StackEmits, api, stops
  <2>3. ASSUME NEW e \in Engines, tunReadLoop(e)
        PROVE  /\ engine' = engine
               /\ stopPc' = stopPc \/ stopPc' = [stopPc EXCEPT ![e] = "cas"]
    BY <2>3 DEF tunReadLoop, ReadCheck, ReadPacket, ReadError, api, stops
  <2> QED
    BY <2>1, <2>2, <2>3, LifecycleAssumption DEF Underneath, TypeOK, Stoppers
<1> QED
  BY <1>1, <1>2 DEF InStep, managed

\* Every step of the manager, or underneath it, keeps the two in step.
LEMMA InStepNext ==
  ASSUME TypeOK, InStep, [ManagerNext]_managerVars
  PROVE  InStep'
<1>1. CASE ManagerNext
  BY <1>1, InStepStart, InStepStop, InStepUnderneath DEF ManagerNext
<1>2. CASE UNCHANGED managerVars
  BY <1>2 DEF managerVars, vars, managed, api, stops, InStep
<1> QED
  BY <1>1, <1>2

\* InStep is an invariant of the manager.
LEMMA InStepAlways == ManagerSpec => []InStep
<1>1. ManagerSpec => []TypeOK
  BY ManagerUsesApi, LifecycleTypesHold, PTL
<1> QED
  BY <1>1, InStepInit, InStepNext, PTL DEF ManagerSpec

\* However many threads use TeapodVpnManager, isStarted and the engine agree whenever
\* the monitor is free, and one stop() at most is inside the API.
THEOREM ManagerInSyncHolds == ManagerSpec => []ManagerInSync
<1>1. InStep => ManagerInSync
  BY DEF InStep, ManagerInSync
<1> QED
  BY <1>1, InStepAlways, PTL

\* Under the manager, too, one call of Stop at most tears an engine down.
THEOREM ManagerShutsDownOnce == ManagerSpec => []SingleShutdown
  BY ManagerUsesApi, SingleShutdownHolds, PTL

\* Two engines never read the TUN at once, however the app's threads stop and start
\* and Android revokes, when they wait for isRunning() before they stop: an old engine's
\* fd is closed by the thread that holds the monitor, so before the next start().
THEOREM SingleReaderHolds == AwaitRunning => (ManagerSpec => []SingleReader)
<1>1. InStep /\ Answered => SingleReader
  <2> SUFFICES ASSUME InStep, Answered,
                      NEW d \in Engines, readPc[d] = "read", tunOpen[d],
                      NEW e \in Engines, readPc[e] = "read", tunOpen[e]
               PROVE  d = e
    BY DEF SingleReader
  <2>1. \/ engine = d /\ engine = e
        \/ \E c \in Callers : Closing(c, d) \/ Closing(c, e)
    BY DEF Answered
  <2>2. ASSUME NEW c \in Callers, NEW x \in Engines, Closing(c, x)
        PROVE  monitor = c /\ engine = NoEngine /\ target[c] = x
    BY <2>2, ManagerAssumption DEF InStep, Closing
  <2>3. CASE engine \in Engines
    BY <2>1, <2>2, <2>3, LifecycleAssumption
  <2>4. CASE engine \notin Engines
    <3>1. PICK c \in Callers : Closing(c, d)
      BY <2>4 DEF Answered
    <3>2. PICK k \in Callers : Closing(k, e)
      BY <2>4 DEF Answered
    <3> QED
      BY <2>2, <3>1, <3>2
  <2> QED
    BY <2>3, <2>4
<1> QED
  BY <1>1, InStepAlways, ManagerUsesApi, AnsweredAlways, PTL
=============================================================================
