--------------------------- MODULE TcpPipeProofs ----------------------------
(***************************************************************************)
(* Proofs about TcpPipe, for all timeouts that satisfy PipeAssumption, any *)
(* amount of data and any length of a behaviour: nothing is lost around a  *)
(* FIN, no idle connection stays, no active one is cut.                    *)
(***************************************************************************)
EXTENDS TcpPipe, TLAPS

(* A pipe has at most one chunk in hand, and none when it reads; a FIN that was
   passed on had everything in front of it, unless it was our own close of the
   gVisor end that was taken for one.                                       *)
Streams ==
  \A d \in Dirs :
    /\ pc[d] = "read" => passed[d] = got[d]
    /\ pc[d] = "write" => got[d] = passed[d] + 1
    /\ finPassed[d] /\ (cause = "none" \/ d = "rx" \/ open["app"]) =>
         fin[d] /\ passed[d] = sent[d]

(* Our ends are closed for a reason, or at the end of both pipes; a pipe of an
   undisturbed connection returns by passing a FIN on.                      *)
Endings ==
  /\ \A d \in Dirs : pc[d] = "shutdown" => cause # "none"
  /\ \A d \in Dirs : pc[d] = "returned" /\ cause = "none" => finPassed[d]
  /\ tracked /\ ~open["app"] => cause # "none"
  /\ ~tracked => \A d \in Dirs : pc[d] = "returned"

DataInv == TypeOK /\ Streams /\ Endings

Latest == IF last["rx"] > last["tx"] THEN last["rx"] ELSE last["tx"]

(* A pipe that waits has a deadline ahead.  A write began with a read, so its
   deadline is close to the stamp of that read; a read deadline is armed when the
   connection is not idle, so it comes at most one check step after the moment at
   which it would be.                                                       *)
Deadlines ==
  \A d \in Dirs :
    /\ last[d] <= now
    /\ pc[d] \in {"read", "write"} => now <= by[d]
    /\ pc[d] = "read" => by[d] <= Latest + tcpIdleTimeout + tcpIdleCheckStep
    /\ pc[d] = "write" => by[d] = last[d] + tcpIdleTimeout

Bounded == tracked => now <= Latest + tcpIdleTimeout + tcpIdleCheckStep

TimeInv == Deadlines /\ Bounded

(* Until something tears the connection down, a chunk that comes while its pipe waits
   is stamped in the same instant; and a stamp is a chunk read.             *)
Stamped ==
  \A d \in Dirs :
    /\ heard[d] <= now
    /\ last[d] > 0 => got[d] > 0
    /\ cause = "none" =>
         heard[d] <= last[d] \/ (heard[d] = now /\ pc[d] = "read" /\ got[d] < sent[d])

-----------------------------------------------------------------------------
(* What the pipes carry.                                                   *)

\* A new connection has carried nothing.
LEMMA DataInit == Init => DataInv
BY PipeAssumption DEF Init, DataInv, TypeOK, Streams, Endings, Dirs, Sides

\* A chunk is read, and written.
LEMMA DataMoves ==
  ASSUME DataInv, NEW d \in Dirs, ReadData(d) \/ WriteOK(d)
  PROVE  DataInv'
<1>1. CASE ReadData(d)
  <2>1. TypeOK'
    BY <1>1, PipeAssumption DEF DataInv, TypeOK, Streams, ReadData, HasData, ends, hist
  <2>2. Streams'
    BY <1>1 DEF DataInv, TypeOK, Streams, ReadData, HasData, ends, hist
  <2>3. Endings'
    BY <1>1 DEF DataInv, TypeOK, Endings, ReadData, ends, hist
  <2> QED
    BY <2>1, <2>2, <2>3 DEF DataInv
<1>2. CASE WriteOK(d)
  <2>1. TypeOK'
    BY <1>2, PipeAssumption DEF DataInv, TypeOK, Streams, WriteOK, Rearm, ends, hist
  <2>2. Streams'
    BY <1>2 DEF DataInv, TypeOK, Streams, WriteOK, Rearm, ends, hist
  <2>3. Endings'
    BY <1>2 DEF DataInv, TypeOK, Endings, WriteOK, Rearm, ends, hist
  <2> QED
    BY <2>1, <2>2, <2>3 DEF DataInv
<1> QED
  BY <1>1, <1>2

\* What a teardown leaves: a cause, which is never taken back.
LEMMA DataTeardown ==
  ASSUME DataInv, NEW d \in Dirs, pc[d] \in {"read", "write"},
         NEW why \in {"error", "idle", "zombie"},
         Teardown(d, why),
         UNCHANGED <<now, last, streams, ends, once, tracked, heard>>
  PROVE  DataInv'
<1>1. cause' \in {"error", "api", "idle", "zombie"}
  BY DEF DataInv, TypeOK, Teardown
<1>2. TypeOK'
  BY <1>1, PipeAssumption DEF DataInv, TypeOK, Teardown, streams, ends
<1>3. Streams'
  BY <1>1 DEF DataInv, TypeOK, Streams, Teardown, streams, ends
<1>4. Endings'
  BY <1>1 DEF DataInv, TypeOK, Endings, Teardown, ends
<1> QED
  BY <1>2, <1>3, <1>4 DEF DataInv

\* The returns of Read and Write that carry no data.
LEMMA DataReturns ==
  ASSUME DataInv, NEW d \in Dirs,
         WriteFails(d) \/ ReadTimeout(d) \/ ReadEOF(d) \/ ReadError(d)
  PROVE  DataInv'
<1>1. CASE WriteFails(d) \/ ReadError(d)
  BY <1>1, DataTeardown DEF WriteFails, ReadError
<1>2. CASE ReadTimeout(d)
  <2>1. CASE idleVerdict(now)[1]
    <3>1. PICK why \in {"idle", "zombie"} : Teardown(d, why)
      BY <1>2, <2>1 DEF ReadTimeout
    <3> QED
      BY <1>2, <3>1, DataTeardown DEF ReadTimeout
  <2>2. CASE ~idleVerdict(now)[1]
    <3>1. /\ pc[d] = "read" /\ pc' = pc
          /\ by' = [by EXCEPT ![d] = now + tcpIdleCheckStep]
          /\ UNCHANGED <<now, last, streams, ends, once, tracked, hist>>
      BY <1>2, <2>2 DEF ReadTimeout, Rearm, hist, DataInv, TypeOK
    <3> QED
      BY <3>1, PipeAssumption DEF DataInv, TypeOK, Streams, Endings, streams, ends, hist
  <2> QED
    BY <2>1, <2>2
<1>3. CASE ReadEOF(d) /\ ~Usable(Dst(d))
  BY <1>3, DataTeardown DEF ReadEOF, streams
<1>4. CASE ReadEOF(d) /\ Usable(Dst(d))
  <2>1. /\ finPassed' = [finPassed EXCEPT ![d] = TRUE]
        /\ pc[d] = "read" /\ pc' = [pc EXCEPT ![d] = "returned"]
        /\ by' = [by EXCEPT ![d] = 0]
        /\ UNCHANGED <<cause, now, last, sent, got, passed, fin, ends, once, tracked,
                       heard>>
    BY <1>4 DEF ReadEOF
  <2>2. TypeOK'
    BY <2>1 DEF DataInv, TypeOK, ends
  <2>3. cause = "none" \/ d = "rx" \/ open["app"] => fin[d] /\ got[d] = sent[d]
    BY <1>4, <2>1 DEF ReadEOF, HasEOF, Src, DataInv, Endings
  <2>4. Streams'
    BY <2>1, <2>3 DEF DataInv, TypeOK, Streams, ends
  <2>5. Endings'
    BY <2>1 DEF DataInv, TypeOK, Endings, ends
  <2> QED
    BY <2>2, <2>4, <2>5 DEF DataInv
<1> QED
  BY <1>1, <1>2, <1>3, <1>4

\* shutdown, and the end of pipeConnections.
LEMMA DataShutdown ==
  ASSUME DataInv,
         (\E d \in Dirs : ShutdownEnter(d) \/ ShutdownFinish(d) \/ ShutdownSkip(d))
           \/ PipesReturned
  PROVE  DataInv'
<1>1. ASSUME NEW d \in Dirs, ShutdownEnter(d) PROVE DataInv'
  <2>1. TypeOK' /\ Endings'
    BY <1>1 DEF DataInv, TypeOK, Endings, ShutdownEnter, clocks, streams, hist, Sides
  <2>2. Streams'
    BY <1>1 DEF DataInv, TypeOK, Streams, ShutdownEnter, clocks, streams, hist, Sides
  <2> QED
    BY <2>1, <2>2 DEF DataInv
<1>2. ASSUME NEW d \in Dirs, ShutdownFinish(d) \/ ShutdownSkip(d) PROVE DataInv'
  <2>1. TypeOK' /\ Endings'
    BY <1>2 DEF DataInv, TypeOK, Endings, ShutdownFinish, ShutdownSkip, clocks, streams,
       ends, hist, Sides
  <2>2. Streams'
    BY <1>2 DEF DataInv, TypeOK, Streams, ShutdownFinish, ShutdownSkip, clocks, streams,
       ends, hist, Sides
  <2> QED
    BY <2>1, <2>2 DEF DataInv
<1>3. CASE PipesReturned
  BY <1>3 DEF DataInv, TypeOK, Streams, Endings, PipesReturned, clocks, streams, hist, Sides
<1> QED
  BY <1>1, <1>2, <1>3

\* CloseAllConnections leaves a cause; the peers only add to their streams.
LEMMA DataOthers ==
  ASSUME DataInv,
         \/ CloseAll \/ Tick
         \/ \E d \in Dirs : PeerSends(d) \/ PeerFin(d)
         \/ \E s \in Sides : PeerResets(s)
  PROVE  DataInv'
<1>1. CASE CloseAll
  <2>1. cause' \in {"error", "api", "idle", "zombie"}
    BY <1>1 DEF CloseAll, DataInv, TypeOK
  <2> QED
    BY <1>1, <2>1 DEF DataInv, TypeOK, Streams, Endings, CloseAll, clocks, streams, Sides
<1>2. CASE Tick
  BY <1>2, PipeAssumption DEF DataInv, TypeOK, Streams, Endings, Tick, clocks, streams,
                              ends, hist
<1>3. ASSUME NEW d \in Dirs, PeerSends(d) PROVE DataInv'
  BY <1>3, PipeAssumption DEF DataInv, TypeOK, Streams, Endings, PeerSends, clocks, ends,
                              hist
<1>4. ASSUME NEW d \in Dirs, PeerFin(d) PROVE DataInv'
  BY <1>4 DEF DataInv, TypeOK, Streams, Endings, PeerFin, clocks, ends, hist
<1>5. ASSUME NEW s \in Sides, PeerResets(s) PROVE DataInv'
  BY <1>5 DEF DataInv, TypeOK, Streams, Endings, PeerResets, clocks, streams, hist
<1> QED
  BY <1>1, <1>2, <1>3, <1>4, <1>5

-----------------------------------------------------------------------------
(* When it is torn down.                                                   *)

\* A new connection counts as active, and both pipes read with a deadline.
LEMMA TimeInit == Init => TimeInv
BY PipeAssumption DEF Init, TimeInv, Deadlines, Latest, Bounded, Dirs

\* The types the arithmetic of the deadlines needs.
LEMMA ClockTypes ==
  ASSUME DataInv
  PROVE  /\ now \in Nat /\ heard \in [Dirs -> Nat]
         /\ last \in [Dirs -> Nat] /\ by \in [Dirs -> Nat]
         /\ "tx" \in Dirs /\ "rx" \in Dirs
         /\ last["tx"] \in Nat /\ last["rx"] \in Nat
         /\ tcpIdleCheckStep \in Nat /\ tcpZombieTimeout \in Nat /\ tcpIdleTimeout \in Nat
BY PipeAssumption DEF DataInv, TypeOK, Dirs

\* A read stamps its direction, which is now the latest.
LEMMA TimeReadData ==
  ASSUME DataInv, TimeInv, NEW d \in Dirs, ReadData(d)
  PROVE  TimeInv'
<1>1. /\ now' = now /\ tracked' = tracked
      /\ last' = [last EXCEPT ![d] = now]
      /\ by' = [by EXCEPT ![d] = now + tcpIdleTimeout]
      /\ pc' = [pc EXCEPT ![d] = "write"]
      /\ pc \in [Dirs -> {"read", "write", "shutdown", "returned"}]
  BY DEF ReadData, DataInv, TypeOK
<1>2. Latest <= now /\ Latest' = now
  BY <1>1, ClockTypes DEF TimeInv, Deadlines, Latest, Dirs
<1>3. Latest \in Nat
  BY ClockTypes DEF Latest
<1>4. Deadlines'
  BY <1>1, <1>2, <1>3, ClockTypes DEF TimeInv, Deadlines
<1>5. Bounded'
  BY <1>1, <1>2, ClockTypes DEF Bounded
<1> QED
  BY <1>1, <1>2, <1>4, <1>5 DEF TimeInv

\* A write was armed at the read before it, so the next read deadline is close too.
LEMMA TimeWriteOK ==
  ASSUME DataInv, TimeInv, NEW d \in Dirs, WriteOK(d)
  PROVE  TimeInv'
<1>1. /\ now' = now /\ tracked' = tracked
      /\ last' = last
      /\ by' = [by EXCEPT ![d] = now + tcpIdleCheckStep]
      /\ pc[d] = "write" /\ pc' = [pc EXCEPT ![d] = "read"]
      /\ pc \in [Dirs -> {"read", "write", "shutdown", "returned"}]
  BY DEF WriteOK, Rearm, hist, DataInv, TypeOK
<1>2. Latest' = Latest /\ Latest \in Nat /\ last[d] <= Latest
  BY <1>1, ClockTypes DEF Latest, Dirs
<1>3. now <= Latest + tcpIdleTimeout
  BY <1>1, <1>2, ClockTypes DEF TimeInv, Deadlines
<1>4. Deadlines'
  BY <1>1, <1>2, <1>3, ClockTypes DEF TimeInv, Deadlines
<1> QED
  BY <1>1, <1>2, <1>4 DEF TimeInv, Bounded

\* A pipe that leaves the loop has no deadline to meet.
LEMMA TimeLeaves ==
  ASSUME DataInv, TimeInv,
         NEW d \in Dirs, pc' \in [Dirs -> {"read", "write", "shutdown", "returned"}],
         pc'[d] \in {"shutdown", "returned"},
         \A e \in Dirs \ {d} : pc'[e] = pc[e] /\ by'[e] = by[e],
         UNCHANGED <<now, last>>, tracked' => tracked
  PROVE  TimeInv'
<1>1. Latest' = Latest
  BY DEF Latest
<1>2. Deadlines'
  BY <1>1 DEF TimeInv, Deadlines
<1> QED
  BY <1>1, <1>2 DEF TimeInv, Bounded

\* A read deadline passes.
LEMMA TimeReadTimeout ==
  ASSUME DataInv, TimeInv, NEW d \in Dirs, ReadTimeout(d)
  PROVE  TimeInv'
<1> DEFINE v == idleVerdict(now)
<1>1. /\ now' = now /\ tracked' = tracked /\ last' = last
      /\ pc \in [Dirs -> {"read", "write", "shutdown", "returned"}] /\ pc[d] = "read"
      /\ by \in [Dirs -> Nat]
  BY DEF ReadTimeout, DataInv, TypeOK
<1>2. Latest' = Latest /\ Latest \in Nat
  BY <1>1, ClockTypes DEF Latest
<1>3. ~v[1] => now - Latest < tcpIdleTimeout
  BY ClockTypes DEF idleVerdict, Latest
<1>4. CASE v[1]
  <2>1. PICK why \in {"idle", "zombie"} : Teardown(d, why)
    BY <1>4 DEF ReadTimeout
  <2> QED
    BY <1>1, <2>1, TimeLeaves DEF Teardown
<1>5. CASE ~v[1]
  <2>1. /\ by' = [by EXCEPT ![d] = now + tcpIdleCheckStep] /\ pc' = pc /\ cause' = cause
    BY <1>1, <1>5 DEF ReadTimeout, Rearm
  <2>2. Deadlines'
    BY <1>1, <1>2, <1>3, <1>5, <2>1, ClockTypes DEF TimeInv, Deadlines
  <2> QED
    BY <1>1, <1>2, <2>1, <2>2 DEF TimeInv, Bounded
<1> QED
  BY <1>4, <1>5

\* The other returns of Read and Write, and shutdown.
LEMMA TimeReturns ==
  ASSUME DataInv, TimeInv, NEW d \in Dirs,
         \/ WriteFails(d) \/ ReadEOF(d) \/ ReadError(d)
         \/ ShutdownFinish(d) \/ ShutdownSkip(d)
  PROVE  TimeInv'
<1>1. pc \in [Dirs -> {"read", "write", "shutdown", "returned"}] /\ by \in [Dirs -> Nat]
  BY DEF DataInv, TypeOK
<1>2. UNCHANGED <<now, last, tracked>>
  BY DEF WriteFails, ReadEOF, ReadError, ShutdownFinish, ShutdownSkip, clocks, hist
<1>3. CASE WriteFails(d) \/ ReadError(d) \/ (ReadEOF(d) /\ ~Usable(Dst(d)))
  <2>1. Teardown(d, "error")
    BY <1>3 DEF WriteFails, ReadError, ReadEOF
  <2> QED
    BY <1>1, <1>2, <2>1, TimeLeaves DEF Teardown
<1>4. CASE ReadEOF(d) /\ Usable(Dst(d))
  <2>1. /\ pc' = [pc EXCEPT ![d] = "returned"] /\ by' = [by EXCEPT ![d] = 0]
        /\ cause' = cause
    BY <1>4 DEF ReadEOF
  <2> QED
    BY <1>1, <1>2, <2>1, TimeLeaves DEF TimeInv
<1>5. CASE ShutdownFinish(d) \/ ShutdownSkip(d)
  <2>1. /\ pc' = [pc EXCEPT ![d] = "returned"] /\ by' = by /\ cause' = cause
    BY <1>5 DEF ShutdownFinish, ShutdownSkip, clocks, hist
  <2> QED
    BY <1>1, <1>2, <2>1, TimeLeaves DEF TimeInv
<1> QED
  BY <1>3, <1>4, <1>5

\* Steps that touch neither the pipes nor their clocks.
LEMMA TimeElsewhere ==
  ASSUME DataInv, TimeInv,
         \/ PipesReturned \/ CloseAll \/ UNCHANGED vars
         \/ \E d \in Dirs : ShutdownEnter(d) \/ PeerSends(d) \/ PeerFin(d)
         \/ \E s \in Sides : PeerResets(s)
  PROVE  TimeInv'
<1>1. UNCHANGED <<now, last, by, pc>> /\ (tracked' => tracked)
  BY DEF PipesReturned, CloseAll, ShutdownEnter, PeerSends, PeerFin, PeerResets, clocks,
         hist, vars
<1>2. Latest' = Latest
  BY <1>1 DEF Latest
<1> QED
  BY <1>1, <1>2 DEF TimeInv, Deadlines, Bounded

\* The clock moves only while a pipe waits, and then not past its deadline.
LEMMA TimeTick ==
  ASSUME DataInv, TimeInv, Tick
  PROVE  TimeInv'
<1>1. /\ now' = now + 1 /\ UNCHANGED <<last, by, pc, tracked>>
  BY DEF Tick, clocks, hist
<1>2. Latest' = Latest /\ Latest \in Nat /\ \A d \in Dirs : last[d] <= Latest
  BY <1>1, ClockTypes DEF Latest, Dirs
<1>3. \A d \in Dirs : pc[d] # "returned" => pc[d] \in {"read", "write"} /\ now < by[d]
  BY DEF Tick, Blocked
<1>4. Deadlines'
  BY <1>1, <1>2, <1>3, ClockTypes DEF TimeInv, Deadlines
<1>5. PICK d \in Dirs : pc[d] # "returned"
  BY DEF Tick
<1>6. now < by[d] /\ by[d] <= Latest + tcpIdleTimeout + tcpIdleCheckStep
  BY <1>2, <1>3, <1>5, ClockTypes DEF TimeInv, Deadlines
<1>7. Bounded'
  BY <1>1, <1>2, <1>6, ClockTypes DEF Bounded
<1> QED
  BY <1>1, <1>2, <1>4, <1>7 DEF TimeInv

\* Before anything comes everything is stamped.
LEMMA StampedInit == Init => Stamped
BY PipeAssumption DEF Init, Stamped, Dirs

\* A pipe that waits with a chunk before it is not blocked, so the clock stands still
\* until the chunk is stamped; a pipe that returns in order has read everything.
LEMMA StampedStep ==
  ASSUME DataInv, TimeInv, Stamped, [Next]_vars
  PROVE  Stamped'
<1>0. /\ heard \in [Dirs -> Nat] /\ last \in [Dirs -> Nat] /\ now \in Nat
      /\ pc \in [Dirs -> {"read", "write", "shutdown", "returned"}]
      /\ \A d \in Dirs : sent[d] \in Nat /\ got[d] \in Nat /\ last[d] <= now
  BY ClockTypes DEF DataInv, TypeOK, TimeInv, Deadlines
<1>1. ASSUME NEW d \in Dirs, ReadData(d) PROVE Stamped'
  BY <1>0, <1>1 DEF ReadData, HasData, hist, Stamped, DataInv, TypeOK
<1>2. ASSUME NEW d \in Dirs, WriteOK(d) PROVE Stamped'
  BY <1>0, <1>2 DEF WriteOK, Rearm, hist, Stamped
<1>3. ASSUME NEW d \in Dirs, NEW why \in {"error", "idle", "zombie"}, Teardown(d, why),
             UNCHANGED <<now, last, got, sent, heard>>
      PROVE  Stamped'
  <2>1. cause' # "none"
    BY <1>3 DEF Teardown
  <2> QED
    BY <1>0, <1>3, <2>1 DEF Stamped
<1>4. ASSUME NEW d \in Dirs, WriteFails(d) \/ ReadError(d) PROVE Stamped'
  BY <1>3, <1>4 DEF WriteFails, ReadError, streams
<1>5. ASSUME NEW d \in Dirs, ReadTimeout(d) PROVE Stamped'
  <2>1. CASE \E why \in {"idle", "zombie"} : Teardown(d, why)
    BY <1>3, <1>5, <2>1 DEF ReadTimeout, streams
  <2>2. CASE Rearm(d) /\ UNCHANGED cause
    BY <1>0, <1>5, <2>2 DEF ReadTimeout, Rearm, streams, Stamped
  <2> QED
    BY <1>5, <2>1, <2>2 DEF ReadTimeout
<1>6. ASSUME NEW d \in Dirs, ReadEOF(d) PROVE Stamped'
  <2>1. CASE Usable(Dst(d))
    <3>1. /\ pc[d] = "read" /\ pc' = [pc EXCEPT ![d] = "returned"]
          /\ UNCHANGED <<now, last, got, sent, heard, cause>>
      BY <1>6, <2>1 DEF ReadEOF
    <3>2. cause = "none" => got[d] = sent[d]
      BY <1>6, <3>1 DEF ReadEOF, HasEOF, DataInv, Endings
    <3> QED
      BY <1>0, <3>1, <3>2 DEF Stamped
  <2> QED
    BY <1>3, <1>6, <2>1 DEF ReadEOF, streams
<1>7. ASSUME NEW d \in Dirs, ShutdownFinish(d) \/ ShutdownSkip(d) PROVE Stamped'
  BY <1>0, <1>7 DEF ShutdownFinish, ShutdownSkip, clocks, streams, hist, Stamped, DataInv,
     Endings
<1>8. ASSUME NEW d \in Dirs, PeerSends(d) PROVE Stamped'
  <2>1. /\ heard' = [heard EXCEPT ![d] = IF pc[d] = "read" THEN now ELSE heard[d]]
        /\ sent' = [sent EXCEPT ![d] = sent[d] + 1]
        /\ UNCHANGED <<now, last, pc, got, cause>>
    BY <1>8 DEF PeerSends, clocks
  <2>2. got[d] < sent'[d] /\ \A e \in Dirs \ {d} : sent'[e] = sent[e]
    BY <1>0, <2>1 DEF DataInv, TypeOK
  <2>3. CASE pc[d] = "read"
    BY <1>0, <2>1, <2>2, <2>3 DEF Stamped
  <2>4. CASE pc[d] # "read"
    BY <1>0, <2>1, <2>2, <2>4 DEF Stamped
  <2> QED
    BY <2>3, <2>4
<1>9. CASE Tick
  <2>1. now' = now + 1 /\ UNCHANGED <<last, pc, got, sent, heard, cause>>
    BY <1>9 DEF Tick, clocks, streams, hist
  <2>2. tracked /\ \A d \in Dirs : Blocked(d)
    BY <1>9 DEF Tick
  <2>3. \A d \in Dirs : pc[d] = "read" /\ got[d] < sent[d] => FALSE
    BY <2>2 DEF Blocked, HasData, HasEOF, HasError, Usable, Src, Dirs, Sides, DataInv, TypeOK
  <2> QED
    BY <1>0, <2>1, <2>3 DEF Stamped
<1>10. ASSUME UNCHANGED <<now, last, pc, got, sent, heard>>,
              cause' = cause \/ cause' # "none"
       PROVE  Stamped'
  BY <1>0, <1>10 DEF Stamped
<1>11. CASE \/ PipesReturned \/ CloseAll \/ UNCHANGED vars
            \/ \E d \in Dirs : ShutdownEnter(d) \/ PeerFin(d)
            \/ \E s \in Sides : PeerResets(s)
  BY <1>10, <1>11 DEF PipesReturned, CloseAll, ShutdownEnter, PeerFin, PeerResets, vars,
     clocks, streams, hist
<1> QED
  BY <1>1, <1>2, <1>4, <1>5, <1>6, <1>7, <1>8, <1>9, <1>11 DEF Next, pipe

-----------------------------------------------------------------------------
(* The invariant and what follows from it.                                 *)

\* Every step preserves the parts of the invariant.
LEMMA NextInv ==
  DataInv /\ TimeInv /\ Stamped /\ [Next]_vars => DataInv' /\ TimeInv' /\ Stamped'
<1> SUFFICES ASSUME DataInv, TimeInv, Stamped, [Next]_vars PROVE DataInv' /\ TimeInv'
  BY StampedStep
<1>1. CASE UNCHANGED vars
  <2>1. DataInv'
    BY <1>1 DEF vars, clocks, streams, ends, hist, DataInv, TypeOK, Streams, Endings
  <2> QED
    BY <1>1, <2>1, TimeElsewhere
<1>2. ASSUME NEW d \in Dirs, pipe(d) PROVE DataInv' /\ TimeInv'
  BY <1>2, DataMoves, DataReturns, DataShutdown, TimeReadData, TimeWriteOK,
     TimeReadTimeout, TimeReturns, TimeElsewhere DEF pipe
<1>3. CASE \/ \E d \in Dirs : PeerSends(d) \/ PeerFin(d)
           \/ CloseAll \/ \E s \in Sides : PeerResets(s)
  BY <1>3, DataOthers, TimeElsewhere
<1>4. CASE PipesReturned
  BY <1>4, DataShutdown, TimeElsewhere
<1>5. CASE Tick
  BY <1>5, DataOthers, TimeTick
<1> QED
  BY <1>1, <1>2, <1>3, <1>4, <1>5 DEF Next

\* The invariant holds in every state.
LEMMA PipeInv == Spec => [](DataInv /\ TimeInv /\ Stamped)
<1> QED
  BY DataInit, TimeInit, StampedInit, NextInv, PTL DEF Spec

\* Every variable of the connection keeps its type, whatever the peers do and
\* however long the connection lives.
THEOREM PipeTypesHold == Spec => []TypeOK
<1>1. DataInv => TypeOK
  BY DEF DataInv
<1> QED
  BY <1>1, PipeInv, PTL

\* pipeConnections passes on everything before a connection ends for no other
\* reason than its two FINs.
THEOREM CleanEndLosesNothingHolds == Spec => []CleanEndLosesNothing
<1>1. DataInv => CleanEndLosesNothing
  BY DEF DataInv, Streams, Endings, CleanEndLosesNothing
<1> QED
  BY <1>1, PipeInv, PTL

\* CloseWrite never overtakes data towards the app, nor towards the proxy while our
\* gVisor end is open.
THEOREM FinFollowsDataHolds == Spec => []FinFollowsData
<1>1. DataInv => FinFollowsData
  BY DEF DataInv, Streams, FinFollowsData, Dirs
<1> QED
  BY <1>1, PipeInv, PTL

\* For all timeouts: the read and write deadlines of the two pipes together bound
\* how long a silent connection stays.
THEOREM IdleBoundHolds == Spec => []IdleBound
<1>1. DataInv /\ TimeInv => IdleBound
  BY ClockTypes DEF TimeInv, Bounded, Latest, IdleBound, Dirs
<1> QED
  BY <1>1, PipeInv, PTL

\* Only ReadTimeout cuts a connection as idle or as a zombie, and what it compares,
\* the stamps of both pipes, is no older than what came to a waiting pipe.
LEMMA CutStep ==
  ASSUME DataInv, TimeInv, Stamped, [Next]_vars
  PROVE  CutJustified
<1> DEFINE v == idleVerdict(now)
<1>1. CASE \E d \in Dirs : ReadTimeout(d) /\ v[1]
  <2>1. PICK d \in Dirs : ReadTimeout(d) /\ v[1]
    BY <1>1
  <2>2. Teardown(d, IF v[2] THEN "zombie" ELSE "idle")
    BY <2>1 DEF ReadTimeout
  <2>3. CASE cause = "none"
    <3>1. cause' = IF v[2] THEN "zombie" ELSE "idle"
      BY <2>2, <2>3 DEF Teardown
    <3>2. \A e \in Dirs : heard[e] <= last[e] \/ heard[e] = now
      BY <2>3 DEF Stamped
    <3>3. CASE v[2]
      <4>1. last["tx"] > last["rx"] /\ now - last["tx"] >= tcpZombieTimeout
        BY <3>3, ClockTypes DEF idleVerdict
      <4>2. got["tx"] > 0
        BY <4>1, ClockTypes DEF Stamped
      <4>3. \A e \in Dirs : Silent(e, tcpZombieTimeout)
        BY <3>2, <4>1, ClockTypes DEF Silent, Dirs
      <4>4. cause' = "zombie"
        BY <3>1, <3>3
      <4> QED
        BY <4>2, <4>3, <4>4 DEF CutJustified
    <3>4. CASE ~v[2]
      <4>1. \A e \in Dirs : now - last[e] >= tcpIdleTimeout
        BY <2>1, <3>4, ClockTypes DEF idleVerdict, Dirs
      <4>2. \A e \in Dirs : Silent(e, tcpIdleTimeout)
        BY <3>2, <4>1, ClockTypes DEF Silent
      <4>3. cause' = "idle"
        BY <3>1, <3>4
      <4> QED
        BY <4>2, <4>3 DEF CutJustified
    <3> QED
      BY <3>3, <3>4
  <2>4. CASE cause # "none"
    BY <2>2, <2>4 DEF Teardown, CutJustified
  <2> QED
    BY <2>3, <2>4
<1>2. CASE ~\E d \in Dirs : ReadTimeout(d) /\ v[1]
  <2>1. cause' = cause \/ cause' \in {"error", "api"}
    <3>1. ASSUME NEW d \in Dirs, ReadTimeout(d) PROVE cause' = cause
      BY <1>2, <3>1 DEF ReadTimeout
    <3>2. ASSUME NEW d \in Dirs, WriteFails(d) \/ ReadEOF(d) \/ ReadError(d)
          PROVE  cause' = cause \/ cause' = "error"
      BY <3>2 DEF WriteFails, ReadEOF, ReadError, Teardown
    <3>3. ASSUME NEW d \in Dirs, \/ ReadData(d) \/ WriteOK(d) \/ ShutdownEnter(d)
                                 \/ ShutdownFinish(d) \/ ShutdownSkip(d)
                                 \/ PeerSends(d) \/ PeerFin(d)
          PROVE  cause' = cause
      BY <3>3 DEF ReadData, WriteOK, ShutdownEnter, ShutdownFinish, ShutdownSkip, PeerSends,
         PeerFin, hist
    <3>4. CASE \/ PipesReturned \/ CloseAll \/ Tick \/ UNCHANGED vars
               \/ \E s \in Sides : PeerResets(s)
      BY <3>4 DEF PipesReturned, CloseAll, Tick, PeerResets, vars, hist
    <3> QED
      BY <3>1, <3>2, <3>3, <3>4 DEF Next, pipe
  <2> QED
    BY <2>1 DEF CutJustified
<1> QED
  BY <1>1, <1>2

\* For all timeouts: a connection is cut as idle or as a zombie only after the silence
\* it is cut for, at both sockets, save for what came behind a blocked Write or at the
\* instant of the cut.
THEOREM ActiveNotKilledHolds == Spec => ActiveNotKilled
<1>1. DataInv /\ TimeInv /\ Stamped /\ [Next]_vars => [CutJustified]_vars
  BY CutStep
<1> QED
  BY <1>1, PipeInv, PTL DEF Spec, ActiveNotKilled
=============================================================================
