------------------------------- MODULE TcpPipe -------------------------------
(***************************************************************************)
(* One proxied TCP connection (go/engine.go): pipeConnections with its two *)
(* pipe goroutines, the shutdown they share, trackedConn.idleVerdict, and  *)
(* CloseAllConnections closing the gVisor side under them.                 *)
(*                                                                         *)
(* A stream is the number of chunks that went into it, as long as chunks   *)
(* keep their order.  Goroutines run and timers fire on time: the clock    *)
(* moves only when no pipe has anything to do but wait.                    *)
(***************************************************************************)
EXTENDS Integers

CONSTANTS
  tcpIdleCheckStep,   \* read deadline of a pipe
  tcpZombieTimeout,   \* request sent, upstream silent
  tcpIdleTimeout,     \* both directions silent; also the write deadline
  MaxChunks,          \* bound on the chunks sent in each direction
  MaxTime             \* bound on the clock

Dirs  == {"tx", "rx"}       \* app -> proxy, proxy -> app

ASSUME PipeAssumption ==
  /\ {tcpIdleCheckStep, tcpZombieTimeout, tcpIdleTimeout} \subseteq Nat \ {0}
  /\ tcpZombieTimeout <= tcpIdleTimeout
  /\ MaxChunks \in [Dirs -> Nat] /\ MaxTime \in Nat

Sides == {"app", "proxy"}   \* tc.app, the gVisor endpoint; tc.proxy

Src(d) == IF d = "tx" THEN "app" ELSE "proxy"
Dst(d) == IF d = "tx" THEN "proxy" ELSE "app"

VARIABLES
  now,
  last,       \* tc.lastTxMs and tc.lastRxMs
  pc,         \* where each pipe is
  by,         \* the deadline of the Read or Write it is blocked in
  sent,       \* chunks the peer at Src(d) has sent
  got,        \* chunks the pipe has read
  passed,     \* chunks it has written to Dst(d)
  fin,        \* the peer at Src(d) has closed its sending direction
  finPassed,  \* CloseWrite succeeded on Dst(d)
  open,       \* our end of each side has not been closed
  broken,     \* the connection to a peer was reset, or the stack aborted it
  once,       \* the sync.Once of shutdown, and who is inside
  tracked,    \* the connection is in e.conns
  heard,      \* history: when a chunk last came while its pipe waited in Read
  cause       \* history: why the connection was torn down, if for a reason

clocks  == <<last, by>>
streams == <<sent, got, passed, fin, finPassed>>
ends    == <<open, broken>>
hist    == <<heard, cause>>
vars    == <<now, clocks, pc, streams, ends, once, tracked, hist>>

Init ==
  /\ now = 0
  /\ last = [d \in Dirs |-> 0]
  /\ pc = [d \in Dirs |-> "read"]
  /\ by = [d \in Dirs |-> tcpIdleCheckStep]
  /\ sent = [d \in Dirs |-> 0]
  /\ got = [d \in Dirs |-> 0]
  /\ passed = [d \in Dirs |-> 0]
  /\ fin = [d \in Dirs |-> FALSE]
  /\ finPassed = [d \in Dirs |-> FALSE]
  /\ open = [s \in Sides |-> TRUE]
  /\ broken = [s \in Sides |-> FALSE]
  /\ once = "no"
  /\ tracked = TRUE
  /\ heard = [d \in Dirs |-> 0]
  /\ cause = "none"

-----------------------------------------------------------------------------
(* What a pipe meets on its two connections.                               *)

Usable(s) == open[s] /\ ~broken[s]

HasData(d) == Usable(Src(d)) /\ got[d] < sent[d]

\* A read returns io.EOF: the peer's FIN, or our own Close of the gVisor endpoint.
HasEOF(d) ==
  \/ Usable(Src(d)) /\ fin[d] /\ got[d] = sent[d]
  \/ Src(d) = "app" /\ ~open["app"] /\ ~broken["app"]

\* A read returns another error.
HasError(d) == broken[Src(d)] \/ (Src(d) = "proxy" /\ ~open["proxy"])

\* The loop goes round: SetReadDeadline, Read.
Rearm(d) ==
  /\ pc' = [pc EXCEPT ![d] = "read"]
  /\ by' = [by EXCEPT ![d] = now + tcpIdleCheckStep]

Teardown(d, why) ==
  /\ pc' = [pc EXCEPT ![d] = "shutdown"]
  /\ by' = [by EXCEPT ![d] = 0]
  /\ cause' = IF cause = "none" THEN why ELSE cause

-----------------------------------------------------------------------------
(* pipe(dst, src, touched).                                                *)

\* Mutant: both pipes are launched with lastTxMs.
ReadDataStampsTx(d) ==
  /\ pc[d] = "read"
  /\ HasData(d)
  /\ got' = [got EXCEPT ![d] = @ + 1]
  /\ last' = [last EXCEPT !["tx"] = now]
  /\ by' = [by EXCEPT ![d] = now + tcpIdleTimeout]
  /\ pc' = [pc EXCEPT ![d] = "write"]
  /\ UNCHANGED <<now, sent, passed, fin, finPassed, ends, once, tracked, hist>>

\* Read returns n > 0: stamp the direction, arm the write deadline.
ReadData(d) ==
  /\ pc[d] = "read"
  /\ HasData(d)
  /\ got' = [got EXCEPT ![d] = @ + 1]
  /\ last' = [last EXCEPT ![d] = now]
  /\ by' = [by EXCEPT ![d] = now + tcpIdleTimeout]
  /\ pc' = [pc EXCEPT ![d] = "write"]
  /\ UNCHANGED <<now, sent, passed, fin, finPassed, ends, once, tracked, hist>>

\* Write returns, as late as the peer's window makes it.
WriteOK(d) ==
  /\ pc[d] = "write"
  /\ Usable(Dst(d))
  /\ passed' = [passed EXCEPT ![d] = @ + 1]
  /\ Rearm(d)
  /\ UNCHANGED <<now, last, sent, got, fin, finPassed, ends, once,
                 tracked, hist>>

\* Mutant: a failed write is not noticed and the loop goes on.
WriteFailsUnnoticed(d) ==
  /\ pc[d] = "write"
  /\ ~Usable(Dst(d)) \/ now >= by[d]
  /\ Rearm(d)
  /\ UNCHANGED <<now, last, streams, ends, once, tracked, hist>>

\* The connection is gone, or the write deadline has passed.
WriteFails(d) ==
  /\ pc[d] = "write"
  /\ ~Usable(Dst(d)) \/ now >= by[d]
  /\ Teardown(d, "error")
  /\ UNCHANGED <<now, last, streams, ends, once, tracked, heard>>

\* Mutant: only a connection with an unanswered request expires.
idleVerdictTxOnly(t) ==
  LET idle == t - last["tx"]
  IN IF last["tx"] > last["rx"] /\ idle >= tcpZombieTimeout THEN <<TRUE, TRUE>>
     ELSE <<FALSE, FALSE>>

\* <<expired, zombie>>
idleVerdict(t) ==
  LET tx == last["tx"]
      rx == last["rx"]
      idle == t - (IF rx > tx THEN rx ELSE tx)
  IN IF idle >= tcpIdleTimeout THEN <<TRUE, FALSE>>
     ELSE IF tx > rx /\ idle >= tcpZombieTimeout THEN <<TRUE, TRUE>>
     ELSE <<FALSE, FALSE>>

\* The read deadline passed: the connection's idle state decides.
ReadTimeout(d) ==
  /\ pc[d] = "read"
  /\ now >= by[d]
  /\ LET v == idleVerdict(now)
     IN IF v[1]
        THEN Teardown(d, IF v[2] THEN "zombie" ELSE "idle")
        ELSE Rearm(d) /\ UNCHANGED cause
  /\ UNCHANGED <<now, last, streams, ends, once, tracked, heard>>

\* Mutant: EOF ends the flow, as before half-close was supported.
ReadEOFShutsDown(d) ==
  /\ pc[d] = "read"
  /\ HasEOF(d)
  /\ pc' = [pc EXCEPT ![d] = "shutdown"]
  /\ by' = [by EXCEPT ![d] = 0]
  /\ UNCHANGED <<now, last, streams, ends, once, tracked, hist>>

\* EOF: a half-close if the FIN can be passed on, the end of the flow if not.
ReadEOF(d) ==
  /\ pc[d] = "read"
  /\ HasEOF(d)
  /\ IF Usable(Dst(d))
     THEN /\ finPassed' = [finPassed EXCEPT ![d] = TRUE]
          /\ pc' = [pc EXCEPT ![d] = "returned"]
          /\ by' = [by EXCEPT ![d] = 0]
          /\ UNCHANGED cause
     ELSE Teardown(d, "error") /\ UNCHANGED finPassed
  /\ UNCHANGED <<now, last, sent, got, passed, fin, ends, once, tracked,
                 heard>>

ReadError(d) ==
  /\ pc[d] = "read"
  /\ HasError(d)
  /\ Teardown(d, "error")
  /\ UNCHANGED <<now, last, streams, ends, once, tracked, heard>>

\* shutdown: once.Do closes tc.app ...
ShutdownEnter(d) ==
  /\ pc[d] = "shutdown"
  /\ once = "no"
  /\ once' = d
  /\ open' = [open EXCEPT !["app"] = FALSE]
  /\ UNCHANGED <<now, clocks, pc, streams, broken, tracked, hist>>

\* ... then tc.proxy,
ShutdownFinish(d) ==
  /\ pc[d] = "shutdown"
  /\ once = d
  /\ once' = "done"
  /\ open' = [open EXCEPT !["proxy"] = FALSE]
  /\ pc' = [pc EXCEPT ![d] = "returned"]
  /\ UNCHANGED <<now, clocks, streams, broken, tracked, hist>>

\* and a second caller waits for the first.
ShutdownSkip(d) ==
  /\ pc[d] = "shutdown"
  /\ once = "done"
  /\ pc' = [pc EXCEPT ![d] = "returned"]
  /\ UNCHANGED <<now, clocks, streams, ends, once, tracked, hist>>

\* wg.Wait() returns, the deferred shutdown and untrackConn run.
PipesReturned ==
  /\ tracked
  /\ \A d \in Dirs : pc[d] = "returned"
  /\ once' = "done"
  /\ open' = [s \in Sides |-> FALSE]
  /\ tracked' = FALSE
  /\ UNCHANGED <<now, clocks, pc, streams, broken, hist>>

-----------------------------------------------------------------------------
(* CloseAllConnections, the peers, and time.                               *)

\* tc.app.Close() on the connection found in e.conns.
CloseAll ==
  /\ tracked
  /\ open["app"]
  /\ open' = [open EXCEPT !["app"] = FALSE]
  /\ cause' = IF cause = "none" THEN "api" ELSE cause
  /\ UNCHANGED <<now, clocks, pc, streams, broken, once, tracked, heard>>

PeerSends(d) ==
  /\ Usable(Src(d)) /\ ~fin[d] /\ sent[d] < MaxChunks[d]
  /\ sent' = [sent EXCEPT ![d] = @ + 1]
  /\ heard' = [heard EXCEPT ![d] = IF pc[d] = "read" THEN now ELSE @]
  /\ UNCHANGED <<now, clocks, pc, got, passed, fin, finPassed, ends, once,
                 tracked, cause>>

PeerFin(d) ==
  /\ Usable(Src(d)) /\ ~fin[d]
  /\ fin' = [fin EXCEPT ![d] = TRUE]
  /\ UNCHANGED <<now, clocks, pc, sent, got, passed, finPassed, ends, once,
                 tracked, hist>>

\* A reset by the peer, or for the app side the abort by stack.Close().
PeerResets(s) ==
  /\ Usable(s)
  /\ broken' = [broken EXCEPT ![s] = TRUE]
  /\ UNCHANGED <<now, clocks, pc, streams, open, once, tracked, hist>>

\* The pipe is blocked in Read or Write and its deadline has not passed.
Blocked(d) ==
  \/ pc[d] = "returned"
  \/ pc[d] = "read" /\ now < by[d] /\ ~(HasData(d) \/ HasEOF(d) \/ HasError(d))
  \/ pc[d] = "write" /\ now < by[d] /\ Usable(Dst(d))

Tick ==
  /\ now < MaxTime
  /\ tracked
  /\ \A d \in Dirs : Blocked(d)
  /\ \E d \in Dirs : pc[d] # "returned"
  /\ now' = now + 1
  /\ UNCHANGED <<clocks, pc, streams, ends, once, tracked, hist>>

-----------------------------------------------------------------------------
pipe(d) ==
  \/ ReadData(d) \/ WriteOK(d) \/ WriteFails(d) \/ ReadTimeout(d) \/ ReadEOF(d)
  \/ ReadError(d) \/ ShutdownEnter(d) \/ ShutdownFinish(d) \/ ShutdownSkip(d)

Next ==
  \/ \E d \in Dirs : pipe(d) \/ PeerSends(d) \/ PeerFin(d)
  \/ PipesReturned \/ CloseAll \/ Tick
  \/ \E s \in Sides : PeerResets(s)

Spec == Init /\ [][Next]_vars

-----------------------------------------------------------------------------
(* Properties.                                                             *)

\* Every variable of the connection keeps its type.
TypeOK ==
  /\ now \in 0..MaxTime
  /\ last \in [Dirs -> Nat] /\ by \in [Dirs -> Nat]
  /\ pc \in [Dirs -> {"read", "write", "shutdown", "returned"}]
  /\ sent \in [Dirs -> Nat] /\ got \in [Dirs -> Nat] /\ passed \in [Dirs -> Nat]
  /\ \A d \in Dirs : passed[d] <= got[d] /\ got[d] <= sent[d]
  /\ fin \in [Dirs -> BOOLEAN] /\ finPassed \in [Dirs -> BOOLEAN]
  /\ open \in [Sides -> BOOLEAN] /\ broken \in [Sides -> BOOLEAN]
  /\ once \in {"no", "done"} \cup Dirs
  /\ tracked \in BOOLEAN
  /\ heard \in [Dirs -> Nat]
  /\ cause \in {"none", "error", "api", "idle", "zombie"}

\* A connection that ends without reset, timeout or CloseAllConnections has
\* passed on everything: each peer got every chunk the other sent, then its FIN.
\* In particular a request followed by shutdown(SHUT_WR) still gets its response
\* (pipe_halfclose_test.go:30).
CleanEndLosesNothing ==
  ~tracked /\ cause = "none" =>
    \A d \in Dirs : fin[d] /\ finPassed[d] /\ passed[d] = sent[d]

\* A peer never sees a FIN ahead of data: when CloseWrite has been called on a side,
\* every chunk the other peer sent before closing has been written to it.  From
\* upstream to the app this has no exception.  Towards the proxy it ends where our own
\* gVisor end is closed, by CloseAllConnections or by shutdown after an error or a
\* timeout, which closes tc.app first (engine.go:775): the close reads as EOF, and
\* the proxy may be sent a FIN ahead of what the app had still to say (engine.go:824).
FinFollowsData ==
  \A d \in Dirs :
    finPassed[d] /\ (d = "tx" => open["app"]) => fin[d] /\ passed[d] = sent[d]

\* No connection outlives its traffic by more than tcpIdleTimeout and one check
\* step, half-closed or blocked in a write or not: the deadlines of the two pipes
\* leave no gap in which nobody checks.
IdleBound ==
  tracked => \A d \in Dirs :
    last[d] >= last["tx"] /\ last[d] >= last["rx"] =>
      now <= last[d] + tcpIdleTimeout + tcpIdleCheckStep

\* engine.go:788 "A one-directional transfer (long download) keeps the flow alive":
\* the step that cuts a connection as idle finds that from neither peer a chunk came
\* within tcpIdleTimeout, and the one that cuts a zombie (engine.go:55) that a request
\* was sent and no chunk came within tcpZombieTimeout, whichever pipe decides and
\* whatever the other one is doing.  Not counted are chunks that come at that very
\* instant, and chunks that come while their pipe is blocked in Write: the stamps do
\* not see them, so an upstream whose answers wait behind a stalled app is cut as
\* "completely silent".
Silent(d, t) == heard[d] = now \/ now - heard[d] >= t
CutJustified ==
  /\ cause # "idle" /\ cause' = "idle" => \A d \in Dirs : Silent(d, tcpIdleTimeout)
  /\ cause # "zombie" /\ cause' = "zombie" =>
       got["tx"] > 0 /\ \A d \in Dirs : Silent(d, tcpZombieTimeout)
ActiveNotKilled == [][CutJustified]_vars
=============================================================================
