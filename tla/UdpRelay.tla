------------------------------ MODULE UdpRelay ------------------------------
(***************************************************************************)
(* The relay of one UDP flow in time: pipeUDP of go/engine.go with its     *)
(* control monitor, its two relay goroutines, their idle deadlines and the *)
(* shutdown that all of them share.  UdpFlows has the flow's set-up and    *)
(* its slot, for any number of flows.                                      *)
(*                                                                         *)
(* Goroutines run and timers fire on time: the clock moves only when every *)
(* goroutine is blocked.                                                   *)
(***************************************************************************)
EXTENDS Integers

CONSTANTS
  udpIdleTimeout,
  MaxPackets,   \* bound on the datagrams that arrive in each direction
  MaxTime       \* bound on the clock

ASSUME RelayAssumption ==
  udpIdleTimeout \in Nat \ {0} /\ MaxPackets \in Nat /\ MaxTime \in Nat

Dirs  == {"tx", "rx"}               \* TUN -> relay, relay -> TUN
Procs == Dirs \cup {"ctrl", "main"} \* the control monitor, pipeUDP itself
Sockets == {"gonet", "udp"}         \* gonetConn, the association

Reads(d)  == IF d = "tx" THEN "gonet" ELSE "udp"
Writes(d) == IF d = "tx" THEN "udp" ELSE "gonet"

VARIABLES
  now,
  relayPc,   \* where the goroutines are
  by,        \* the read deadlines of the relay goroutines
  queue,     \* datagrams waiting in gonetConn and in the local UDP socket
  came,      \* datagrams that have arrived so far
  ctrl,      \* the proxy keeps the control connection open
  open,      \* our ends
  onceBy,    \* the sync.Once of shutdown, and who is inside
  heard,     \* history: when the last datagram of a direction arrived
  quiet      \* history: how long the flow had heard nothing when a deadline
             \* first ended it; -1 if none has

traffic   == <<queue, came, heard>>
relayVars == <<now, relayPc, by, traffic, ctrl, open, onceBy, quiet>>

RelayInit ==
  /\ now = 0
  /\ relayPc = [p \in Procs |-> "run"]
  /\ by = [d \in Dirs |-> udpIdleTimeout]
  /\ queue = [d \in Dirs |-> 0]
  /\ came = [d \in Dirs |-> 0]
  /\ ctrl = TRUE
  /\ open = [e \in Sockets |-> TRUE]
  /\ onceBy = "no"
  /\ heard = [d \in Dirs |-> 0]
  /\ quiet = -1

LastHeard == IF heard["tx"] > heard["rx"] THEN heard["tx"] ELSE heard["rx"]

-----------------------------------------------------------------------------
(* The relay goroutines.                                                   *)

\* A goroutine leaves its loop for the deferred shutdown.
Leave(p) == /\ relayPc[p] = "run"
            /\ relayPc' = [relayPc EXCEPT ![p] = "shutdown"]

\* Mutant: the deadline of the next read is extended instead of set.
RearmExtends(d) == by' = [by EXCEPT ![d] = @ + udpIdleTimeout]

\* The deadline of the next read.
Rearm(d) == by' = [by EXCEPT ![d] = now + udpIdleTimeout]

Takes(d) == /\ open[Reads(d)] /\ queue[d] > 0
            /\ queue' = [queue EXCEPT ![d] = @ - 1]

\* A datagram is read.  It is passed on or, coming from the local socket, may be
\* skipped: another sender than the relay, or malformed.  The loop goes round.
Forward(d) ==
  /\ relayPc[d] = "run"
  /\ Takes(d)
  /\ open[Writes(d)] \/ d = "rx"
  /\ Rearm(d)
  /\ UNCHANGED <<now, relayPc, came, ctrl, open, onceBy, heard, quiet>>

\* It is read, but the write on the other side fails.
ForwardFails(d) ==
  /\ Leave(d)
  /\ Takes(d)
  /\ UNCHANGED <<now, by, came, ctrl, open, onceBy, heard, quiet>>

\* The read deadline of this direction has passed.
ReadTimeout(d) ==
  /\ Leave(d)
  /\ open[Reads(d)] /\ now >= by[d]
  /\ quiet' = IF quiet = -1 THEN now - LastHeard ELSE quiet
  /\ UNCHANGED <<now, by, traffic, ctrl, open, onceBy>>

\* The socket was closed under the reader.
ReadClosed(d) ==
  /\ Leave(d)
  /\ ~open[Reads(d)]
  /\ UNCHANGED <<now, by, traffic, ctrl, open, onceBy, quiet>>

-----------------------------------------------------------------------------
(* The control monitor, pipeUDP itself, and shutdown.                      *)

CtrlGone == ~ctrl \/ ~open["udp"]

\* Mutant: the monitor does not call shutdown.
CtrlMonitorLeaves ==
  /\ relayPc["ctrl"] = "run" /\ CtrlGone
  /\ relayPc' = [relayPc EXCEPT !["ctrl"] = "returned"]
  /\ UNCHANGED <<now, by, traffic, ctrl, open, onceBy, quiet>>

\* io.Copy returns: the proxy has closed the control connection, or we have.
CtrlMonitor ==
  /\ Leave("ctrl")
  /\ CtrlGone
  /\ UNCHANGED <<now, by, traffic, ctrl, open, onceBy, quiet>>

Finished == \A d \in Dirs : relayPc[d] = "returned"

\* wg.Wait() returns.
PipesReturned ==
  /\ Leave("main")
  /\ Finished
  /\ UNCHANGED <<now, by, traffic, ctrl, open, onceBy, quiet>>

\* once.Do: the first caller closes gonetConn ...
CloseFirst(p) ==
  /\ relayPc[p] = "shutdown" /\ onceBy = "no"
  /\ onceBy' = p
  /\ open' = [open EXCEPT !["gonet"] = FALSE]
  /\ UNCHANGED <<now, relayPc, by, traffic, ctrl, quiet>>

\* ... then the association, and returns;
CloseSecond(p) ==
  /\ relayPc[p] = "shutdown" /\ onceBy = p
  /\ onceBy' = "done"
  /\ open' = [open EXCEPT !["udp"] = FALSE]
  /\ relayPc' = [relayPc EXCEPT ![p] = "returned"]
  /\ UNCHANGED <<now, by, traffic, ctrl, quiet>>

\* every other caller waits in once.Do until it has.
CloseNothing(p) ==
  /\ relayPc[p] = "shutdown" /\ onceBy = "done"
  /\ relayPc' = [relayPc EXCEPT ![p] = "returned"]
  /\ UNCHANGED <<now, by, traffic, ctrl, open, onceBy, quiet>>

-----------------------------------------------------------------------------
(* The app, the relay, the proxy, CloseAllConnections, and time.           *)

Arrives(d) ==
  /\ open[Reads(d)] /\ came[d] < MaxPackets
  /\ came' = [came EXCEPT ![d] = @ + 1]
  /\ queue' = [queue EXCEPT ![d] = @ + 1]
  /\ heard' = [heard EXCEPT ![d] = now]
  /\ UNCHANGED <<now, relayPc, by, ctrl, open, onceBy, quiet>>

ProxyDropsCtrl ==
  /\ ctrl
  /\ ctrl' = FALSE
  /\ UNCHANGED <<now, relayPc, by, traffic, open, onceBy, quiet>>

\* CloseAllConnections finds the flow in udpConns and closes gonetConn, as
\* stack.Close() does.
CloseAll ==
  /\ relayPc["main"] # "returned"
  /\ open["gonet"]
  /\ open' = [open EXCEPT !["gonet"] = FALSE]
  /\ UNCHANGED <<now, relayPc, by, traffic, ctrl, onceBy, quiet>>

\* In its read with nothing to read, in io.Copy, in wg.Wait() or in once.Do a
\* goroutine waits for others or for a deadline that is still ahead.
Blocked(p) ==
  \/ relayPc[p] = "returned"
  \/ relayPc[p] = "shutdown" /\ onceBy \notin {"no", "done", p}
  \/ /\ relayPc[p] = "run"
     /\ \/ p \in Dirs /\ open[Reads(p)] /\ queue[p] = 0 /\ now < by[p]
        \/ p = "ctrl" /\ ~CtrlGone
        \/ p = "main" /\ ~Finished

Tick ==
  /\ now < MaxTime
  /\ \A p \in Procs : Blocked(p)
  /\ \E p \in Procs : relayPc[p] # "returned"
  /\ now' = now + 1
  /\ UNCHANGED <<relayPc, by, traffic, ctrl, open, onceBy, quiet>>

-----------------------------------------------------------------------------
pipeUDP ==
  \/ \E d \in Dirs : Forward(d) \/ ForwardFails(d) \/ ReadTimeout(d) \/ ReadClosed(d)
  \/ CtrlMonitor \/ PipesReturned
  \/ \E p \in Procs : CloseFirst(p) \/ CloseSecond(p) \/ CloseNothing(p)

RelayNext ==
  pipeUDP \/ (\E d \in Dirs : Arrives(d)) \/ ProxyDropsCtrl \/ CloseAll \/ Tick

RelaySpec == RelayInit /\ [][RelayNext]_relayVars

-----------------------------------------------------------------------------
(* Properties.                                                             *)

\* Every variable of the relay keeps its type.
RelayTypeOK ==
  /\ now \in 0..MaxTime
  /\ relayPc \in [Procs -> {"run", "shutdown", "returned"}]
  /\ by \in [Dirs -> Nat]
  /\ queue \in [Dirs -> 0..MaxPackets]
  /\ came \in [Dirs -> 0..MaxPackets]
  /\ ctrl \in BOOLEAN
  /\ open \in [Sockets -> BOOLEAN]
  /\ onceBy \in Procs \cup {"no", "done"}
  /\ heard \in [Dirs -> Nat]
  /\ quiet \in Nat \cup {-1}

\* engine.go:45 "the maximum idle time for a UDP flow before its goroutines and
\* sockets are released": a flow that has heard nothing for udpIdleTimeout does not
\* see another tick of the clock with a goroutine or a socket left.
IdleReleased ==
  (\E p \in Procs : relayPc[p] # "returned") \/ (\E e \in Sockets : open[e]) =>
    now <= LastHeard + udpIdleTimeout

\* Nobody is stranded: when all four goroutines are blocked, either each is where it
\* waits for traffic and both ends are open, or all have returned and both ends are
\* closed.  A goroutine that left without shutdown, one that waits in once.Do for a
\* caller who will not finish, or an end that shutdown missed would show here,
\* whichever of deadline, write error, control connection and CloseAllConnections
\* came first.
RelayAllOrNothing ==
  (\A p \in Procs : Blocked(p)) =>
    \/ (\A p \in Procs : relayPc[p] = "run") /\ (\A e \in Sockets : open[e])
    \/ (\A p \in Procs : relayPc[p] = "returned") /\ (\A e \in Sockets : ~open[e])

\* engine.go:46 "The deadline is reset on every received packet, so active sessions
\* (QUIC, gaming) stay alive indefinitely; only truly idle flows [...] are cleaned
\* up": a deadline ends only a flow that has heard nothing for udpIdleTimeout (a
\* packet that arrives at that very moment excepted).
OnlyIdleCleanedUp == quiet > 0 => quiet >= udpIdleTimeout
=============================================================================
