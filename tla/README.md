# Verification of teapod-tun2socks

TLA+ models of teapod-tun2socks, TLC runs that check them on small instances, and
TLAPS proofs for every instance. Line numbers refer to the repository at the
commit this project was written for.

## 1. The system

An Android VPN app hands the fd of its TUN device to a Go library. The library
reads IP packets from it, terminates TCP and UDP in a gVisor stack, asks Kotlin
whether the app that owns a flow may use the tunnel, and relays the flow through
a SOCKS5 proxy (xray).

| Component | State | Operations | Talks to |
|---|---|---|---|
| Gomobile API (`go/teapod_tun2socks.go`) | `t.engine`, `t.hook`, under `t.mu` | Start, Stop, IsRunning, ForceCloseAllConnections, getters | creates the hook and the engine, launches `Engine.Start` in a goroutine |
| Engine lifecycle (`go/engine.go` 132-425) | `running`, `ctx`, `stopCh`, `tunFile`, `stack`, `wg` | NewEngine, Start, Stop, `tunReadLoop`, `tunWriteLoop`, self-stop | TUN fd, gVisor |
| UDP forwarder and flows (195-219, 634-762) | `activeUDPConns`, `udpConns`; per flow an endpoint, two sockets, three goroutines, a `sync.Once` | slot reservation, `handleUDPForwarder`, `pipeUDP`, CloseAllConnections | hook, SOCKS5 client |
| TCP forwarder (190-193, 563-632) | forwarder's inFlight table, `conns`, `activeConns` | `handleTCPForwarder`, trackConn | hook, SOCKS5 client |
| TCP pipe (103-130, 764-837) | per connection two sockets, two stamps, two goroutines, a `sync.Once` | `pipe`, `idleVerdict`, shutdown | both peers |
| Validation cache (`go/connection.go`) | map, list, one mutex | Get, Add, Remove | |
| Validation hook (`go/engine_hook.go`) | cache, validator | Validate, Invalidate | Kotlin callback |
| UID policy (`TeapodTun2socksCallback.kt`, `UidResolver.kt`) | mode, UID set | validate | `getConnectionOwnerUid` |
| SOCKS5 client (`go/socks5.go`) | connection, local UDP socket | DialTCP, UDPAssociate, datagram codec | proxy |
| Packet filter (`go/icmp_reject.go`, `engine.go` 287-392) | none | echo filter, QUIC match, unreachable replies | TUN |
| TeapodVpnManager (Kotlin) | `isStarted`, API object | start, stop | API |
| Statistics | counters | StatsLine, Diagnostics | only reported |

What is hard here:

- *Concurrency.* Stop races the goroutine that runs `Engine.Start`, other calls of
  Stop and the self-stop; every flow has up to four goroutines that close each
  other's sockets; Validate runs without a lock around the Kotlin call.
- *Blocking.* Goroutines wait in reads that only a `Close`, a deadline or a
  cancelled context ends.
- *Resources.* Every exit path must give back a slot, two descriptors and an endpoint.
- *Time.* Idle and zombie detection, cache TTL, dial and handshake timeouts.
- *Ordering.* FIN after data, cancel before `stack.Close()`.

`PROJECT.json` lists these points one by one under "hazards", each with its line
and the properties that cover it.

## 2. Modules

| Module | Models | Proofs | TLC module |
|---|---|---|---|
| `EngineLifecycle` | API Start/Stop, Engine.Start/Stop, TUN loops, self-stop | `LifecycleProofs` | through `VpnManager` |
| `VpnManager` | TeapodVpnManager's start() and stop() over `EngineLifecycle` (EXTENDS) | `LifecycleProofs` | `MCVpnManager` |
| `UdpFlows` | UDP slots, handlers, `pipeUDP` goroutines, CloseAllConnections, Stop | `UdpFlowsProofs` | `MCUdpFlows` |
| `TcpFlows` | inFlight table, `handleTCPForwarder`, `conns`, `activeConns`, CloseAllConnections, Stop | `TcpFlowsProofs` | `MCTcpFlows` |
| `UdpRelay` | one `pipeUDP` in time | `UdpFlowsProofs` | `MCUdpRelay` |
| `TcpPipe` | one `pipeConnections` in time | `TcpPipeProofs` | `MCTcpPipe` |
| `Socks5` | one DialTCP or UDPAssociate against a proxy, the datagram codec | `Socks5Proofs` | `MCSocks5` |
| `PacketFilter` | `tunReadLoop`'s filters, `icmp_reject.go` | `PacketFilterProofs` | `MCPacketFilter` |
| `LRUCache` | the validation cache | `LRUCacheProofs` | through `LRURecency` |
| `LRURecency` | `LRUCache` (EXTENDS) with the history of its uses | `LRUCacheProofs` | `MCLRUCache` |
| `UidPolicy` | the Kotlin verdict (operators) | | |
| `EngineHook` | concurrent Validate over `LRUCache` (INSTANCE) and `UidPolicy` (EXTENDS) | `EngineHookProofs` | `MCEngineHook` |
| `SlotPool` | abstract: a bounded pool of places | implemented: `UdpFlowsProofs` | |
| `ProxyDial` | abstract: what a dial owns, and when it may connect | implemented: `UdpFlowsProofs`, `TcpFlowsProofs`, `Socks5Proofs` | |

Definitions carry the names of the functions they model; the "map" of
`PROJECT.json` gives the lines of each. Definitions whose comment begins with
"Mutant:" are deliberately wrong variants of the definition below them. No
specification uses them; they serve to show that a property can fail.

How the modules fit together:

- `VpnManager` adds the monitor and `isStarted` to the whole of `EngineLifecycle`.
- `UdpFlows` and `TcpFlows` describe all flows of an engine without time, `UdpRelay` and
  `TcpPipe` one flow with its deadlines.
- `ProxyDial` is the contract between the flows and the SOCKS5 client. `Socks5` implements
  it (`KeepsDialPromise`), and so does every handler of both flow modules
  (`DialsAsPromised`), so what a handler is allowed to assume of a dial is what the
  client does: no dial connects once the context is done, and an open socket exists
  from the connect until the failure or the end of the flow. All three refinements are
  proved as well as checked.
- `SlotPool` is the contract of a pool that is kept by a count: a place is taken only when the
  count leaves one, the count changes with every place taken or given back and with
  nothing else, and a user is turned away only when every place is taken. `UdpFlows`
  implements it with `activeUDPConns` (`SlotsArePooled`, also proved): the places the count
  leaves are `MaxUDPConns - active`, to which a claim that is refused, and is in the
  counter until it is rolled back, is added again. A slot that leaks, is given back
  twice, or whose rollback is lost makes a step no pool makes.
- `EngineHook` is the answer that ValidateAllows, ValidateDenies and ValidatePanics of the
  flow modules leave open.

### EngineLifecycle and VpnManager

One program counter per goroutine: `startPc` (`Engine.Start`), `readPc`,
`writePc`, and `stopPc` for every call of Stop. A call of Stop belongs to an API
caller or to an engine, which then names its self-stop goroutine. Each atomic
operation, channel operation and section under `t.mu` is an action. A call that
changes nothing (Start with an engine in place or with a failing NewEngine, Stop
without an engine) is a stuttering step. `AwaitRunning` says whether callers wait
for IsRunning() before they stop. The packet a read returns is not represented:
what `tunReadLoop` does with it changes none of this state and is `PacketFilter`'s.

In `VpnManager` a caller is a thread of the app. `monitor` is the `@Synchronized` of
start() and stop(): start() does not block inside and is one step, stop() holds it
through the whole of Engine.Stop.

### UdpFlows

A handler is one run of `handleUDPForwarder`. Its `pc` follows the function; "release"
is the deferred decrement. `ep` and `assoc` are the gVisor endpoint and the pair of
control connection and UDP socket, `relay` the goroutines of `pipeUDP`, and
`once` the state of the `sync.Once`: a caller of `once.Do` waits while another is
inside. A packet of a flow without endpoint launches a handler, so one flow may
have several until the first has created its endpoint. gVisor's part (`Registered`,
`CreateEndpointFails`) is modelled from how the code uses it. Deadlines are abstracted
to `RelayGivesUp`, which may happen at any time and is never assumed to.

### UdpRelay and TcpPipe

`UdpRelay` has names of its own for its initial state and steps (`RelayInit`, `RelaySpec`),
so that `UdpFlowsProofs` can extend both UDP modules. It has the four goroutines of a
flow: the two relays, the control monitor, which `wg` does not count, and `pipeUDP` itself,
which waits for the relays. Each ends in shutdown. `onceBy` says who is inside `once.Do`: the
first caller closes gonetConn, then the association, and every other one waits for it.

Both modules have a discrete clock. Time passes only when every goroutine is blocked with a
deadline in the future: goroutines run, and timers fire, much faster than the
timeouts of half a minute and more. A write, however, may block as long as its
deadline allows. In `TcpPipe` a stream is the number of chunks in it, since chunks keep
their order; a Read and the stamp that follows it are one step. Read never
returns data together with an error, as is the case for both kinds of connection in
use. A gVisor endpoint that was closed locally reads as `io.EOF`, as gonet reports
`ErrClosedForReceive`; this is marked external. `CloseWrite` succeeds when the
connection is neither closed nor broken.

### TcpFlows

A handler is one run of `handleTCPForwarder` with the pipe goroutine it launches; its `pc`
follows both. `inFlight` is gVisor's table of pending requests (external, modelled from
the comment on `maxInFlight` and from where Complete is called). What happens inside
a pipe is `TcpPipe`'s. Here it may end at any time, and it may be half-closed from the app's
side (pc "half"): a FIN of the app, or the local close by CloseAllConnections, ends the
goroutine that reads it, and the one that reads upstream stays.

### Socks5

The client's steps are those of `handshake`, DialTCP, UDPAssociate and
`readSocksAddress`, each `io.ReadFull` being a step that waits for its bytes. The
stream is a pair of offsets: what was sent, what was read, and where the proxy's
last answer ends. An answer comes in segments that may end between any two of the
client's reads, and time may pass between them. A proxy is honest (it follows RFC 1928 and
1929 and sends its answers to the end, before the deadline) or it is not (it answers
anything, partly, or not at all, and may go away). Credentials are their lengths, which is
all that the encoding can get wrong; an IPv6 address in a reply is either IPv4-mapped, and
then printed as IPv4, or native, and then `Resolve` fails. Time passes only while the client
waits.

### PacketFilter

A packet is its length and the header fields the code reads, so a truncated one is
a smaller length. The properties compare the code's walk and filters with where the
RFCs put the headers (`HeaderBytes`, `Carries`). An address is one 16-bit word and the
quoted headers are three words, enough for the carries of the checksum. The three
ASSUMEs say which packets a header can describe.

### LRUCache, UidPolicy, EngineHook

Each method of the cache holds its mutex throughout and is one action. The map's
pointer from a key to its list element is the position of that key, so the map
is the set of its keys. `LRURecency` records every hit and every Add in `uses`, which says
what "least recently used" means. `EngineHook` splits Validate where the code holds no lock:
Get, the Kotlin answer, Add. Owners of flows change at any time. The history
variable `seen` records when the policy last gave each verdict on each flow.
A flow stands for its 5-tuple; the strings the key is built from are in
one-to-one correspondence with it.

## 3. Runs

| Run | Result | What it shows |
|---|---|---|
| `vpn_manager` | pass | two threads that start and stop, the self-stop and a revoked TUN: `SingleShutdown`, `SingleReader`, `ManagerInSync`, `StopTearsDown`, `RevokedDetected`, `StopReturns` |
| `stop_orphan` | violation | a stop() before the Start goroutine has run leaves an engine nobody can stop |
| `udp_slots` | pass | `SlotAccounting`, `CapRespected`, `NothingLeftBehind`, and the refinements `SlotsArePooled`, `DialsAsPromised` |
| `udp_teardown` | pass | `StopDrains`, `CloseAllEndsFlows` |
| `udp_relay` | pass | `IdleReleased`, `RelayAllOrNothing` |
| `udp_oneway` | violation | an active one-way UDP flow is cut as idle |
| `tcp_flows` | pass | `OneHandlerPerFlow`, `CountMatchesTable`, `NothingLeftBehind`, `AdmissionRecovers`, `StopDrains`, and the refinement `DialsAsPromised` |
| `tcp_pipe` | pass | `CleanEndLosesNothing`, `FinFollowsData`, `IdleBound`, `ActiveNotKilled` |
| `socks5` | pass | `HandshakeBounded`, `SessionUsable`, `HonestProxyServed`, `DatagramRoundTrip`, and the refinement `KeepsDialPromise` |
| `packet_filter` | pass | `WalkFindsTransport`, `FilteredNeverInjected`, `NoCollateral`, `RejectAnswered` |
| `lru_cache` | pass | `MapMatchesList`, `WithinCapacity`, `RecencyOrder` |
| `hook_verdicts` | pass | `VerdictFresh` |

The violation runs state what a comment of the repository says and end in a
behaviour of the code that contradicts it; "findings" quotes the comment.

The type invariant is checked where it carries information beyond the types (the wait
group's counter in `vpn_manager`) and proved for every module but `PacketFilter`, whose
state is one packet and one outcome.

Deadlock is checked in `packet_filter`, whose loop never stops. Everywhere else the
system may stop: engines and handlers are used once each, the clocks are bounded, a
connection ends.

Met while modelling, and left without a run:

- Engine.Stop called directly may return while loops of the engine live: `wg.Wait()` can
  pass between `e.running` (`engine.go:245`) and `e.wg.Add(1)` (250), or a self-stop can have
  won the CompareAndSwap. `SingleReader` and `StopTearsDown` hold nevertheless.
- CloseAllConnections closes only the gVisor end of a TCP connection. That end then reads
  as EOF, and the pipe passes it on as a half-close (`engine.go:823-825`): the goroutine that
  reads a silent upstream, the proxy connection and the count stay until the idle
  bound, and a Stop that follows does not reach them either. `engine.go:455-457` and
  `teapod_tun2socks.go:209-212` promise that the connections are closed. No property says
  so, therefore; `IdleBound` is what holds, and `StopDrains` of `TcpFlows` excepts connections
  that were half-closed before.
- The same local close can send the proxy a FIN ahead of data. Shutdown closes `tc.app` before
  `tc.proxy` (`engine.go:775-776`), so after an error, an idle or a zombie verdict in one pipe, or
  after CloseAllConnections, the other may read EOF with data of the app undelivered and call
  CloseWrite on the proxy (824). `FinFollowsData` holds without exception towards the app and, towards
  the proxy, while our gVisor end is open.
- The zombie check kills a connection whose upstream does answer when the answer waits
  unread behind a Write blocked by a stalled app: the stamps show reads, and
  nothing is read meanwhile. `engine.go:55-57` speaks of an upstream that is completely
  silent. `ActiveNotKilled` counts the chunks that come while their pipe waits in Read,
  and leaves out the others.
- `readSocksAddress` joins host and port without brackets (`socks5.go:360`), so `ResolveUDPAddr`
  (140) refuses an IPv6 relay address with "too many colons": an association with such a relay
  always fails. `HonestProxyServed` names this one reply.
- From eight extension headers on the walk gives up (`icmp_reject.go:172`, 198), and
  `tunReadLoop` injects the packet unexamined: an echo or a QUIC datagram there does slip past
  the filter, against `engine.go:321-323`. `FilteredNeverInjected` says that only such a packet does.
- The client takes method 0x02 (username and password) although it did not offer it.
- `isICMPEchoType` does not know the family: ICMPv4 of types 128 and 129 and ICMPv6 of types
  0 and 8 are dropped as well, although `engine.go:354` allows all other types. `NoCollateral`
  claims the ICMP errors only.
- EngineHook.Invalidate has no caller, and does not reach a Validate in flight, which stores
  its answer afterwards. `VerdictFresh` does not depend on it.
- QUIC behind IPv6 extension headers is rejected without a reply.

### Bounds

- `vpn_manager`: two threads (a race of two calls of stop(), with the self-stop a race
  of three), two engines (a stop followed by a start), a packet queue of one
  (empty and full). The threads stop an engine only once IsRunning() was true;
  `stop_orphan` drops that and needs one thread.
- `udp_slots`: three handlers of one flow, two slots: two handlers at once, a full
  table, a refusal, and a new handler after the first has ended all occur. Flows meet
  only in the counter and in the snapshot of CloseAllConnections, which handlers of one
  flow share as well; the proofs cover any number of flows.
  `udp_teardown`: two handlers of one flow.
- `tcp_flows`: two flows, two handlers, room for one pending request: a flow that waits for
  the other's place, a repeated SYN, and a second connection of a flow all occur.
- `tcp_pipe`: one chunk of request, two of response (so that one can wait behind a
  blocked write). Timeouts of 2 : 3 : 4 stand for 30 s : 2 min : 5 min: they keep the order
  check step < zombie < idle and nothing else of the proportions. The proofs
  cover all values with zombie <= idle. Seven ticks exceed `tcpIdleTimeout` plus a check step,
  so the bound of `IdleBound` is reached.
- `udp_relay`: two datagrams each way, timeout 2, three timeouts of time.
- `socks5`: credentials of 0, 1, 255 and 256 bytes, names of 0 and 255 bytes, a timeout of
  two of four ticks, so that time goes on behind the deadline; answers that come whole or in
  segments, cut behind the version byte, before the address type, in or behind the header,
  behind a name's length, before or inside the port, so that each read of
  the client can block, be resumed, and meet the deadline;
  addresses of both families and an IPv4-mapped one.
- `packet_filter`: packets of both versions and of none, IPv4 with and without options,
  chains of zero, one, two and six to eight extension headers, cut at every length the
  code compares with; addresses whose sum carries twice.
- `lru_cache`: three keys in two places, TTL 2, four instants, six uses.
- `hook_verdicts`: two concurrent calls, two flows of one source, a cache of one
  entry (so they evict each other), two UIDs of which one is listed, all three modes, with
  and without validator. `MaxLatency` bounds the time between an answer and its Add.

Symmetry is used in runs of safety properties only.

### Fairness

The Go scheduler runs every goroutine that can run: weak fairness of each goroutine's
next step, and of a call of Stop or CloseAllConnections once made; a thread inside
stop() goes on when the call is back. Never assumed: a call by the app, a packet from the
TUN, an idle deadline in `UdpFlows`, progress of the proxy, the end of a healthy TCP
connection.

`UdpFlows` and `TcpFlows` assume that the validator answers and that a dial ends, which
`dialTimeout` and `handshakeTimeout` bring about: `HandshakeBounded` of `Socks5` shows it
(name resolution of a relay address excepted, see the hazards). `GoneEndNoticed` in `TcpFlows`
assumes that the goroutine which reads a gVisor end that is gone notices: it is in a Read,
which returns at once, or in a Write to the proxy, which its write deadline ends. An
aborted end is an error and ends the pipe; a closed one is EOF and half-closes it. That a
half-closed connection ends is not assumed.

`Socks5` assumes that the client runs, that time passes, that the resolver answers,
and that an honest proxy answers. Another proxy owes nothing.

## 4. Proofs

Every theorem holds for all values of the constants that satisfy the ASSUMEs of its
module: any number of threads, engines, flows, handlers, keys and packets, any
timeout, capacity and stream length. Each proof of an invariant has the form
Init => Inv, Inv /\ [Next]_vars => Inv', Inv => property, with one lemma per action or
group of actions. What follows is, per module, what is proved and why the invariant needs
what it has.

- `LifecycleProofs`, about `EngineLifecycle`: `SingleShutdownHolds`, `LifecycleTypesHold`.
  SingleShutdown is not inductive: that a stop which passed its CompareAndSwap
  finds `stopCh` open needs that `running` is down for good then. `Owners` says so
  (Start has passed its own CompareAndSwap, which it executes once), and `Flags` that the
  channel is open as long as nobody has passed. The wait group's bound rests on `Loops`: its
  counter is the number of loops alive.
- `AwaitingLeavesNoOrphan`, there too, is the positive side of `stop_orphan`: when callers
  stop an engine only once IsRunning() was true (`AwaitRunning`), every running engine has
  someone who answers for it, either `t.engine` or a Stop under way (`Answered`). The
  counterexample thus needs a Stop that comes before.
- `LifecycleProofs`, about `VpnManager`: `ManagerUsesApi`, every behaviour of the manager is
  one of `EngineLifecycle`, so its theorems hold under the manager (`ManagerShutsDownOnce`
  is an instance). `ManagerInSyncHolds` needs `InStep`, which adds where the holder of
  the monitor may be: `isStarted` stays up while its Stop is under way, although the
  API has cleared `t.engine` already. `SingleReaderHolds` combines `InStep`, `Answered`
  and `Owners`, under AwaitRunning as the run has it.
- `UdpFlowsProofs`: `SlotAccountingHolds`, `CapHolds`, `NothingLeftBehindHolds`,
  `FlowTypesHold`, for any (also infinite) set of handlers and any cap. The
  invariant carries the finiteness of the set of live handlers, without which its
  cardinality means nothing; the cap then follows from the exact count, because
  a slot is reserved by the single goroutine that runs the callback. `Ends` says
  at which steps a handler may still own something. `FlowsImplementPool` maps the live
  handlers to the holders of places and `activeUDPConns` to the count: ReserveSlot takes a
  place, ReleaseSlot gives one back, RefuseFlow and Rollback turn a user away, and every
  other step leaves both alone. That nobody is turned away while a place is free rests on the
  exact count, `SlotAccounting`. `UdpFlowsDial` is the refinement of `ProxyDial`;
  `Dialling` adds what a handler that has not dialled may not own.
- `UdpFlowsProofs`, about `UdpRelay`: `IdleReleasedHolds`, `RelayAllOrNothingHolds`,
  `RelayTypesHold`. The deadline alone does not bound the idle time; `Deadlines` adds that a
  datagram is read at the time it arrives, so that no deadline is further away than
  `udpIdleTimeout` from the last datagram of its direction. RelayAllOrNothing rests on
  `Once`: whoever is inside `once.Do` can move, nobody returns before it is done, and it is done
  only with both ends closed. So when nobody can move, either nobody has left or nobody is
  left.
- `TcpPipeProofs`: `CleanEndLosesNothingHolds`, `FinFollowsDataHolds`, `IdleBoundHolds`,
  `ActiveNotKilledHolds`, `PipeTypesHold`. `DataInv` says what is in a pipe's hand at each
  step and for what reason an end may be closed (`Streams`, `Endings`). `TimeInv` ties the
  deadline of a write to the read before it, and that of a read to the verdict which
  armed it (`Bounded`). ActiveNotKilled compares the verdict with `heard`, which the code does not
  have; `Stamped` says what the stamps know of it: a chunk that came while its pipe waited in
  Read is stamped at that very instant or is the one just arrived, because the clock does
  not move while a pipe has something to read. `PipeAssumption` orders the three timeouts as the code's are.
- `TcpFlowsProofs`: `OneHandlerPerFlowHolds`, `CountMatchesTableHolds`,
  `NothingLeftBehindHolds`, `InFlightIsPending`, `FlowsTypesHold`. `Holds` lists what a
  handler owns at each step, `Tables` identifies gVisor's table with the handlers before
  Complete and `conns` with those between track and untrack, and `Counted` the counter
  with the pipe goroutines, a finite set. One handler per flow follows only from all of
  it: a repeated SYN is kept out first by the table, then by the endpoint. `TcpFlowsDial`
  is the refinement of `ProxyDial`.
- `Socks5Proofs`: `HandshakeBoundedHolds`, `SessionUsableHolds`, `CallTypesHold`,
  `SocksKeepsDialPromise` (refinement of `ProxyDial`) and `DatagramRoundTripHolds`, for a proxy
  that sends what it likes. `Sockets` and `Clock` are what the call owns and when its
  deadline stands. That the stream is handed over at its first byte needs `Remains`,
  how much of the answer is left at each step of `readSocksAddress`, and `Answered`:
  nothing stands behind an answer but the last. The codec's lemmas `Frame`, `AddrBytes` and
  `PortBytes` take a datagram apart; the truncated ones are refused for each place of the cut.
- `LRUCacheProofs`: `MapMatchesListHolds`, `WithinCapacityHolds`, `CacheTypeCorrect`, zero
  and negative capacities included. The list operations get a lemma each; the three
  properties are inductive together. `RecencyOrderHolds`, about `LRURecency`, is
  RecencyOrder with the clause that an entry in the list has been used (`Ordered`).
- `EngineHookProofs`: `HookDrivesCache`, every step of the hook is one of the cache's methods
  or leaves it alone, so the cache's theorems hold under concurrent calls of Validate.
  `VerdictFreshHolds` needs `History` (what `seen` records), `Answers` (a callback's answer
  in hand was given by the policy on that flow, MaxLatency ago at most) and `Entries` (so was
  every entry of the cache, at most that before its stamp).
- `PacketFilterProofs`: `WalkFindsTransportHolds`, `FilteredNeverInjectedHolds`,
  `NoCollateralHolds`, `RejectAnsweredHolds`, for packets of any length, chains of any
  number of headers, and any addresses and ports. FilteredNeverInjected claims
  nothing of packets with eight extension headers or more. The state needs little of an invariant;
  the work is in lemmas about the functions: partial sums (`SumFacts`), the walk
  (`TurnFacts`, `WalkFacts`), folding keeps a sum modulo 65535 and does not make it zero
  (`FoldedFacts`), so a message summed with a zero in the place of the checksum verifies
  (`MessageVerifies`, `PseudoVerifies`). Lengths and chains are assumed only to be what
  bytes can say: header sizes are multiples of 8 up to 2048, words below 65536.

### How far the prover goes

- Induction over the data of a recursive function: the library's theorem for it is
  parameterised by an operator and cannot be used here. `SetInduction` derives induction
  for sets from the well-foundedness of Nat; with it the existence and the values of the
  sums, of the walk and of the folding are proved (`TableExists`, `WalkExists`,
  `FoldingExists`). A leaf that looks inside a CHOOSE, which is what such a
  function stands for, is proved by Zenon.
- Arithmetic against literals such as 65535 makes leaves slow, so the checksum is written
  with the operators `Carry`, `AddCarry` and `Complement`.

Only model-checked: the liveness properties, which are outside the prover's reach together
with fairness and ENABLED (`StopTearsDown`, `RevokedDetected`, `StopReturns`, `StopDrains`,
`CloseAllEndsFlows`, `AdmissionRecovers`, `HonestProxyServed`). Every
invariant of a passing run and each of its refinements has a theorem; the two
violated properties are refuted by their runs.


## 5. Not modelled

- The diagnostic counters, StatsLine, Diagnostics and logging: they decide nothing.
- `tcpBufPool`, TCP options of the stack, and gVisor itself beyond what the code relies on.
- Fragments other than the first, which the filters cannot tell from whole packets, and
  payloads beyond what the replies quote.
- TeapodVpnManager's counters and logging switch, which only pass on; build files.
- The panic handlers of `pipeConnections` and `pipeUDP`: nothing under them calls
  foreign code. The validator's panic is modelled.

## 6. Plan

Done: every component with behaviour is modelled and checked; every safety invariant and
every refinement that a passing run checks is proved. Next:

1. An abstract connection (a pair of reliable streams with their FINs) that `TcpPipe`
   implements, and the proof.
2. The TCP table as a `SlotPool`: gVisor's places for pending requests, with the proof.
3. The safety halves of the liveness properties: for each of `StopDrains`,
   `CloseAllEndsFlows` and `AdmissionRecovers` a measure that no step increases.
