----------------------------- MODULE EngineHook -----------------------------
(***************************************************************************)
(* EngineHook.Validate (go/engine_hook.go): concurrent calls, one per flow *)
(* goroutine, that share the LRUCache and ask the Kotlin callback on a     *)
(* miss.  The cache is locked per method, so between the miss, the answer  *)
(* and the Add other calls run, time passes and ports change hands.        *)
(***************************************************************************)
EXTENDS UidPolicy, Sequences, FiniteSets

CONSTANTS
  Srcs, Dsts, Protos,   \* source and destination address:port, protocol
  Calls,                \* goroutines that call Validate
  Capacity, TTL,        \* cacheCapacity, cacheTTLSeconds
  MaxTime,              \* bound on the clock
  MaxLatency            \* bound on the time between an answer and its Add

ASSUME HookAssumption ==
  /\ Capacity \in Int /\ TTL \in Nat
  /\ MaxTime \in Nat /\ MaxLatency \in Nat

Flow == [src : Srcs, dst : Dsts, proto : Protos]

VARIABLES
  cached, list, now,   \* the LRUCache
  hasValidator,        \* h.validator # nil
  mode,                \* the callback's whitelistMode
  owner,               \* the app that owns each flow's socket, by UID
  call,                \* where each call of Validate is, with what it carries
  seen                 \* history: when the policy last gave a verdict on a flow

cacheVars == <<cached, list>>
world     == <<hasValidator, mode>>
vars      == <<cacheVars, now, world, owner, call, seen>>

\* A call that is not running, is waiting for the callback, has its answer.
Idle            == [pc |-> "idle"]
Asked(f)        == [pc |-> "asked", flow |-> f]
Answered(f, b, t) == [pc |-> "answered", flow |-> f, allowed |-> b, at |-> t]

CallState ==
  {Idle} \cup [pc : {"asked"}, flow : Flow]
         \cup [pc : {"answered"}, flow : Flow, allowed : BOOLEAN, at : Nat]

\* Mutant: the key of the former src-only cache.
SrcOnlyKey(f) == [f EXCEPT !.dst = CHOOSE d \in Dsts : TRUE]

\* The key built from the originating direction of a flow: the full 5-tuple.
NewConnectionKey(f) == [src |-> f.src, dst |-> f.dst, proto |-> f.proto]

Cache == INSTANCE LRUCache WITH Keys <- Flow

\* Validate(f) finds a result in the cache, and returns it.
HasResult(f) == Cache!Hit(NewConnectionKey(f))
Result(f)    == list[Cache!Elem(NewConnectionKey(f))].allowed

\* The history after the owners became o at time t.
Witness(o, t) ==
  [f \in Flow |-> [b \in BOOLEAN |->
     IF validate(mode, f, o[f]) = b THEN t ELSE seen[f][b]]]

LongAgo == -(TTL + MaxLatency)

Init ==
  /\ Cache!CacheInit
  /\ now = 0
  /\ hasValidator \in BOOLEAN
  /\ mode \in WhitelistMode
  /\ owner \in [Flow -> Uids \cup {NoUid}]
  /\ call = [v \in Calls |-> Idle]
  /\ seen = [f \in Flow |-> [b \in BOOLEAN |->
               IF validate(mode, f, owner[f]) = b THEN 0 ELSE LongAgo]]

-----------------------------------------------------------------------------
(* Validate.                                                               *)

\* The call returns Result(f).
ValidateHit(v, f) ==
  /\ call[v] = Idle
  /\ HasResult(f)
  /\ Cache!GetHit(NewConnectionKey(f))
  /\ UNCHANGED <<now, world, owner, call, seen>>

\* A miss, and there is a callback to ask.
ValidateMiss(v, f) ==
  /\ call[v] = Idle
  /\ hasValidator
  /\ Cache!GetMiss(NewConnectionKey(f))
  /\ call' = [call EXCEPT ![v] = Asked(f)]
  /\ UNCHANGED <<now, world, owner, seen>>

\* A miss without callback: denied, and the denial is not cached.
ValidateNoValidator(v, f) ==
  /\ call[v] = Idle
  /\ ~hasValidator
  /\ Cache!GetMiss(NewConnectionKey(f))
  /\ UNCHANGED <<now, world, owner, call, seen>>

\* The Kotlin side resolves the owner and decides.
ValidatorAnswers(v) ==
  /\ call[v].pc = "asked"
  /\ LET f == call[v].flow
     IN call' = [call EXCEPT ![v] =
                   Answered(f, validate(mode, f, owner[f]), now)]
  /\ UNCHANGED <<cacheVars, now, world, owner, seen>>

\* cache.Add, whatever another call has stored for the key meanwhile; the call
\* returns the answer.
ValidateStores(v) ==
  /\ call[v].pc = "answered"
  /\ Cache!Add(NewConnectionKey(call[v].flow), call[v].allowed)
  /\ call' = [call EXCEPT ![v] = Idle]
  /\ UNCHANGED <<now, world, owner, seen>>

Invalidate(f) ==
  /\ Cache!Remove(NewConnectionKey(f))
  /\ UNCHANGED <<now, world, owner, call, seen>>

-----------------------------------------------------------------------------
(* Environment.                                                            *)

\* A socket is closed, or another app binds the same addresses.
OwnerChanges(f, uid) ==
  /\ owner' = [owner EXCEPT ![f] = uid]
  /\ seen' = Witness(owner', now)
  /\ UNCHANGED <<cacheVars, now, world, call>>

Tick ==
  /\ now < MaxTime
  /\ \A v \in Calls : call[v].pc = "answered" => now < call[v].at + MaxLatency
  /\ now' = now + 1
  /\ seen' = Witness(owner, now + 1)
  /\ UNCHANGED <<cacheVars, world, owner, call>>

-----------------------------------------------------------------------------
Validate(v) ==
  \/ \E f \in Flow : \/ ValidateHit(v, f) \/ ValidateMiss(v, f)
                     \/ ValidateNoValidator(v, f)
  \/ ValidatorAnswers(v) \/ ValidateStores(v)

Next ==
  \/ \E v \in Calls : Validate(v)
  \/ \E f \in Flow : Invalidate(f) \/ \E u \in Uids \cup {NoUid} : OwnerChanges(f, u)
  \/ Tick

Spec == Init /\ [][Next]_vars

-----------------------------------------------------------------------------
(* Properties.                                                             *)

\* Every variable of the hook, the cache included, keeps its type.
TypeOK ==
  /\ Cache!TypeOK
  /\ hasValidator \in BOOLEAN
  /\ mode \in WhitelistMode
  /\ owner \in [Flow -> Uids \cup {NoUid}]
  /\ call \in [Calls -> CallState]
  /\ seen \in [Flow -> [BOOLEAN -> Int]]

\* A verdict b on flow f is stale when the whitelist, the owner of the flow and
\* the custom validator have not said b of that very flow for d seconds.
StaleBy(f, b, d) == now - seen[f][b] >= d

\* Whatever Validate would return for a flow from the cache is what the policy
\* said of that same flow less than cacheTTLSeconds (and the latency of one call)
\* ago: calls race, a late answer overwrites a newer one, hits move entries and
\* Invalidate interferes, but no verdict is kept alive or lent to another flow.
\* Without a validator there is nothing to return, so every flow is denied.
VerdictFresh ==
  \A f \in Flow : HasResult(f) =>
    hasValidator /\ ~StaleBy(f, Result(f), TTL + MaxLatency)
=============================================================================
