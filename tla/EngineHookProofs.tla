-------------------------- MODULE EngineHookProofs --------------------------
(***************************************************************************)
(* Proofs about EngineHook, for any flows, calls, owners and policies: the *)
(* calls of Validate use the cache only through its methods, and no        *)
(* verdict they return is stale.                                           *)
(***************************************************************************)
EXTENDS EngineHook, SequenceTheorems, TLAPS

\* What is proved about the cache, for the flows as its keys; the history of uses,
\* which the facts taken from it do not concern, is left empty.
CacheFacts == INSTANCE LRUCacheProofs WITH Keys <- Flow, MaxUses <- 0, uses <- <<>>

CacheInv == Cache!TypeOK /\ Cache!MapMatchesList /\ Cache!WithinCapacity

\* The constants of the hook are what the cache assumes of its own.
LEMMA CacheConstants == CacheFacts!CacheAssumption
BY HookAssumption DEF CacheFacts!CacheAssumption

\* The hook's cache is the one those facts are about: its invariant ...
LEMMA SameInv == CacheInv <=> CacheFacts!Inv
BY DEF CacheInv, CacheFacts!Inv, Cache!TypeOK, CacheFacts!TypeOK, Cache!Entry,
   CacheFacts!Entry, Cache!MapMatchesList, CacheFacts!MapMatchesList,
   Cache!WithinCapacity, CacheFacts!WithinCapacity

\* ... the position of a key in its list ...
LEMMA SameElem == \A k : Cache!Elem(k) = CacheFacts!Elem(k)
BY Zenon DEF Cache!Elem, CacheFacts!Elem

\* ... and its methods.
LEMMA SameMethods ==
  ASSUME NEW k \in Flow
  PROVE  /\ Cache!GetHit(k) <=> CacheFacts!GetHit(k)
         /\ Cache!GetMiss(k) <=> CacheFacts!GetMiss(k)
         /\ Cache!Remove(k) <=> CacheFacts!Remove(k)
         /\ \A b \in BOOLEAN : Cache!Add(k, b) <=> CacheFacts!Add(k, b)
<1>1. Cache!Hit(k) <=> CacheFacts!Hit(k)
  BY SameElem, Zenon DEF Cache!Hit, CacheFacts!Hit
<1>2. Cache!removeElement(Cache!Elem(k)) <=> CacheFacts!removeElement(CacheFacts!Elem(k))
  BY SameElem DEF Cache!removeElement, CacheFacts!removeElement, Cache!ListRemove,
     CacheFacts!ListRemove
<1>3. Cache!GetHit(k) <=> CacheFacts!GetHit(k)
  BY <1>1, SameElem DEF Cache!GetHit, CacheFacts!GetHit, Cache!MoveToFront,
     CacheFacts!MoveToFront
<1>4. /\ Cache!GetMiss(k) <=> CacheFacts!GetMiss(k)
      /\ Cache!Remove(k) <=> CacheFacts!Remove(k)
  BY <1>1, <1>2 DEF Cache!GetMiss, CacheFacts!GetMiss, Cache!Remove, CacheFacts!Remove,
     Cache!cacheVars, CacheFacts!cacheVars
<1>5. ASSUME NEW b \in BOOLEAN PROVE Cache!Add(k, b) <=> CacheFacts!Add(k, b)
  BY SameElem DEF Cache!Add, CacheFacts!Add, Cache!AddExisting, CacheFacts!AddExisting,
     Cache!AddNew, CacheFacts!AddNew, Cache!MoveToFront, CacheFacts!MoveToFront,
     Cache!ListRemove, CacheFacts!ListRemove, Cache!PushFront, CacheFacts!PushFront
<1> QED
  BY <1>3, <1>4, <1>5

\* The key of a flow is the flow: the full 5-tuple.
LEMMA KeyIsFlow == ASSUME NEW f \in Flow PROVE NewConnectionKey(f) = f
BY DEF Flow, NewConnectionKey

\* A step of the cache keeps its invariant.
LEMMA CacheInvStep ==
  ASSUME CacheInv, [Cache!Next]_(Cache!vars)
  PROVE  CacheInv'
<1>1. [CacheFacts!Next]_(CacheFacts!vars)
  BY SameMethods DEF Cache!Next, CacheFacts!Next, Cache!vars, CacheFacts!vars, Cache!Tick,
     CacheFacts!Tick, Cache!cacheVars, CacheFacts!cacheVars
<1>2. CacheFacts!Inv'
  BY <1>1, SameInv, CacheConstants, CacheFacts!NextInv DEF CacheFacts!NextInv
<1> QED
  BY <1>2, SameInv, PTL

-----------------------------------------------------------------------------
(* The invariant.                                                          *)

HookTypes ==
  /\ hasValidator \in BOOLEAN
  /\ mode \in WhitelistMode
  /\ owner \in [Flow -> Uids \cup {NoUid}]
  /\ call \in [Calls -> CallState]
  /\ seen \in [Flow -> [BOOLEAN -> Int]]

(* The history is behind the clock, and the verdict of the moment is in it. *)
History ==
  \A f \in Flow, b \in BOOLEAN :
    /\ seen[f][b] <= now
    /\ validate(mode, f, owner[f]) = b => seen[f][b] = now

(* An answer on its way to the cache was right when it was given, and is not
   older than a call may take.                                               *)
Answers ==
  \A v \in Calls :
    /\ call[v].pc # "idle" => hasValidator
    /\ call[v].pc = "answered" =>
         /\ call[v].at <= seen[call[v].flow][call[v].allowed]
         /\ now <= call[v].at + MaxLatency

(* What is cached has the TTL to live from the end of the call that stored it. *)
Entries ==
  \A i \in 1..Len(list) :
    /\ hasValidator
    /\ list[i].expired <= seen[list[i].key][list[i].allowed] + TTL + MaxLatency

Inv == CacheInv /\ HookTypes /\ History /\ Answers /\ Entries

\* A call carries what its step says.
LEMMA CallFields ==
  ASSUME HookTypes, NEW v \in Calls
  PROVE  \/ call[v] = Idle /\ call[v].pc = "idle"
         \/ call[v].pc = "asked" /\ call[v].flow \in Flow
         \/ call[v].pc = "answered" /\ call[v].flow \in Flow
              /\ call[v].allowed \in BOOLEAN /\ call[v].at \in Nat
<1>1. call[v] \in CallState
  BY DEF HookTypes
<1> QED
  BY <1>1 DEF CallState, Idle

\* When time passes or a socket changes hands, the history only grows.
LEMMA WitnessGrows ==
  ASSUME HookTypes, History, NEW t \in Int, now <= t, now \in Nat,
         NEW o \in [Flow -> Uids \cup {NoUid}]
  PROVE  /\ Witness(o, t) \in [Flow -> [BOOLEAN -> Int]]
         /\ \A f \in Flow, b \in BOOLEAN :
              /\ seen[f][b] <= Witness(o, t)[f][b] /\ Witness(o, t)[f][b] <= t
              /\ validate(mode, f, o[f]) = b => Witness(o, t)[f][b] = t
<1>1. ASSUME NEW f \in Flow, NEW b \in BOOLEAN
      PROVE  /\ Witness(o, t)[f][b]
                  = IF validate(mode, f, o[f]) = b THEN t ELSE seen[f][b]
             /\ seen[f][b] \in Int /\ seen[f][b] <= now
  BY <1>1 DEF Witness, HookTypes, History
<1>2. \A f \in Flow, b \in BOOLEAN :
        /\ Witness(o, t)[f][b] \in Int
        /\ seen[f][b] <= Witness(o, t)[f][b] /\ Witness(o, t)[f][b] <= t
        /\ validate(mode, f, o[f]) = b => Witness(o, t)[f][b] = t
  BY <1>1
<1>3. Witness(o, t) \in [Flow -> [BOOLEAN -> Int]]
  BY <1>1 DEF Witness, HookTypes
<1> QED
  BY <1>2, <1>3

\* Before the first call the cache is empty and no call runs.
LEMMA InitInv == Init => Inv
<1> SUFFICES ASSUME Init PROVE Inv
  OBVIOUS
<1>1. cached = {} /\ list = <<>> /\ now = 0
  BY DEF Init, Cache!CacheInit
<1>2. <<>> \in Seq(Cache!Entry) /\ Len(<<>>) = 0
  BY EmptySeq
<1>3. CacheInv
  BY <1>1, <1>2, HookAssumption DEF CacheInv, Cache!TypeOK, Cache!MapMatchesList,
     Cache!WithinCapacity
<1>4. LongAgo \in Int /\ LongAgo <= 0
  BY HookAssumption DEF LongAgo
<1>5. ASSUME NEW f \in Flow, NEW b \in BOOLEAN
      PROVE  seen[f][b] = IF validate(mode, f, owner[f]) = b THEN 0 ELSE LongAgo
  BY <1>5 DEF Init
<1>6. seen \in [Flow -> [BOOLEAN -> Int]]
  BY <1>4 DEF Init
<1>7. HookTypes
  BY <1>6 DEF Init, HookTypes, CallState
<1>8. History
  BY <1>1, <1>4, <1>5 DEF History
<1>9. Answers /\ Entries
  BY <1>1, <1>2 DEF Init, Answers, Entries, Idle
<1> QED
  BY <1>3, <1>7, <1>8, <1>9 DEF Inv

\* What a step of the hook does to the cache is a step of the cache.
LEMMA UsesCache ==
  ASSUME HookTypes, [Next]_vars
  PROVE  [Cache!Next]_(Cache!vars)
<1>1. ASSUME NEW f \in Flow, NEW v \in Calls,
             ValidateHit(v, f) \/ ValidateMiss(v, f) \/ ValidateNoValidator(v, f)
      PROVE  Cache!Next
  BY <1>1, KeyIsFlow DEF ValidateHit, ValidateMiss, ValidateNoValidator, Cache!Next
<1>2. ASSUME NEW f \in Flow, Invalidate(f) PROVE Cache!Next
  BY <1>2, KeyIsFlow DEF Invalidate, Cache!Next
<1>3. ASSUME NEW v \in Calls, ValidateStores(v) PROVE Cache!Next
  <2>1. call[v].flow \in Flow /\ call[v].allowed \in BOOLEAN
    BY <1>3, CallFields DEF ValidateStores
  <2> QED
    BY <1>3, <2>1, KeyIsFlow DEF ValidateStores, Cache!Next
<1>4. ASSUME NEW v \in Calls, ValidatorAnswers(v)
      PROVE  UNCHANGED Cache!vars
  BY <1>4 DEF ValidatorAnswers, cacheVars, Cache!vars
<1>5. ASSUME NEW f \in Flow, NEW u, OwnerChanges(f, u)
      PROVE  UNCHANGED Cache!vars
  BY <1>5 DEF OwnerChanges, cacheVars, Cache!vars
<1>6. CASE Tick
  BY <1>6 DEF Tick, Cache!Next, Cache!Tick, cacheVars, Cache!cacheVars
<1>7. CASE UNCHANGED vars
  BY <1>7 DEF vars, cacheVars, Cache!vars
<1> QED
  BY <1>1, <1>2, <1>3, <1>4, <1>5, <1>6, <1>7 DEF Next, Validate

\* Looking a flow up: nothing enters the cache, and a call asks only a validator that
\* is there.
LEMMA LookupInv ==
  ASSUME Inv, CacheInv', NEW f \in Flow,
         \/ \E v \in Calls : \/ ValidateHit(v, f) \/ ValidateMiss(v, f)
                            \/ ValidateNoValidator(v, f)
         \/ Invalidate(f)
  PROVE  Inv'
<1>1. /\ UNCHANGED <<now, world, owner, seen>>
      /\ \/ call' = call
         \/ hasValidator /\ \E v \in Calls : call' = [call EXCEPT ![v] = Asked(f)]
  BY DEF ValidateHit, ValidateMiss, ValidateNoValidator, Invalidate
<1>2. Asked(f) \in CallState /\ Asked(f).pc = "asked"
  BY DEF Asked, CallState
<1>3. HookTypes'
  BY <1>1, <1>2 DEF Inv, HookTypes, world
<1>4. \A u \in Calls : call'[u] = call[u] \/ (hasValidator /\ call'[u] = Asked(f))
  BY <1>1 DEF Inv, HookTypes
<1>5. Answers'
  BY <1>1, <1>2, <1>4 DEF Inv, Answers, world
<1>6. Entries'
  <2>1. Cache!GetHit(f) \/ Cache!GetMiss(f) \/ Cache!Remove(f)
    BY KeyIsFlow DEF ValidateHit, ValidateMiss, ValidateNoValidator, Invalidate
  <2>2. CacheFacts!GetHit(f) \/ CacheFacts!GetMiss(f) \/ CacheFacts!Remove(f)
    BY <2>1, SameMethods
  <2>3. \A i \in 1..Len(list') : \E j \in 1..Len(list) : list'[i] = list[j]
    BY <2>2, SameInv, CacheConstants, CacheFacts!EntriesStay DEF CacheFacts!EntriesStay, Inv
  <2> QED
    BY <1>1, <2>3 DEF Inv, Entries, world
<1>7. History'
  BY <1>1 DEF Inv, History, world
<1> QED
  BY <1>3, <1>5, <1>6, <1>7 DEF Inv

\* The answer is the policy's verdict of this moment.
LEMMA AnswerInv ==
  ASSUME Inv, CacheInv', NEW v \in Calls, ValidatorAnswers(v)
  PROVE  Inv'
<1> DEFINE f == call[v].flow
<1>1. call[v].pc = "asked" /\ f \in Flow /\ hasValidator
  BY CallFields DEF ValidatorAnswers, Inv, Answers
<1>2. PICK b \in BOOLEAN : b = validate(mode, f, owner[f])
  BY DEF validate, checkUidWhitelist
<1>3. PICK x : x = Answered(f, b, now)
  OBVIOUS
<1>4. /\ call' = [call EXCEPT ![v] = x]
      /\ UNCHANGED <<cacheVars, now, world, owner, seen>>
  BY <1>2, <1>3 DEF ValidatorAnswers
<1>5. now \in Nat /\ seen[f][b] = now
  BY <1>1, <1>2 DEF Inv, CacheInv, Cache!TypeOK, History
<1>6. /\ x \in CallState /\ x.pc = "answered" /\ x.flow = f /\ x.allowed = b /\ x.at = now
  BY <1>1, <1>3, <1>5 DEF Answered, CallState
<1>7. HookTypes'
  BY <1>4, <1>6 DEF Inv, HookTypes, world
<1>8. Answers'
  <2>1. call'[v] = x /\ \A u \in Calls \ {v} : call'[u] = call[u]
    BY <1>4 DEF Inv, HookTypes
  <2>2. x.at <= seen[x.flow][x.allowed] /\ now <= x.at + MaxLatency
    BY <1>5, <1>6, HookAssumption
  <2> QED
    BY <1>1, <1>4, <2>1, <2>2 DEF Inv, Answers, world
<1>9. Entries' /\ History'
  BY <1>4 DEF Inv, Entries, History, world, cacheVars
<1> QED
  BY <1>7, <1>8, <1>9 DEF Inv

\* The entry that is stored lives for the TTL, from an answer at most a call's length old.
LEMMA StoreInv ==
  ASSUME Inv, CacheInv', NEW v \in Calls, ValidateStores(v)
  PROVE  Inv'
<1>1. /\ call[v].pc = "answered" /\ call[v].flow \in Flow
      /\ call[v].allowed \in BOOLEAN /\ call[v].at \in Nat
  BY CallFields DEF ValidateStores, Inv
<1>2. PICK f \in Flow : f = call[v].flow
  BY <1>1
<1>3. PICK b \in BOOLEAN : b = call[v].allowed
  BY <1>1
<1>4. /\ hasValidator
      /\ call[v].at <= seen[f][b]
      /\ now <= call[v].at + MaxLatency
  BY <1>1, <1>2, <1>3 DEF Inv, Answers
<1>5. /\ call' = [call EXCEPT ![v] = Idle]
      /\ UNCHANGED <<now, world, owner, seen>>
      /\ Cache!Add(f, b)
  BY <1>2, <1>3, KeyIsFlow DEF ValidateStores
<1>6. now \in Nat /\ seen[f][b] \in Int
  BY DEF Inv, HookTypes, CacheInv, Cache!TypeOK
<1>7. now + TTL <= seen[f][b] + TTL + MaxLatency
  BY <1>1, <1>4, <1>6, HookAssumption
<1>8. \A i \in 1..Len(list') :
        \/ list'[i] = [key |-> f, allowed |-> b, expired |-> now + TTL]
        \/ \E j \in 1..Len(list) : list'[i] = list[j]
  <2>1. CacheFacts!Add(f, b)
    BY <1>5, SameMethods
  <2> QED
    BY <2>1, SameInv, CacheConstants, CacheFacts!AddBringsOne
      DEF CacheFacts!AddBringsOne, Inv
<1>9. Entries'
  <2> SUFFICES ASSUME NEW i \in 1..Len(list')
               PROVE  /\ hasValidator'
                      /\ list'[i].expired
                           <= seen'[list'[i].key][list'[i].allowed] + TTL + MaxLatency
    BY DEF Entries
  <2>1. hasValidator' /\ seen' = seen
    BY <1>4, <1>5 DEF world
  <2>2. CASE list'[i] = [key |-> f, allowed |-> b, expired |-> now + TTL]
    <3>1. list'[i].key = f /\ list'[i].allowed = b /\ list'[i].expired = now + TTL
      BY <2>2
    <3> QED
      BY <1>7, <2>1, <3>1
  <2>3. CASE \E j \in 1..Len(list) : list'[i] = list[j]
    BY <2>1, <2>3 DEF Inv, Entries
  <2> QED
    BY <1>8, <2>2, <2>3
<1>10. HookTypes'
  BY <1>5 DEF Inv, HookTypes, world, CallState
<1>11. Answers'
  <2>1. \A u \in Calls : call'[u] = call[u] \/ call'[u].pc = "idle"
    BY <1>5 DEF Inv, HookTypes, Idle
  <2> QED
    BY <1>5, <2>1 DEF Inv, Answers, world
<1>12. History'
  BY <1>5 DEF Inv, History, world
<1> QED
  BY <1>9, <1>10, <1>11, <1>12 DEF Inv

\* Sockets change hands and time passes: the history grows with them.
LEMMA WorldInv ==
  ASSUME Inv, CacheInv',
         Tick \/ \E f \in Flow, u \in Uids \cup {NoUid} : OwnerChanges(f, u)
  PROVE  Inv'
<1>1. now \in Nat
  BY DEF Inv, CacheInv, Cache!TypeOK
<1>2. PICK t \in Nat : t \in {now, now + 1} /\ t = now'
  BY <1>1 DEF Tick, OwnerChanges
<1>3. PICK o \in [Flow -> Uids \cup {NoUid}] : o = owner'
  <2>1. CASE Tick
    BY <2>1 DEF Tick, Inv, HookTypes
  <2>2. ASSUME NEW f \in Flow, NEW u \in Uids \cup {NoUid}, OwnerChanges(f, u)
        PROVE  owner' \in [Flow -> Uids \cup {NoUid}]
    BY <2>2 DEF OwnerChanges, Inv, HookTypes
  <2> QED
    BY <2>1, <2>2
<1>4. seen' = Witness(o, t) /\ UNCHANGED <<list, world, call>>
  BY <1>2, <1>3 DEF Tick, OwnerChanges, cacheVars
<1>5. /\ seen' \in [Flow -> [BOOLEAN -> Int]]
      /\ \A f \in Flow, b \in BOOLEAN :
           /\ seen[f][b] <= seen'[f][b] /\ seen'[f][b] <= t
           /\ validate(mode, f, o[f]) = b => seen'[f][b] = t
  BY <1>1, <1>2, <1>4, WitnessGrows DEF Inv
<1>6. seen \in [Flow -> [BOOLEAN -> Int]]
  BY DEF Inv, HookTypes
<1>7. HookTypes'
  BY <1>3, <1>4, <1>5 DEF Inv, HookTypes, world
<1>8. History'
  BY <1>2, <1>3, <1>4, <1>5 DEF History, world
<1>9. Answers'
  <2> SUFFICES ASSUME NEW v \in Calls
               PROVE  /\ call[v].pc # "idle" => hasValidator
                      /\ call[v].pc = "answered" =>
                           /\ call[v].at <= seen'[call[v].flow][call[v].allowed]
                           /\ now' <= call[v].at + MaxLatency
    BY <1>4 DEF Answers, world
  <2>1. CASE call[v].pc = "answered"
    <3>1. PICK f \in Flow, b \in BOOLEAN, at \in Nat :
               f = call[v].flow /\ b = call[v].allowed /\ at = call[v].at
      BY <2>1, CallFields DEF Inv
    <3>2. at <= seen[f][b] /\ now <= at + MaxLatency /\ hasValidator
      BY <2>1, <3>1 DEF Inv, Answers
    <3>3. at <= seen'[f][b]
      BY <1>5, <1>6, <3>2
    <3>4. now' = now \/ now < at + MaxLatency
      BY <2>1, <3>1 DEF Tick, OwnerChanges
    <3>5. now' <= at + MaxLatency
      BY <1>1, <1>2, <3>2, <3>4, HookAssumption
    <3> QED
      BY <3>1, <3>2, <3>3, <3>5
  <2>2. CASE call[v].pc # "answered"
    BY <2>2 DEF Inv, Answers
  <2> QED
    BY <2>1, <2>2
<1>10. Entries'
  <2> SUFFICES ASSUME NEW i \in 1..Len(list)
               PROVE  /\ hasValidator
                      /\ list[i].expired
                           <= seen'[list[i].key][list[i].allowed] + TTL + MaxLatency
    BY <1>4 DEF Entries, world
  <2>1. list[i] \in Cache!Entry
    BY ElementOfSeq DEF Inv, CacheInv, Cache!TypeOK
  <2>2. PICK f \in Flow, b \in BOOLEAN, x \in Nat :
             f = list[i].key /\ b = list[i].allowed /\ x = list[i].expired
    BY <2>1 DEF Cache!Entry
  <2>3. hasValidator /\ x <= seen[f][b] + TTL + MaxLatency
    BY <2>2 DEF Inv, Entries
  <2>4. seen[f][b] \in Int /\ seen'[f][b] \in Int /\ seen[f][b] <= seen'[f][b]
    BY <1>5, <1>6
  <2>5. x <= seen'[f][b] + TTL + MaxLatency
    BY <2>3, <2>4, HookAssumption
  <2> QED
    BY <2>2, <2>3, <2>5
<1> QED
  BY <1>7, <1>8, <1>9, <1>10 DEF Inv

\* Every step preserves the invariant.
LEMMA NextInv == Inv /\ [Next]_vars => Inv'
<1> SUFFICES ASSUME Inv, [Next]_vars PROVE Inv'
  OBVIOUS
<1>1. CacheInv'
  BY UsesCache, CacheInvStep DEF Inv
<1>2. CASE UNCHANGED vars
  BY <1>1, <1>2 DEF vars, cacheVars, world, Inv, HookTypes, History, Answers, Entries
<1> QED
  BY <1>1, <1>2, LookupInv, AnswerInv, StoreInv, WorldInv DEF Next, Validate

-----------------------------------------------------------------------------
(* The theorems.                                                           *)

\* Concurrent calls of Validate and Invalidate use the cache only through its methods:
\* what is proved of LRUCache alone holds in the hook.
THEOREM HookDrivesCache == Spec => Cache!Spec
<1>1. Init => Cache!Init
  BY DEF Init, Cache!Init
<1>2. Inv => HookTypes
  BY DEF Inv
<1> QED
  BY <1>1, <1>2, InitInv, NextInv, UsesCache, PTL DEF Spec, Cache!Spec

\* Every variable of the hook, the cache included, keeps its type.
THEOREM HookTypesHold == Spec => []TypeOK
<1>1. Inv => TypeOK
  BY DEF Inv, CacheInv, HookTypes, TypeOK
<1> QED
  BY <1>1, InitInv, NextInv, PTL DEF Spec

\* For any number of concurrent calls, flows, apps and any whitelist, whatever Validate
\* finds in the cache was the policy's verdict on that same flow less than
\* cacheTTLSeconds and the latency of one call ago.
THEOREM VerdictFreshHolds == Spec => []VerdictFresh
<1>1. Inv => VerdictFresh
  <2> SUFFICES ASSUME Inv, NEW f \in Flow, HasResult(f)
               PROVE  hasValidator /\ ~StaleBy(f, Result(f), TTL + MaxLatency)
    BY DEF VerdictFresh
  <2>1. f \in cached /\ now < list[Cache!Elem(f)].expired
    BY KeyIsFlow DEF HasResult, Cache!Hit
  <2>2. PICK i \in 1..Len(list) : i = Cache!Elem(f) /\ list[i].key = f
    <3>1. \E i \in 1..Len(list) : list[i].key = f
      BY <2>1 DEF Inv, CacheInv, Cache!MapMatchesList
    <3>2. Cache!Elem(f) \in 1..Len(list) /\ list[Cache!Elem(f)].key = f
      BY <3>1, Zenon DEF Cache!Elem
    <3> QED
      BY <3>2
  <2>3. list[i] \in Cache!Entry
    BY ElementOfSeq DEF Inv, CacheInv, Cache!TypeOK
  <2>4. PICK b \in BOOLEAN, x \in Nat : b = list[i].allowed /\ x = list[i].expired
    BY <2>3 DEF Cache!Entry
  <2>5. hasValidator /\ x <= seen[f][b] + TTL + MaxLatency
    BY <2>2, <2>4 DEF Inv, Entries
  <2>6. now \in Nat /\ seen[f][b] \in Int /\ now < x
    BY <2>1, <2>2, <2>4 DEF Inv, HookTypes, CacheInv, Cache!TypeOK
  <2>7. ~(now - seen[f][b] >= TTL + MaxLatency)
    BY <2>5, <2>6, HookAssumption
  <2>8. Result(f) = b
    BY <2>2, <2>4, KeyIsFlow DEF Result
  <2> QED
    BY <2>5, <2>7, <2>8 DEF StaleBy
<1> QED
  BY <1>1, InitInv, NextInv, PTL DEF Spec
=============================================================================
