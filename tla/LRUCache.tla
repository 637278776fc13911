------------------------------ MODULE LRUCache ------------------------------
(***************************************************************************)
(* LRUCache of go/connection.go: a map and a doubly linked list under one  *)
(* mutex, with a TTL.  Each method holds the mutex throughout and is one   *)
(* action.  An entry is a member of the list, front first; the map's       *)
(* pointer from a key to its list element is the position of that key.     *)
(***************************************************************************)
EXTENDS Integers, Sequences, FiniteSets

CONSTANTS
  Keys,      \* ConnectionKeys
  Capacity,  \* c.capacity; the caller may pass any int64
  TTL,       \* c.ttl
  MaxTime    \* bound on the clock

ASSUME CacheAssumption == Capacity \in Int /\ TTL \in Nat /\ MaxTime \in Nat

VARIABLES
  cached,  \* the keys of the map c.cache
  list,    \* c.list
  now      \* time.Now()

cacheVars == <<cached, list>>

Entry == [key : Keys, allowed : BOOLEAN, expired : Nat]

CacheInit == cached = {} /\ list = <<>>

-----------------------------------------------------------------------------
(* container/list, on an element given by its position.                    *)

\* The element the map holds for k.
Elem(k) == CHOOSE i \in 1..Len(list) : list[i].key = k

ListRemove(l, i) == [j \in 1..(Len(l) - 1) |-> IF j < i THEN l[j] ELSE l[j + 1]]

PushFront(l, x) == [j \in 1..(Len(l) + 1) |-> IF j = 1 THEN x ELSE l[j - 1]]

\* MoveToFront, after the entry's value was set to x.
MoveToFront(l, i, x) ==
  [j \in 1..Len(l) |-> IF j = 1 THEN x ELSE IF j <= i THEN l[j - 1] ELSE l[j]]

-----------------------------------------------------------------------------
(* The methods.                                                            *)

\* Would Get(k) find a valid result?
Hit(k) == k \in cached /\ now < list[Elem(k)].expired

\* Mutant: removeElement takes the element off the list only.
removeFromList(i) ==
  /\ list' = ListRemove(list, i)
  /\ UNCHANGED cached

removeElement(i) ==
  /\ cached' = cached \ {list[i].key}
  /\ list' = ListRemove(list, i)

\* Mutant: a hit does not move its entry to the front.
GetHitInPlace(k) == Hit(k) /\ UNCHANGED cacheVars

GetHit(k) ==
  /\ Hit(k)
  /\ list' = MoveToFront(list, Elem(k), list[Elem(k)])
  /\ UNCHANGED cached

\* Nothing is found; an expired entry is dropped on the way.
GetMiss(k) ==
  /\ ~Hit(k)
  /\ IF k \in cached THEN removeElement(Elem(k)) ELSE UNCHANGED cacheVars

\* An existing entry gets the new result, including the new expiry.
AddExisting(k, x) ==
  /\ k \in cached
  /\ list' = MoveToFront(list, Elem(k), x)
  /\ UNCHANGED cached

\* Mutant: the capacity is tested before the insertion.
AddNewEarly(k, x) ==
  /\ k \notin cached
  /\ LET pushed == PushFront(list, x)
         oldest == pushed[Len(pushed)]
     IN IF Len(list) > Capacity
        THEN /\ list' = ListRemove(pushed, Len(pushed))
             /\ cached' = (cached \cup {k}) \ {oldest.key}
        ELSE /\ list' = pushed
             /\ cached' = cached \cup {k}

AddNew(k, x) ==
  /\ k \notin cached
  /\ LET pushed == PushFront(list, x)
         oldest == pushed[Len(pushed)]
     IN IF Len(pushed) > Capacity
        THEN /\ list' = ListRemove(pushed, Len(pushed))
             /\ cached' = (cached \cup {k}) \ {oldest.key}
        ELSE /\ list' = pushed
             /\ cached' = cached \cup {k}

Add(k, allowed) ==
  LET x == [key |-> k, allowed |-> allowed, expired |-> now + TTL]
  IN AddExisting(k, x) \/ AddNew(k, x)

Remove(k) ==
  IF k \in cached THEN removeElement(Elem(k)) ELSE UNCHANGED cacheVars

-----------------------------------------------------------------------------
(* The cache on its own, driven by arbitrary callers.                      *)

Tick == now < MaxTime /\ now' = now + 1 /\ UNCHANGED cacheVars

vars == <<cached, list, now>>

Init == CacheInit /\ now = 0

Next ==
  \/ \E k \in Keys :
       /\ \/ GetHit(k) \/ GetMiss(k) \/ Remove(k)
          \/ \E allowed \in BOOLEAN : Add(k, allowed)
       /\ UNCHANGED now
  \/ Tick

Spec == Init /\ [][Next]_vars

-----------------------------------------------------------------------------
(* Properties.                                                             *)

\* The map holds keys, the list entries of the cache.
TypeOK ==
  /\ cached \subseteq Keys
  /\ list \in Seq(Entry)
  /\ now \in Nat

\* The map and the list describe the same entries: every list element is the one
\* the map holds for its key, and every key of the map has an element.  A map
\* entry without element would keep an evicted key alive, an element without map
\* entry would never be found or freed.
MapMatchesList ==
  /\ \A i \in 1..Len(list) : list[i].key \in cached
  /\ \A i, j \in 1..Len(list) : list[i].key = list[j].key => i = j
  /\ \A k \in cached : \E i \in 1..Len(list) : list[i].key = k

\* Evicting at most one entry per Add is enough to keep the cache within its
\* capacity; with a capacity of zero or less it stays empty.
WithinCapacity == Len(list) <= (IF Capacity > 0 THEN Capacity ELSE 0)
=============================================================================
