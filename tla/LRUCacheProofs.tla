--------------------------- MODULE LRUCacheProofs ---------------------------
(***************************************************************************)
(* Proofs about LRUCache, for every set of keys, capacity and TTL: its map *)
(* and its list agree, and the list is in the order of last use.           *)
(***************************************************************************)
EXTENDS LRURecency, SequenceTheorems, TLAPS

(* A finite table of entries is a list of that length.                     *)
LEMMA TableIsList ==
  ASSUME NEW n \in Nat, NEW f, f = [j \in 1..n |-> f[j]],
         \A j \in 1..n : f[j] \in Entry
  PROVE  f \in Seq(Entry) /\ Len(f) = n
<1>1. f \in [1..n -> Entry]
  OBVIOUS
<1>2. f \in Seq(Entry)
  BY <1>1, SeqDef
<1>3. DOMAIN f = 1..n
  BY <1>1
<1> QED
  BY <1>2, <1>3, LenProperties

(* container/list.Remove: one element less, the others keep their order.   *)
LEMMA ListRemoveFacts ==
  ASSUME NEW l \in Seq(Entry), NEW i \in 1..Len(l)
  PROVE  /\ ListRemove(l, i) \in Seq(Entry)
         /\ Len(ListRemove(l, i)) = Len(l) - 1
         /\ \A j \in 1..(Len(l) - 1) :
              ListRemove(l, i)[j] = IF j < i THEN l[j] ELSE l[j + 1]
<1> DEFINE r == ListRemove(l, i)
<1>1. Len(l) \in Nat /\ Len(l) - 1 \in Nat /\ \A j \in 1..Len(l) : l[j] \in Entry
  BY ElementOfSeq, LenProperties
<1>2. \A j \in 1..(Len(l) - 1) : r[j] = IF j < i THEN l[j] ELSE l[j + 1]
  BY DEF ListRemove
<1>3. \A j \in 1..(Len(l) - 1) : r[j] \in Entry
  BY <1>1, <1>2
<1>4. r = [j \in 1..(Len(l) - 1) |-> r[j]]
  BY DEF ListRemove
<1> QED
  BY <1>1, <1>2, <1>3, <1>4, TableIsList

(* container/list.PushFront.                                               *)
LEMMA PushFrontFacts ==
  ASSUME NEW l \in Seq(Entry), NEW x \in Entry
  PROVE  /\ PushFront(l, x) \in Seq(Entry)
         /\ Len(PushFront(l, x)) = Len(l) + 1
         /\ \A j \in 1..(Len(l) + 1) :
              PushFront(l, x)[j] = IF j = 1 THEN x ELSE l[j - 1]
<1> DEFINE r == PushFront(l, x)
<1>1. Len(l) \in Nat /\ Len(l) + 1 \in Nat /\ \A j \in 1..Len(l) : l[j] \in Entry
  BY ElementOfSeq, LenProperties
<1>2. \A j \in 1..(Len(l) + 1) : r[j] = IF j = 1 THEN x ELSE l[j - 1]
  BY DEF PushFront
<1>3. \A j \in 1..(Len(l) + 1) : r[j] \in Entry
  BY <1>1, <1>2
<1>4. r = [j \in 1..(Len(l) + 1) |-> r[j]]
  BY DEF PushFront
<1> QED
  BY <1>1, <1>2, <1>3, <1>4, TableIsList

(* container/list.MoveToFront, with the entry's value set to x.            *)
LEMMA MoveToFrontFacts ==
  ASSUME NEW l \in Seq(Entry), NEW i \in 1..Len(l), NEW x \in Entry
  PROVE  /\ MoveToFront(l, i, x) \in Seq(Entry)
         /\ Len(MoveToFront(l, i, x)) = Len(l)
         /\ \A j \in 1..Len(l) : MoveToFront(l, i, x)[j] =
              IF j = 1 THEN x ELSE IF j <= i THEN l[j - 1] ELSE l[j]
<1> DEFINE r == MoveToFront(l, i, x)
<1>1. Len(l) \in Nat /\ \A j \in 1..Len(l) : l[j] \in Entry
  BY ElementOfSeq, LenProperties
<1>2. \A j \in 1..Len(l) : r[j] = IF j = 1 THEN x ELSE IF j <= i THEN l[j - 1] ELSE l[j]
  BY DEF MoveToFront
<1>3. \A j \in 1..Len(l) : r[j] \in Entry
  BY <1>1, <1>2
<1>4. r = [j \in 1..Len(l) |-> r[j]]
  BY DEF MoveToFront
<1> QED
  BY <1>1, <1>2, <1>3, <1>4, TableIsList

(* The map's pointer leads to the element of its key.                      *)
LEMMA ElemFacts ==
  ASSUME MapMatchesList, NEW k \in cached
  PROVE  Elem(k) \in 1..Len(list) /\ list[Elem(k)].key = k
<1>1. \E i \in 1..Len(list) : list[i].key = k
  BY DEF MapMatchesList
<1> QED
  BY <1>1, Zenon DEF Elem

-----------------------------------------------------------------------------
(* The inductive invariant.  Neither half of MapMatchesList survives a step on
   its own: eviction deletes the key of the last element from the map, which is
   right only because no other element has that key.                          *)

Inv == TypeOK /\ MapMatchesList /\ WithinCapacity

(* NewLRUCache: an empty map and an empty list.                            *)
LEMMA InitInv == Init => Inv
<1> SUFFICES ASSUME Init PROVE Inv
  OBVIOUS
<1>1. cached = {} /\ list = <<>> /\ now = 0
  BY DEF Init, CacheInit
<1>2. <<>> \in Seq(Entry) /\ Len(<<>>) = 0
  BY EmptySeq
<1> QED
  BY <1>1, <1>2, CacheAssumption DEF Inv, TypeOK, MapMatchesList, WithinCapacity

(* removeElement deletes one entry from both the map and the list.         *)
LEMMA RemoveElementInv ==
  ASSUME Inv, NEW i \in 1..Len(list), removeElement(i), now' \in Nat
  PROVE  Inv'
<1>1. list \in Seq(Entry) /\ Len(list) \in Nat
  BY LenProperties DEF Inv, TypeOK
<1>2. /\ list' \in Seq(Entry)
      /\ Len(list') = Len(list) - 1
      /\ \A j \in 1..(Len(list) - 1) :
           list'[j] = IF j < i THEN list[j] ELSE list[j + 1]
  BY <1>1, ListRemoveFacts DEF removeElement
<1>3. cached' = cached \ {list[i].key}
  BY DEF removeElement
<1>4. TypeOK'
  BY <1>2, <1>3 DEF Inv, TypeOK
<1>5. \A j \in 1..Len(list') : list'[j].key \in cached'
  BY <1>1, <1>2, <1>3 DEF Inv, MapMatchesList
<1>6. \A j, m \in 1..Len(list') : list'[j].key = list'[m].key => j = m
  <2> TAKE j, m \in 1..Len(list')
  <2> DEFINE jj == IF j < i THEN j ELSE j + 1
             mm == IF m < i THEN m ELSE m + 1
  <2>1. jj \in 1..Len(list) /\ mm \in 1..Len(list) /\ (jj = mm => j = m)
    BY <1>1, <1>2
  <2>2. list'[j] = list[jj] /\ list'[m] = list[mm]
    BY <1>1, <1>2
  <2> QED
    BY <2>1, <2>2 DEF Inv, MapMatchesList
<1>7. \A k \in cached' : \E j \in 1..Len(list') : list'[j].key = k
  <2> TAKE k \in cached'
  <2>1. PICK n \in 1..Len(list) : list[n].key = k
    BY <1>3 DEF Inv, MapMatchesList
  <2>2. n # i
    BY <1>3, <2>1
  <2> DEFINE j == IF n < i THEN n ELSE n - 1
  <2>3. j \in 1..Len(list') /\ list'[j] = list[n]
    BY <1>1, <1>2, <2>2
  <2> QED
    BY <2>1, <2>3
<1>8. WithinCapacity'
  BY <1>1, <1>2, CacheAssumption DEF Inv, WithinCapacity
<1> QED
  BY <1>4, <1>5, <1>6, <1>7, <1>8 DEF Inv, MapMatchesList

(* A hit, or an Add for a cached key, sets the entry and moves it.         *)
LEMMA MoveToFrontInv ==
  ASSUME Inv, NEW k \in cached, NEW x \in Entry, x.key = k,
         list' = MoveToFront(list, Elem(k), x), cached' = cached, now' \in Nat
  PROVE  Inv'
<1> DEFINE i == Elem(k)
<1>1. list \in Seq(Entry) /\ Len(list) \in Nat
  BY LenProperties DEF Inv, TypeOK
<1>2. i \in 1..Len(list) /\ list[i].key = k
  BY ElemFacts DEF Inv
<1>3. /\ list' \in Seq(Entry)
      /\ Len(list') = Len(list)
      /\ \A j \in 1..Len(list) : list'[j] =
           IF j = 1 THEN x ELSE IF j <= i THEN list[j - 1] ELSE list[j]
  <2> HIDE DEF i
  <2>1. /\ MoveToFront(list, i, x) \in Seq(Entry)
        /\ Len(MoveToFront(list, i, x)) = Len(list)
        /\ \A j \in 1..Len(list) : MoveToFront(list, i, x)[j] =
             IF j = 1 THEN x ELSE IF j <= i THEN list[j - 1] ELSE list[j]
    BY <1>1, <1>2, MoveToFrontFacts
  <2>2. list' = MoveToFront(list, i, x)
    BY DEF i
  <2> QED
    BY <2>1, <2>2
<1> HIDE DEF i
<1>4. TypeOK'
  BY <1>3 DEF Inv, TypeOK
<1> DEFINE from(j) == IF j = 1 THEN i ELSE IF j <= i THEN j - 1 ELSE j
<1>5. \A j \in 1..Len(list) : from(j) \in 1..Len(list) /\ list'[j].key = list[from(j)].key
  BY <1>1, <1>2, <1>3
<1>6. \A j, m \in 1..Len(list) : from(j) = from(m) => j = m
  BY <1>1, <1>2
<1>7. \A n \in 1..Len(list) : \E j \in 1..Len(list) : from(j) = n
  <2> TAKE n \in 1..Len(list)
  <2> DEFINE j == IF n = i THEN 1 ELSE IF n < i THEN n + 1 ELSE n
  <2>1. j \in 1..Len(list) /\ from(j) = n
    BY <1>1, <1>2
  <2> QED
    BY <2>1
<1> HIDE DEF from
<1>8. MapMatchesList'
  <2>1. /\ \A n \in 1..Len(list) : list[n].key \in cached
        /\ \A n, m \in 1..Len(list) : list[n].key = list[m].key => n = m
        /\ \A h \in cached : \E n \in 1..Len(list) : list[n].key = h
    BY DEF Inv, MapMatchesList
  <2>2. \A j \in 1..Len(list) : list'[j].key \in cached
    <3> TAKE j \in 1..Len(list)
    <3>1. PICK n \in 1..Len(list) : list'[j].key = list[n].key
      BY <1>5
    <3> QED
      BY <2>1, <3>1
  <2>3. \A j, m \in 1..Len(list) : list'[j].key = list'[m].key => j = m
    <3> TAKE j, m \in 1..Len(list)
    <3>1. PICK a \in 1..Len(list) : a = from(j) /\ list'[j].key = list[a].key
      BY <1>5
    <3>2. PICK b \in 1..Len(list) : b = from(m) /\ list'[m].key = list[b].key
      BY <1>5
    <3>3. a = b => j = m
      BY <1>6, <3>1, <3>2
    <3>4. list[a].key = list[b].key => a = b
      BY <2>1
    <3> QED
      BY <3>1, <3>2, <3>3, <3>4
  <2>4. \A h \in cached : \E j \in 1..Len(list) : list'[j].key = h
    <3> TAKE h \in cached
    <3>1. PICK n \in 1..Len(list) : list[n].key = h
      BY <2>1
    <3>2. PICK j \in 1..Len(list) : from(j) = n
      BY <1>7
    <3> QED
      BY <1>5, <3>1, <3>2
  <2> QED
    BY <1>3, <2>2, <2>3, <2>4 DEF MapMatchesList
<1>9. WithinCapacity'
  BY <1>3 DEF Inv, WithinCapacity
<1> QED
  BY <1>4, <1>8, <1>9 DEF Inv

(* Inserting a new entry and evicting the last one if the list is too long. *)
LEMMA AddNewInv ==
  ASSUME Inv, NEW k \in Keys, NEW x \in Entry, x.key = k, AddNew(k, x), now' \in Nat
  PROVE  Inv'
<1> DEFINE p == PushFront(list, x)
           n == Len(list)
<1>1. list \in Seq(Entry) /\ n \in Nat /\ cached \subseteq Keys /\ k \notin cached
  BY LenProperties DEF Inv, TypeOK, AddNew
<1>2. /\ p \in Seq(Entry)
      /\ Len(p) = n + 1
      /\ \A j \in 1..(n + 1) : p[j] = IF j = 1 THEN x ELSE list[j - 1]
  BY <1>1, PushFrontFacts
<1>3. /\ \A j \in 1..(n + 1) : p[j].key \in cached \cup {k}
      /\ \A j, m \in 1..(n + 1) : p[j].key = p[m].key => j = m
      /\ \A h \in cached \cup {k} : \E j \in 1..(n + 1) : p[j].key = h
  <2>1. \A j \in 1..n : list[j].key \in cached /\ list[j].key # k /\ p[j + 1] = list[j]
    BY <1>1, <1>2 DEF Inv, MapMatchesList
  <2>2. p[1] = x
    BY <1>1, <1>2
  <2>6. \A j \in 1..(n + 1) : j = 1 \/ (j - 1 \in 1..n /\ p[j] = list[j - 1])
    BY <1>1, <1>2
  <2> HIDE DEF p, n
  <2>3. \A j \in 1..(n + 1) : p[j].key \in cached \cup {k}
    BY <2>1, <2>2, <2>6
  <2>4. ASSUME NEW j \in 1..(n + 1), NEW m \in 1..(n + 1), p[j].key = p[m].key
        PROVE  j = m
    <3>1. CASE j = 1 \/ m = 1
      BY <2>1, <2>2, <2>4, <2>6, <3>1
    <3>2. CASE j # 1 /\ m # 1
      <4>1. j - 1 \in 1..n /\ m - 1 \in 1..n
        BY <2>6, <3>2
      <4>2. list[j - 1].key = list[m - 1].key
        BY <2>4, <2>6, <3>2
      <4> QED
        BY <1>1, <4>1, <4>2 DEF Inv, MapMatchesList, n
    <3> QED
      BY <3>1, <3>2
  <2>5. ASSUME NEW h \in cached \cup {k} PROVE \E j \in 1..(n + 1) : p[j].key = h
    <3>1. CASE h = k
      BY <1>1, <2>2, <3>1
    <3>2. CASE h \in cached
      <4>1. PICK j \in 1..n : list[j].key = h
        BY <3>2 DEF Inv, MapMatchesList, n
      <4>2. j + 1 \in 1..(n + 1) /\ p[j + 1].key = h
        BY <1>1, <2>1, <4>1
      <4> QED
        BY <4>2
    <3> QED
      BY <3>1, <3>2
  <2> QED
    BY <2>3, <2>4, <2>5
<1>4. CASE n + 1 > Capacity
  <2>1. /\ list' = ListRemove(p, n + 1)
        /\ cached' = (cached \cup {k}) \ {p[n + 1].key}
    BY <1>2, <1>4 DEF AddNew
  <2>2. /\ list' \in Seq(Entry)
        /\ Len(list') = n
        /\ \A j \in 1..n : list'[j] = p[j]
    <3>1. n + 1 \in 1..Len(p)
      BY <1>1, <1>2
    <3>2. /\ ListRemove(p, n + 1) \in Seq(Entry)
          /\ Len(ListRemove(p, n + 1)) = Len(p) - 1
          /\ \A j \in 1..(Len(p) - 1) : ListRemove(p, n + 1)[j] =
               IF j < n + 1 THEN p[j] ELSE p[j + 1]
      BY <1>2, <3>1, ListRemoveFacts
    <3> QED
      BY <1>1, <1>2, <2>1, <3>2
  <2>3. TypeOK'
    BY <1>1, <2>1, <2>2 DEF Inv, TypeOK
  <2>4. MapMatchesList'
    <3> HIDE DEF p, n
    <3>1. \A j \in 1..n : j \in 1..(n + 1) /\ j # n + 1
      BY <1>1
    <3>2. \A h \in cached' : \E j \in 1..n : p[j].key = h
      <4> TAKE h \in cached'
      <4>1. PICK j \in 1..(n + 1) : p[j].key = h
        BY <1>3, <2>1
      <4>2. j # n + 1
        BY <2>1, <4>1
      <4> QED
        BY <1>1, <4>1, <4>2
    <3>3. \A j \in 1..n : p[j].key \in cached'
      <4> TAKE j \in 1..n
      <4>1. p[j].key # p[n + 1].key
        BY <1>1, <1>3, <3>1
      <4> QED
        BY <1>3, <2>1, <3>1, <4>1
    <3> QED
      BY <1>3, <2>2, <3>1, <3>2, <3>3 DEF MapMatchesList
  <2>5. WithinCapacity'
    BY <2>2 DEF Inv, WithinCapacity
  <2> QED
    BY <2>3, <2>4, <2>5 DEF Inv
<1>5. CASE ~(n + 1 > Capacity)
  <2>1. list' = p /\ cached' = cached \cup {k}
    BY <1>2, <1>5 DEF AddNew
  <2>2. TypeOK'
    BY <1>1, <1>2, <2>1 DEF TypeOK
  <2>3. MapMatchesList'
    BY <1>2, <1>3, <2>1 DEF MapMatchesList
  <2>4. WithinCapacity'
    BY <1>1, <1>2, <1>5, <2>1, CacheAssumption DEF WithinCapacity
  <2> QED
    BY <2>2, <2>3, <2>4 DEF Inv
<1> QED
  BY <1>4, <1>5

(* Every method of the cache, and the passing of time, keeps the invariant. *)
LEMMA NextInv == Inv /\ [Next]_vars => Inv'
<1> SUFFICES ASSUME Inv, [Next]_vars PROVE Inv'
  OBVIOUS
<1>0. now \in Nat /\ list \in Seq(Entry) /\ cached \subseteq Keys
  BY DEF Inv, TypeOK
<1>1. ASSUME NEW k \in Keys, GetHit(k), UNCHANGED now PROVE Inv'
  <2>1. k \in cached
    BY <1>1 DEF GetHit, Hit
  <2>2. Elem(k) \in 1..Len(list) /\ list[Elem(k)].key = k
    BY <2>1, ElemFacts DEF Inv
  <2>3. list[Elem(k)] \in Entry
    BY <1>0, <2>2, ElementOfSeq
  <2> QED
    BY <1>0, <1>1, <2>1, <2>2, <2>3, MoveToFrontInv DEF GetHit
<1>2. ASSUME NEW k \in Keys, GetMiss(k) \/ Remove(k), UNCHANGED now PROVE Inv'
  <2>1. CASE k \in cached
    <3>1. removeElement(Elem(k))
      BY <1>2, <2>1 DEF GetMiss, Remove
    <3>2. Elem(k) \in 1..Len(list)
      BY <2>1, ElemFacts DEF Inv
    <3> QED
      BY <1>0, <1>2, <3>1, <3>2, RemoveElementInv
  <2>2. CASE k \notin cached
    <3>1. UNCHANGED <<cached, list, now>>
      BY <1>2, <2>2 DEF GetMiss, Remove, cacheVars
    <3> QED
      BY <3>1 DEF Inv, TypeOK, MapMatchesList, WithinCapacity
  <2> QED
    BY <2>1, <2>2
<1>3. ASSUME NEW k \in Keys, NEW allowed \in BOOLEAN, Add(k, allowed), UNCHANGED now
      PROVE  Inv'
  <2> DEFINE x == [key |-> k, allowed |-> allowed, expired |-> now + TTL]
  <2>1. x \in Entry /\ x.key = k
    BY <1>0, CacheAssumption DEF Entry
  <2>2. AddExisting(k, x) \/ AddNew(k, x)
    BY <1>3 DEF Add
  <2> HIDE DEF x
  <2>3. CASE AddExisting(k, x)
    BY <1>0, <1>3, <2>1, <2>3, MoveToFrontInv DEF AddExisting
  <2>4. CASE AddNew(k, x)
    BY <1>0, <1>3, <2>1, <2>4, AddNewInv
  <2> QED
    BY <2>2, <2>3, <2>4
<1>4. CASE Tick
  BY <1>0, <1>4 DEF Tick, cacheVars, Inv, TypeOK, MapMatchesList, WithinCapacity
<1>5. CASE UNCHANGED vars
  BY <1>5 DEF vars, Inv, TypeOK, MapMatchesList, WithinCapacity
<1> QED
  BY <1>1, <1>2, <1>3, <1>4, <1>5 DEF Next

-----------------------------------------------------------------------------
(* Where the entries come from, for the users of the cache.                *)

\* Looking a key up or removing it brings no entry into the list.
LEMMA EntriesStay ==
  ASSUME Inv, NEW k \in Keys, GetHit(k) \/ GetMiss(k) \/ Remove(k)
  PROVE  \A i \in 1..Len(list') : \E j \in 1..Len(list) : list'[i] = list[j]
<1>1. list \in Seq(Entry) /\ Len(list) \in Nat
  BY LenProperties DEF Inv, TypeOK
<1>2. k \in cached => Elem(k) \in 1..Len(list)
  BY ElemFacts DEF Inv
<1>3. CASE GetHit(k)
  <2>1. k \in cached /\ list' = MoveToFront(list, Elem(k), list[Elem(k)])
    BY <1>3 DEF GetHit, Hit
  <2>2. PICK n \in 1..Len(list) : n = Elem(k)
    BY <1>2, <2>1
  <2>3. PICK x \in Entry : x = list[n]
    BY <1>1, ElementOfSeq
  <2>4. /\ Len(list') = Len(list)
        /\ \A i \in 1..Len(list) : list'[i] =
             IF i = 1 THEN x ELSE IF i <= n THEN list[i - 1] ELSE list[i]
    <3>1. list' = MoveToFront(list, n, x)
      BY <2>1, <2>2, <2>3
    <3>2. /\ Len(MoveToFront(list, n, x)) = Len(list)
          /\ \A i \in 1..Len(list) : MoveToFront(list, n, x)[i] =
               IF i = 1 THEN x ELSE IF i <= n THEN list[i - 1] ELSE list[i]
      BY <1>1, MoveToFrontFacts
    <3> QED
      BY <3>1, <3>2
  <2>5. \A i \in 1..Len(list) : i = 1 \/ i - 1 \in 1..Len(list)
    BY <1>1
  <2> QED
    BY <2>3, <2>4, <2>5
<1>4. CASE GetMiss(k) \/ Remove(k)
  <2>1. CASE k \in cached
    <3>1. PICK n \in 1..Len(list) : n = Elem(k)
      BY <1>2, <2>1
    <3>2. list' = ListRemove(list, n)
      BY <1>4, <2>1, <3>1 DEF GetMiss, Remove, removeElement
    <3>3. /\ Len(list') = Len(list) - 1
          /\ \A i \in 1..(Len(list) - 1) :
               list'[i] = IF i < n THEN list[i] ELSE list[i + 1]
      BY <1>1, <3>2, ListRemoveFacts
    <3>4. \A i \in 1..(Len(list) - 1) : i \in 1..Len(list) /\ i + 1 \in 1..Len(list)
      BY <1>1
    <3> QED
      BY <3>3, <3>4
  <2>2. CASE k \notin cached
    BY <1>4, <2>2 DEF GetMiss, Remove, cacheVars
  <2> QED
    BY <2>1, <2>2
<1> QED
  BY <1>3, <1>4

\* Add brings in the one entry it is given.
LEMMA AddBringsOne ==
  ASSUME Inv, NEW k \in Keys, NEW allowed \in BOOLEAN, Add(k, allowed)
  PROVE  \A i \in 1..Len(list') :
           \/ list'[i] = [key |-> k, allowed |-> allowed, expired |-> now + TTL]
           \/ \E j \in 1..Len(list) : list'[i] = list[j]
<1>1. list \in Seq(Entry) /\ Len(list) \in Nat
  BY LenProperties DEF Inv, TypeOK
<1>2. PICK x \in Entry : x = [key |-> k, allowed |-> allowed, expired |-> now + TTL]
  <2>1. now + TTL \in Nat
    BY CacheAssumption DEF Inv, TypeOK
  <2>2. [key |-> k, allowed |-> allowed, expired |-> now + TTL] \in Entry
    BY <2>1 DEF Entry
  <2> QED
    BY <2>2
<1>3. AddExisting(k, x) \/ AddNew(k, x)
  BY <1>2 DEF Add
<1>4. \A i \in 1..Len(list) : i = 1 \/ i - 1 \in 1..Len(list)
  BY <1>1
<1>5. CASE AddExisting(k, x)
  <2>1. PICK n \in 1..Len(list) : n = Elem(k)
    BY <1>5, ElemFacts DEF Inv, AddExisting
  <2>2. /\ Len(list') = Len(list)
        /\ \A i \in 1..Len(list) : list'[i] =
             IF i = 1 THEN x ELSE IF i <= n THEN list[i - 1] ELSE list[i]
    <3>1. list' = MoveToFront(list, n, x)
      BY <1>5, <2>1 DEF AddExisting
    <3>2. /\ Len(MoveToFront(list, n, x)) = Len(list)
          /\ \A i \in 1..Len(list) : MoveToFront(list, n, x)[i] =
               IF i = 1 THEN x ELSE IF i <= n THEN list[i - 1] ELSE list[i]
      BY <1>1, <1>2, MoveToFrontFacts
    <3> QED
      BY <3>1, <3>2
  <2> QED
    BY <1>2, <1>4, <2>2
<1>6. CASE AddNew(k, x)
  <2> DEFINE p == PushFront(list, x)
  <2>1. /\ p \in Seq(Entry) /\ Len(p) = Len(list) + 1
        /\ \A i \in 1..(Len(list) + 1) : p[i] = IF i = 1 THEN x ELSE list[i - 1]
    BY <1>1, <1>2, PushFrontFacts
  <2>2. \A i \in 1..Len(p) : p[i] = x \/ \E j \in 1..Len(list) : p[i] = list[j]
    <3>1. \A i \in 1..(Len(list) + 1) : i = 1 \/ i - 1 \in 1..Len(list)
      BY <1>1
    <3> QED
      BY <2>1, <3>1
  <2>3. list' = p \/ list' = ListRemove(p, Len(p))
    BY <1>6 DEF AddNew
  <2>4. Len(p) \in 1..Len(p)
    BY <1>1, <2>1
  <2> HIDE DEF p
  <2>5. list' = ListRemove(p, Len(p)) =>
          /\ Len(list') = Len(p) - 1
          /\ \A i \in 1..(Len(p) - 1) : list'[i] = IF i < Len(p) THEN p[i] ELSE p[i + 1]
    BY <2>1, <2>4, ListRemoveFacts
  <2>6. \A i \in 1..(Len(p) - 1) : i \in 1..Len(p) /\ i < Len(p)
    BY <1>1, <2>1
  <2>7. \A i \in 1..Len(list') : i \in 1..Len(p) /\ list'[i] = p[i]
    BY <2>3, <2>5, <2>6
  <2> QED
    BY <1>2, <2>2, <2>7
<1> QED
  BY <1>3, <1>5, <1>6

-----------------------------------------------------------------------------
(* The order of the list.  RecencyOrder alone says nothing of an entry whose
   key was never used, so it is not inductive: Ordered adds that every entry
   has a last use.                                                           *)

Ordered ==
  /\ uses \in Seq(Keys)
  /\ \A p \in 1..Len(list) : \E i \in 1..Len(uses) : LastAt(uses, i, list[p].key)
  /\ \A p, q \in 1..Len(list), i, j \in 1..Len(uses) :
       p < q /\ LastAt(uses, i, list[p].key) /\ LastAt(uses, j, list[q].key) => i > j

(* LastUse is the last use of a key that has one.                          *)
LEMMA LastUseFacts ==
  ASSUME NEW k, \E i \in 1..Len(uses) : LastAt(uses, i, k)
  PROVE  LastUse(k) \in 1..Len(uses) /\ LastAt(uses, LastUse(k), k)
BY Zenon DEF LastUse

(* The entries that stay when one leaves keep their order.                 *)
LEMMA LeavingKeepsOrder ==
  ASSUME Ordered, Len(list) \in Nat, NEW n \in 1..Len(list), uses' = uses,
         Len(list') = Len(list) - 1,
         \A p \in 1..(Len(list) - 1) :
           list'[p] = IF p < n THEN list[p] ELSE list[p + 1]
  PROVE  Ordered'
<1> DEFINE from(p) == IF p < n THEN p ELSE p + 1
<1>1. \A p \in 1..Len(list') : from(p) \in 1..Len(list) /\ list'[p] = list[from(p)]
  OBVIOUS
<1>2. \A p, q \in 1..Len(list') : p < q => from(p) < from(q)
  OBVIOUS
<1> HIDE DEF from
<1>3. \A i, k : LastAt(uses', i, k) <=> LastAt(uses, i, k)
  BY DEF LastAt
<1>4. \A p \in 1..Len(list') : \E i \in 1..Len(uses') : LastAt(uses', i, list'[p].key)
  BY <1>1, <1>3 DEF Ordered
<1>5. ASSUME NEW p \in 1..Len(list'), NEW q \in 1..Len(list'),
             NEW i \in 1..Len(uses'), NEW j \in 1..Len(uses'),
             p < q, LastAt(uses', i, list'[p].key), LastAt(uses', j, list'[q].key)
      PROVE  i > j
  <2>1. PICK a \in 1..Len(list) : a = from(p) /\ list'[p] = list[a]
    BY <1>1
  <2>2. PICK b \in 1..Len(list) : b = from(q) /\ list'[q] = list[b]
    BY <1>1
  <2>3. a < b
    BY <1>2, <1>5, <2>1, <2>2
  <2>4. LastAt(uses, i, list[a].key) /\ LastAt(uses, j, list[b].key)
    BY <1>3, <1>5, <2>1, <2>2
  <2> QED
    BY <2>3, <2>4 DEF Ordered
<1> QED
  BY <1>4, <1>5 DEF Ordered

(* The use of k puts its entry first; the entries of other keys keep their
   order.  The entry of k was the n-th, or n is the place after the last one. *)
LEMMA UseKeepsOrder ==
  ASSUME Ordered, Len(list) \in Nat, NEW k \in Keys, uses' = Append(uses, k),
         NEW n \in 1..(Len(list) + 1),
         \A p \in 1..Len(list) : p # n => list[p].key # k,
         Len(list') \in Nat, Len(list') <= Len(list) + 1,
         n <= Len(list) => Len(list') = Len(list),
         NEW x, x.key = k,
         \A p \in 1..Len(list') : list'[p] =
           IF p = 1 THEN x ELSE IF p <= n THEN list[p - 1] ELSE list[p]
  PROVE  Ordered'
<1> DEFINE m == Len(uses) + 1
           from(p) == IF p <= n THEN p - 1 ELSE p
<1>1. /\ uses \in Seq(Keys) /\ Len(uses) \in Nat
      /\ uses' \in Seq(Keys) /\ Len(uses') = m /\ uses'[m] = k
      /\ \A i \in 1..Len(uses) : uses'[i] = uses[i]
  BY AppendProperties, LenProperties DEF Ordered
<1>2. ASSUME NEW p \in 1..Len(list'), p # 1
      PROVE  /\ from(p) \in 1..Len(list)
             /\ list'[p] = list[from(p)]
             /\ list[from(p)].key # k
  <2>1. from(p) \in 1..Len(list) /\ from(p) # n
    BY <1>2
  <2>2. list'[p] = list[from(p)]
    BY <1>2
  <2> QED
    BY <2>1, <2>2
<1>3. \A p, q \in 1..Len(list') : p # 1 /\ p < q => from(p) < from(q)
  OBVIOUS
<1>4. \A p \in 1..Len(list') : p = 1 => list'[p].key = k
  OBVIOUS
<1> HIDE DEF from
<1>5. \A i \in 1..m : LastAt(uses', i, k) <=> i = m
  <2>1. LastAt(uses', m, k)
    BY <1>1 DEF LastAt
  <2>2. ASSUME NEW i \in 1..m, i # m, LastAt(uses', i, k) PROVE FALSE
    <3>1. m \in (i + 1)..Len(uses')
      BY <1>1, <2>2
    <3> QED
      BY <1>1, <2>2, <3>1 DEF LastAt
  <2> QED
    BY <2>1, <2>2
<1>6. ASSUME NEW h, h # k, NEW i
      PROVE  LastAt(uses', i, h) <=> LastAt(uses, i, h)
  <2>1. ASSUME LastAt(uses, i, h) PROVE LastAt(uses', i, h)
    <3>1. i \in 1..m /\ uses'[i] = h
      BY <1>1, <2>1 DEF LastAt
    <3>2. ASSUME NEW j \in (i + 1)..m PROVE uses'[j] # h
      <4>1. CASE j = m
        BY <1>1, <1>6, <4>1
      <4>2. CASE j # m
        <5>1. j \in (i + 1)..Len(uses) /\ j \in 1..Len(uses)
          BY <1>1, <3>1, <3>2, <4>2
        <5> QED
          BY <1>1, <2>1, <5>1 DEF LastAt
      <4> QED
        BY <4>1, <4>2
    <3> QED
      BY <1>1, <3>1, <3>2 DEF LastAt
  <2>2. ASSUME LastAt(uses', i, h) PROVE LastAt(uses, i, h)
    <3>1. i \in 1..m /\ uses'[i] = h /\ \A j \in (i + 1)..m : uses'[j] # h
      BY <1>1, <2>2 DEF LastAt
    <3>2. i # m
      BY <1>1, <1>6, <3>1
    <3>3. i \in 1..Len(uses) /\ uses[i] = h
      BY <1>1, <3>1, <3>2
    <3>4. ASSUME NEW j \in (i + 1)..Len(uses) PROVE uses[j] # h
      <4>1. j \in (i + 1)..m /\ j \in 1..Len(uses)
        BY <1>1, <3>3, <3>4
      <4> QED
        BY <1>1, <3>1, <4>1
    <3> QED
      BY <3>3, <3>4 DEF LastAt
  <2> QED
    BY <2>1, <2>2
<1>7. ASSUME NEW p \in 1..Len(list')
      PROVE  \E i \in 1..Len(uses') : LastAt(uses', i, list'[p].key)
  <2>1. CASE p = 1
    <3>1. m \in 1..Len(uses') /\ LastAt(uses', m, k)
      BY <1>1, <1>5
    <3> QED
      BY <1>4, <2>1, <3>1
  <2>2. CASE p # 1
    <3>1. PICK a \in 1..Len(list) : a = from(p) /\ list'[p] = list[a] /\ list[a].key # k
      BY <1>2, <2>2
    <3>2. PICK i \in 1..Len(uses) : LastAt(uses, i, list[a].key)
      BY DEF Ordered
    <3>3. i \in 1..Len(uses') /\ LastAt(uses', i, list[a].key)
      BY <1>1, <1>6, <3>1, <3>2
    <3> QED
      BY <3>1, <3>3
  <2> QED
    BY <2>1, <2>2
<1>8. ASSUME NEW p \in 1..Len(list'), NEW q \in 1..Len(list'),
             NEW i \in 1..Len(uses'), NEW j \in 1..Len(uses'),
             p < q, LastAt(uses', i, list'[p].key), LastAt(uses', j, list'[q].key)
      PROVE  i > j
  <2>1. PICK b \in 1..Len(list) : b = from(q) /\ list'[q] = list[b] /\ list[b].key # k
    <3>1. q # 1
      BY <1>8
    <3> QED
      BY <1>2, <3>1
  <2>2. LastAt(uses, j, list[b].key)
    BY <1>6, <1>8, <2>1
  <2>3. j \in 1..Len(uses)
    BY <2>2 DEF LastAt
  <2>4. CASE p = 1
    <3>1. i = m
      BY <1>1, <1>4, <1>5, <1>8, <2>4
    <3> QED
      BY <1>1, <2>3, <3>1
  <2>5. CASE p # 1
    <3>1. PICK a \in 1..Len(list) : a = from(p) /\ list'[p] = list[a] /\ list[a].key # k
      BY <1>2, <2>5
    <3>2. LastAt(uses, i, list[a].key)
      BY <1>6, <1>8, <3>1
    <3>3. i \in 1..Len(uses)
      BY <3>2 DEF LastAt
    <3>4. a < b
      BY <1>3, <1>8, <2>1, <2>5, <3>1
    <3> QED
      BY <2>2, <2>3, <3>2, <3>3, <3>4 DEF Ordered
  <2> QED
    BY <2>4, <2>5
<1> QED
  BY <1>1, <1>7, <1>8 DEF Ordered

(* A hit, or an Add for a cached key, puts the entry of the used key first. *)
LEMMA MovingKeepsOrder ==
  ASSUME Inv, Ordered, NEW k \in cached, NEW x \in Entry, x.key = k,
         list' = MoveToFront(list, Elem(k), x), uses' = Append(uses, k)
  PROVE  Ordered'
<1>1. list \in Seq(Entry) /\ Len(list) \in Nat /\ k \in Keys
  BY LenProperties DEF Inv, TypeOK
<1>2. PICK n \in 1..Len(list) : n = Elem(k) /\ list[n].key = k
  BY ElemFacts DEF Inv
<1>3. /\ Len(list') = Len(list)
      /\ \A p \in 1..Len(list) : list'[p] =
           IF p = 1 THEN x ELSE IF p <= n THEN list[p - 1] ELSE list[p]
  <2>1. list' = MoveToFront(list, n, x)
    BY <1>2
  <2>2. /\ Len(MoveToFront(list, n, x)) = Len(list)
        /\ \A p \in 1..Len(list) : MoveToFront(list, n, x)[p] =
             IF p = 1 THEN x ELSE IF p <= n THEN list[p - 1] ELSE list[p]
    BY <1>1, MoveToFrontFacts
  <2> QED
    BY <2>1, <2>2
<1>4. \A p \in 1..Len(list) : p # n => list[p].key # k
  BY <1>2 DEF Inv, MapMatchesList
<1>5. n \in 1..(Len(list) + 1) /\ Len(list') <= Len(list) + 1
  BY <1>1, <1>3
<1>6. \A p \in 1..Len(list') : list'[p] =
        IF p = 1 THEN x ELSE IF p <= n THEN list[p - 1] ELSE list[p]
  BY <1>3
<1> QED
  BY <1>1, <1>3, <1>4, <1>5, <1>6, UseKeepsOrder

(* An Add for a new key puts its entry first and may drop the last one.    *)
LEMMA AddingKeepsOrder ==
  ASSUME Inv, Ordered, NEW k \in Keys, NEW x \in Entry, x.key = k,
         AddNew(k, x), uses' = Append(uses, k)
  PROVE  Ordered'
<1>1. list \in Seq(Entry) /\ Len(list) \in Nat
  BY LenProperties DEF Inv, TypeOK
<1>2. PICK pushed \in Seq(Entry) :
        /\ pushed = PushFront(list, x)
        /\ Len(pushed) = Len(list) + 1
        /\ \A p \in 1..(Len(list) + 1) : pushed[p] = IF p = 1 THEN x ELSE list[p - 1]
  BY <1>1, PushFrontFacts
<1>3. PICK n \in 1..(Len(list) + 1) : n = Len(list) + 1
  BY <1>1
<1>4. list' = pushed \/ list' = ListRemove(pushed, n)
  BY <1>2, <1>3 DEF AddNew
<1>5. /\ Len(ListRemove(pushed, n)) = Len(pushed) - 1
      /\ \A p \in 1..(Len(pushed) - 1) : ListRemove(pushed, n)[p] =
           IF p < n THEN pushed[p] ELSE pushed[p + 1]
  <2>1. n \in 1..Len(pushed)
    BY <1>2, <1>3
  <2> QED
    BY <1>2, <2>1, ListRemoveFacts
<1>6. Len(list') \in Nat /\ Len(list') <= Len(list) + 1
  BY <1>1, <1>2, <1>4, <1>5
<1>7. \A p \in 1..Len(list') : p \in 1..(Len(list) + 1) /\ p <= n /\ list'[p] = pushed[p]
  BY <1>1, <1>2, <1>3, <1>4, <1>5
<1>8. \A p \in 1..Len(list') : list'[p] =
        IF p = 1 THEN x ELSE IF p <= n THEN list[p - 1] ELSE list[p]
  BY <1>2, <1>7
<1>9. \A p \in 1..Len(list) : p # n => list[p].key # k
  BY DEF Inv, MapMatchesList, AddNew
<1>10. n <= Len(list) => Len(list') = Len(list)
  BY <1>1, <1>3
<1> QED
  BY <1>1, <1>6, <1>8, <1>9, <1>10, UseKeepsOrder

(* Every use of the cache, and the passing of time, keeps the order.       *)
LEMMA NextOrdered == Inv /\ Ordered /\ [HNext]_<<vars, uses>> => Ordered'
<1> SUFFICES ASSUME Inv, Ordered, [HNext]_<<vars, uses>> PROVE Ordered'
  OBVIOUS
<1>0. now \in Nat /\ list \in Seq(Entry) /\ Len(list) \in Nat
  BY LenProperties DEF Inv, TypeOK
<1>1. ASSUME NEW k \in Keys, GetHit(k), Use(k) PROVE Ordered'
  <2>1. k \in cached
    BY <1>1 DEF GetHit, Hit
  <2>2. PICK x \in Entry : x = list[Elem(k)] /\ x.key = k
    BY <1>0, <2>1, ElemFacts, ElementOfSeq DEF Inv
  <2>3. list' = MoveToFront(list, Elem(k), x) /\ uses' = Append(uses, k)
    BY <1>1, <2>2 DEF GetHit, Use
  <2> QED
    BY <2>1, <2>2, <2>3, MovingKeepsOrder
<1>2. ASSUME list' = list, uses' = uses PROVE Ordered'
  BY <1>2 DEF Ordered
<1>3. ASSUME NEW k \in Keys, GetMiss(k) \/ Remove(k), uses' = uses PROVE Ordered'
  <2>1. CASE k \in cached
    <3>1. PICK n \in 1..Len(list) : n = Elem(k)
      BY <2>1, ElemFacts DEF Inv
    <3>2. list' = ListRemove(list, n)
      BY <1>3, <2>1, <3>1 DEF GetMiss, Remove, removeElement
    <3>3. /\ Len(list') = Len(list) - 1
          /\ \A p \in 1..(Len(list) - 1) :
               list'[p] = IF p < n THEN list[p] ELSE list[p + 1]
      BY <1>0, <3>2, ListRemoveFacts
    <3> QED
      BY <1>0, <1>3, <3>3, LeavingKeepsOrder
  <2>2. CASE k \notin cached
    <3>1. list' = list
      BY <1>3, <2>2 DEF GetMiss, Remove, cacheVars
    <3> QED
      BY <1>2, <1>3, <3>1
  <2> QED
    BY <2>1, <2>2
<1>4. ASSUME NEW k \in Keys, NEW allowed \in BOOLEAN, Add(k, allowed), Use(k)
      PROVE  Ordered'
  <2>1. PICK x \in Entry :
          x = [key |-> k, allowed |-> allowed, expired |-> now + TTL] /\ x.key = k
    <3>1. now + TTL \in Nat
      BY <1>0, CacheAssumption
    <3>2. [key |-> k, allowed |-> allowed, expired |-> now + TTL] \in Entry
      BY <3>1 DEF Entry
    <3> QED
      BY <3>2
  <2>2. AddExisting(k, x) \/ AddNew(k, x)
    BY <1>4, <2>1 DEF Add
  <2>3. uses' = Append(uses, k)
    BY <1>4 DEF Use
  <2>4. CASE AddExisting(k, x)
    BY <2>1, <2>3, <2>4, MovingKeepsOrder DEF AddExisting
  <2>5. CASE AddNew(k, x)
    BY <2>1, <2>3, <2>5, AddingKeepsOrder
  <2> QED
    BY <2>2, <2>4, <2>5
<1>5. CASE Tick /\ UNCHANGED uses
  BY <1>2, <1>5 DEF Tick, cacheVars
<1>6. CASE UNCHANGED <<vars, uses>>
  BY <1>2, <1>6 DEF vars
<1> QED
  BY <1>1, <1>3, <1>4, <1>5, <1>6 DEF HNext

(* The cache with its history takes the steps of the cache.                *)
LEMMA HistoryIsCache == (HInit => Init) /\ ([HNext]_<<vars, uses>> => [Next]_vars)
BY DEF HInit, HNext, Next, Tick, vars

-----------------------------------------------------------------------------
(* The theorems.                                                           *)

\* The methods of LRUCache keep map and list consistent, whatever the sequence of
\* calls: each key of the map has exactly one list element and the other way round.
THEOREM MapMatchesListHolds == Spec => []MapMatchesList
<1>1. Inv => MapMatchesList
  BY DEF Inv
<1> QED
  BY InitInv, NextInv, <1>1, PTL DEF Spec

\* The single eviction in Add keeps the cache within c.capacity, for every int that
\* the API passes as cacheCapacity.
THEOREM WithinCapacityHolds == Spec => []WithinCapacity
<1>1. Inv => WithinCapacity
  BY DEF Inv
<1> QED
  BY InitInv, NextInv, <1>1, PTL DEF Spec

\* The map holds keys, the list entries with an expiry time.
THEOREM CacheTypeCorrect == Spec => []TypeOK
<1>1. Inv => TypeOK
  BY DEF Inv
<1> QED
  BY InitInv, NextInv, <1>1, PTL DEF Spec

\* The list is in the order of last use after any sequence of calls, with entries that
\* expire or are removed in between: what Add evicts is the least recently used entry.
THEOREM RecencyOrderHolds == HSpec => []RecencyOrder
<1>1. HInit => Inv /\ Ordered
  <2> SUFFICES ASSUME HInit PROVE Inv /\ Ordered
    OBVIOUS
  <2>1. Inv
    BY InitInv, HistoryIsCache
  <2>2. list = <<>> /\ uses = <<>> /\ <<>> \in Seq(Keys) /\ Len(<<>>) = 0
    BY EmptySeq DEF HInit, Init, CacheInit
  <2> QED
    BY <2>1, <2>2 DEF Ordered
<1>2. Inv /\ Ordered /\ [HNext]_<<vars, uses>> => Inv' /\ Ordered'
  BY NextInv, NextOrdered, HistoryIsCache
<1>3. Inv /\ Ordered => RecencyOrder
  <2> SUFFICES ASSUME Ordered, NEW p \in 1..Len(list), NEW q \in 1..Len(list), p < q
               PROVE  LastUse(list[p].key) > LastUse(list[q].key)
    BY DEF RecencyOrder
  <2>1. /\ LastUse(list[p].key) \in 1..Len(uses)
        /\ LastAt(uses, LastUse(list[p].key), list[p].key)
    BY LastUseFacts DEF Ordered
  <2>2. /\ LastUse(list[q].key) \in 1..Len(uses)
        /\ LastAt(uses, LastUse(list[q].key), list[q].key)
    BY LastUseFacts DEF Ordered
  <2> QED
    BY <2>1, <2>2 DEF Ordered
<1> QED
  BY <1>1, <1>2, <1>3, PTL DEF HSpec
=============================================================================
