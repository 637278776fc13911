------------------------- MODULE PacketFilterProofs -------------------------
(***************************************************************************)
(* Proofs about PacketFilter, for every packet of any length with any      *)
(* number of extension headers: what the walk finds, what is filtered and  *)
(* what is not, and the checksums of the replies.                          *)
(***************************************************************************)
EXTENDS PacketFilter, SequenceTheorems, WellFoundedInduction, TLAPS

(* Induction over the natural numbers, for a set instead of a predicate.   *)
LEMMA SetInduction ==
  ASSUME NEW T, T \subseteq Nat, 0 \in T, \A n \in T : n + 1 \in T
  PROVE  \A n \in Nat : n \in T
<1> DEFINE S == Nat \ T
           R == {ss \in Nat \X Nat : ss[1] < ss[2]}
<1>1. SUFFICES ASSUME S # {} PROVE FALSE
  OBVIOUS
<1>2. IsWellFoundedOn(R, Nat)
  BY NatLessThanWellFounded, Zenon DEF OpToRel
<1>3. \E x \in S : \A y \in S : ~ (<<y, x>> \in R)
  <2>1. S \subseteq Nat
    OBVIOUS
  <2> HIDE DEF S, R
  <2> QED
    BY <1>1, <1>2, <2>1, WFMin
<1>4. PICK x \in S : \A y \in S : ~ (y < x)
  BY <1>3
<1>5. x # 0 /\ x \in Nat
  OBVIOUS
<1>6. x - 1 \in T
  BY <1>4, <1>5
<1> QED
  BY <1>4, <1>5, <1>6

-----------------------------------------------------------------------------
(* Sums of words, as the loops of the code add them up.                    *)

(* Max of FiniteSetsExt.                                                   *)
LEMMA MaxIs ==
  ASSUME NEW S \in SUBSET Int, NEW m \in S, \A y \in S : m >= y
  PROVE  Max(S) = m
<1>1. \E x \in S : \A y \in S : x >= y
  OBVIOUS
<1>2. Max(S) \in S /\ \A y \in S : Max(S) >= y
  BY <1>1, Zenon DEF Max
<1>3. PICK x \in S : x = Max(S) /\ x >= m
  BY <1>2
<1> QED
  BY <1>3

\* The fold of SequencesExt works down from the largest index; this is its table.
IsTable(g, s, n) ==
  g = [S \in SUBSET (1..n) |-> IF S = {} THEN 0 ELSE g[S \ {Max(S)}] + s[Max(S)]]

LEMMA TableExists ==
  ASSUME NEW s, NEW n \in Nat
  PROVE  \E g : IsTable(g, s, n)
<1> DEFINE T == {m \in Nat : \E g : IsTable(g, s, m)}
<1>1. 0 \in T
  <2> DEFINE g == [S \in SUBSET (1..0) |-> 0]
  <2>1. \A S \in SUBSET (1..0) : S = {}
    OBVIOUS
  <2>2. g = [S \in SUBSET (1..0) |-> IF S = {} THEN 0 ELSE g[S \ {Max(S)}] + s[Max(S)]]
    BY <2>1
  <2> QED
    BY <2>2 DEF IsTable
<1>2. ASSUME NEW m \in T PROVE m + 1 \in T
  <2>1. PICK g : IsTable(g, s, m)
    OBVIOUS
  <2> DEFINE h == [S \in SUBSET (1..(m + 1)) |->
                     IF m + 1 \in S THEN g[S \ {m + 1}] + s[m + 1] ELSE g[S]]
  <2>2. ASSUME NEW S \in SUBSET (1..(m + 1))
        PROVE  h[S] = IF S = {} THEN 0 ELSE h[S \ {Max(S)}] + s[Max(S)]
    <3>1. CASE m + 1 \in S
      <4>1. Max(S) = m + 1
        BY <3>1, MaxIs
      <4>2. S \ {m + 1} \in SUBSET (1..(m + 1)) /\ m + 1 \notin S \ {m + 1}
        OBVIOUS
      <4> QED
        BY <3>1, <4>1, <4>2
    <3>2. CASE m + 1 \notin S
      <4>1. S \in SUBSET (1..m)
        BY <3>2
      <4>2. g[S] = IF S = {} THEN 0 ELSE g[S \ {Max(S)}] + s[Max(S)]
        BY <2>1, <4>1 DEF IsTable
      <4>3. S \ {Max(S)} \in SUBSET (1..(m + 1)) /\ m + 1 \notin S \ {Max(S)}
        BY <3>2
      <4> QED
        BY <3>2, <4>2, <4>3
    <3> QED
      BY <3>1, <3>2
  <2>3. IsTable(h, s, m + 1)
    BY <2>2 DEF IsTable
  <2> QED
    BY <2>3
<1> QED
  <2> HIDE DEF T
  <2>1. \A m \in Nat : m \in T
    <3>1. T \subseteq Nat
      BY DEF T
    <3> QED
      BY <1>1, <1>2, <3>1, SetInduction
  <2> QED
    BY <2>1 DEF T

\* SumOf is the entry of the table for all the indices.
LEMMA SumIsTable ==
  ASSUME NEW s, NEW n \in Nat, DOMAIN s = 1..n
  PROVE  \E g : IsTable(g, s, n) /\ SumOf(s) = g[1..n]
<1> DEFINE c == CHOOSE g : IsTable(g, s, n)
<1>1. IsTable(c, s, n)
  BY TableExists, Zenon
<1>2. SumOf(s) = c[1..n]
  BY Zenon DEF SumOf, FoldLeft, MapThenFoldSet, IsTable
<1> QED
  BY <1>1, <1>2

\* Partial sums: t[i] is the sum of the first i words.
PartialSums(t, s, n) ==
  t \in [0..n -> Nat] /\ t[0] = 0 /\ \A i \in 1..n : t[i] = t[i - 1] + s[i]

\* A sequence of naturals has its partial sums, and SumOf is the last.
LEMMA SumFacts ==
  ASSUME NEW s, NEW n \in Nat, DOMAIN s = 1..n, \A i \in 1..n : s[i] \in Nat
  PROVE  \E t : PartialSums(t, s, n) /\ SumOf(s) = t[n]
<1>1. PICK g : IsTable(g, s, n) /\ SumOf(s) = g[1..n]
  BY SumIsTable
<1> DEFINE t == [i \in 0..n |-> g[1..i]]
<1>2. t[0] = 0
  <2>1. (1..0) = {} /\ 0 \in 0..n
    OBVIOUS
  <2>2. {} \in SUBSET (1..n) /\ g[{}] = 0
    BY <1>1 DEF IsTable
  <2> QED
    BY <2>1, <2>2
<1>3. \A i \in 1..n : t[i] = t[i - 1] + s[i]
  <2> TAKE i \in 1..n
  <2>1. 1..i \in SUBSET (1..n) /\ 1..i # {} /\ i \in 0..n /\ i - 1 \in 0..n
    OBVIOUS
  <2>2. Max(1..i) = i
    <3>1. 1..i \in SUBSET Int /\ i \in 1..i /\ \A j \in 1..i : i >= j
      OBVIOUS
    <3> QED
      BY <3>1, MaxIs
  <2>3. (1..i) \ {i} = 1..(i - 1)
    OBVIOUS
  <2>4. g[1..i] = g[(1..i) \ {Max(1..i)}] + s[Max(1..i)]
    BY <1>1, <2>1 DEF IsTable
  <2> QED
    BY <2>1, <2>2, <2>3, <2>4
<1>4. n \in 0..n /\ SumOf(s) = t[n]
  BY <1>1
<1>5. t = [i \in 0..n |-> t[i]]
  OBVIOUS
<1> HIDE DEF t
<1>6. \A i \in Nat : i \in 0..n => t[i] \in Nat
  <2> DEFINE T == {i \in Nat : i \in 0..n => t[i] \in Nat}
  <2>1. 0 \in T
    BY <1>2
  <2>2. ASSUME NEW i \in T PROVE i + 1 \in T
    <3>1. CASE i + 1 \in 0..n
      <4>1. i \in 0..n /\ i + 1 \in 1..n /\ t[i] \in Nat
        BY <3>1
      <4>2. t[i + 1] = t[i] + s[i + 1] /\ s[i + 1] \in Nat
        BY <1>3, <4>1
      <4> QED
        BY <4>1, <4>2
    <3>2. CASE i + 1 \notin 0..n
      BY <3>2
    <3> QED
      BY <3>1, <3>2
  <2> HIDE DEF T
  <2>3. \A i \in Nat : i \in T
    <3>1. T \subseteq Nat
      BY DEF T
    <3> QED
      BY <2>1, <2>2, <3>1, SetInduction
  <2> QED
    BY <2>3 DEF T
<1>7. t \in [0..n -> Nat]
  BY <1>5, <1>6
<1> QED
  BY <1>2, <1>3, <1>4, <1>7 DEF PartialSums

\* Setting a word that was zero adds it to the sum.
LEMMA SumWithWord ==
  ASSUME NEW s, NEW n \in Nat, DOMAIN s = 1..n, \A i \in 1..n : s[i] \in Nat,
         NEW r, DOMAIN r = 1..n, NEW k \in 1..n, s[k] = 0, r[k] \in Nat,
         \A i \in 1..n : i # k => r[i] = s[i]
  PROVE  SumOf(s) \in Nat /\ SumOf(r) = SumOf(s) + r[k]
<1>1. PICK t : PartialSums(t, s, n) /\ SumOf(s) = t[n]
  BY SumFacts
<1>2. PICK u : PartialSums(u, r, n) /\ SumOf(r) = u[n]
  <2>1. \A i \in 1..n : r[i] \in Nat
    OBVIOUS
  <2> QED
    BY <2>1, SumFacts
<1> DEFINE T == {i \in Nat : i \in 0..n =>
                   u[i] = IF i < k THEN t[i] ELSE t[i] + r[k]}
<1>3. 0 \in T
  BY <1>1, <1>2 DEF PartialSums
<1>4. ASSUME NEW i \in T PROVE i + 1 \in T
  <2>1. CASE i + 1 \in 0..n
    <3>1. i \in 0..n /\ i + 1 \in 1..n /\ i = (i + 1) - 1
      BY <2>1
    <3>2. u[i] = IF i < k THEN t[i] ELSE t[i] + r[k]
      BY <3>1
    <3>3. t[i + 1] = t[i] + s[i + 1] /\ u[i + 1] = u[i] + r[i + 1]
      BY <1>1, <1>2, <3>1 DEF PartialSums
    <3>4. t[i] \in Nat /\ u[i] \in Nat /\ s[i + 1] \in Nat /\ r[i + 1] \in Nat
      BY <1>1, <1>2, <3>1 DEF PartialSums
    <3>5. u[i + 1] = IF i + 1 < k THEN t[i + 1] ELSE t[i + 1] + r[k]
      <4>1. CASE i + 1 = k
        <5>1. u[i] = t[i] /\ t[i + 1] = t[i] + 0
          BY <3>1, <3>2, <3>3, <4>1
        <5>2. t[i + 1] = t[i]
          BY <3>4, <5>1
        <5> QED
          BY <3>3, <4>1, <5>1, <5>2
      <4>2. CASE i + 1 # k
        BY <3>1, <3>2, <3>3, <3>4, <4>2
      <4> QED
        BY <4>1, <4>2
    <3> QED
      BY <3>1, <3>5
  <2>2. CASE i + 1 \notin 0..n
    BY <2>2
  <2> QED
    BY <2>1, <2>2
<1> HIDE DEF T
<1>5. n \in T
  <2>1. T \subseteq Nat
    BY DEF T
  <2> QED
    BY <1>3, <1>4, <2>1, SetInduction
<1>6. u[n] = t[n] + r[k]
  BY <1>5 DEF T
<1>7. t[n] \in Nat
  BY <1>1 DEF PartialSums
<1> QED
  BY <1>1, <1>2, <1>6, <1>7

\* The sum of naturals does not shrink on the way.
LEMMA SumsGrow ==
  ASSUME NEW s, NEW n \in Nat, \A i \in 1..n : s[i] \in Nat,
         NEW t, PartialSums(t, s, n)
  PROVE  \A i \in 0..n : t[i] <= t[n]
<1> DEFINE T == {j \in Nat : j \in 0..n => \A i \in 0..j : t[i] <= t[j]}
<1>1. 0 \in T
  BY DEF PartialSums
<1>2. ASSUME NEW j \in T PROVE j + 1 \in T
  <2>1. CASE j + 1 \in 0..n
    <3>1. j \in 0..n /\ j + 1 \in 1..n /\ j = (j + 1) - 1
      BY <2>1
    <3>2. t[j + 1] = t[j] + s[j + 1] /\ t[j] \in Nat /\ s[j + 1] \in Nat
      BY <3>1 DEF PartialSums
    <3>3. ASSUME NEW i \in 0..(j + 1) PROVE t[i] <= t[j + 1]
      <4>1. i \in 0..n /\ t[i] \in Nat
        BY <2>1, <3>3 DEF PartialSums
      <4>2. CASE i = j + 1
        BY <4>1, <4>2
      <4>3. CASE i # j + 1
        <5>1. i \in 0..j
          BY <3>3, <4>3
        <5>2. t[i] <= t[j]
          BY <3>1, <5>1
        <5> QED
          BY <3>2, <4>1, <5>2
      <4> QED
        BY <4>2, <4>3
    <3> QED
      BY <3>3
  <2>2. CASE j + 1 \notin 0..n
    BY <2>2
  <2> QED
    BY <2>1, <2>2
<1> HIDE DEF T
<1>3. n \in T
  <2>1. T \subseteq Nat
    BY DEF T
  <2> QED
    BY <1>1, <1>2, <2>1, SetInduction
<1> QED
  BY <1>3 DEF T

-----------------------------------------------------------------------------
(* The walk over the extension headers.                                    *)

Sizes(p) == [i \in 1..Len(p.chain) |-> p.chain[i].size]

\* Where the transport header is.
Transport(p) == 40 + SumOf(Sizes(p))

\* What a packet is made of.
LEMMA PacketFacts ==
  ASSUME NEW p \in Packets
  PROVE  /\ p.len \in Nat \ {0} /\ p.ver \in Nat /\ p.ihl \in Nat /\ p.proto \in Nat
         /\ p.key \in Nat /\ p.src \in Nat /\ p.dst \in Nat
         /\ p.chain \in Seq(Header) /\ Len(p.chain) \in Nat
         /\ \A i \in 1..Len(p.chain) :
              /\ p.chain[i].size \in Nat /\ p.chain[i].size >= 8
         /\ DOMAIN Sizes(p) = 1..Len(p.chain)
         /\ \A i \in 1..Len(p.chain) : Sizes(p)[i] = p.chain[i].size
<1>1. p.chain \in Seq(Header) /\ Len(p.chain) \in Nat
  BY PacketAssumption, LenProperties
<1>2. \A i \in 1..Len(p.chain) : p.chain[i] \in Header
  BY <1>1, ElementOfSeq
<1>3. \A i \in 1..Len(p.chain) : p.chain[i].size \in Nat
  BY <1>2 DEF Header
<1>4. \A i \in 1..Len(p.chain) : p.chain[i].size >= 8
  BY ChainAssumption
<1>5. p.key \in Nat /\ p.src \in Nat /\ p.dst \in Nat
  BY WordAssumption
<1>6. p.len \in Nat \ {0} /\ p.ver \in Nat /\ p.ihl \in Nat /\ p.proto \in Nat
  BY PacketAssumption
<1> QED
  BY <1>1, <1>3, <1>4, <1>5, <1>6 DEF Sizes

\* Each header starts where the one before it ends, and the transport header last.
LEMMA OffsetsFacts ==
  ASSUME NEW p \in Packets
  PROVE  /\ \A i \in 1..(Len(p.chain) + 1) :
              Offsets(p)[i] \in Nat /\ Offsets(p)[i] <= Transport(p)
         /\ \A i \in 1..Len(p.chain) :
              Offsets(p)[i + 1] = Offsets(p)[i] + p.chain[i].size
         /\ Offsets(p)[Len(p.chain) + 1] = Transport(p)
         /\ Transport(p) \in Nat /\ Transport(p) >= 40
<1> DEFINE N == Len(p.chain)
           IsOff(g) == g = [i \in 1..(N + 1) |->
                              IF i = 1 THEN 40 ELSE g[i - 1] + p.chain[i - 1].size]
<1>1. PICK t : PartialSums(t, Sizes(p), N) /\ SumOf(Sizes(p)) = t[N]
  BY PacketFacts, SumFacts
<1>2. \A i \in 1..N : t[i] = t[i - 1] + p.chain[i].size
  BY <1>1, PacketFacts DEF PartialSums
<1>3. N \in Nat /\ t[0] = 0 /\ \A i \in 0..N : t[i] \in Nat
  BY <1>1, PacketFacts DEF PartialSums
<1>4. \E g : IsOff(g)
  <2> DEFINE g == [i \in 1..(N + 1) |-> 40 + t[i - 1]]
  <2>1. ASSUME NEW i \in 1..(N + 1)
        PROVE  g[i] = IF i = 1 THEN 40 ELSE g[i - 1] + p.chain[i - 1].size
    <3>1. CASE i = 1
      BY <1>3, <3>1
    <3>2. CASE i # 1
      <4>1. i - 1 \in 1..N /\ i - 1 \in 1..(N + 1) /\ (i - 1) - 1 \in 0..N
        BY <1>3, <3>2
      <4>2. p.chain[i - 1].size \in Nat
        BY <4>1, PacketFacts
      <4>3. t[i - 1] = t[(i - 1) - 1] + p.chain[i - 1].size
        BY <1>2, <4>1
      <4>4. g[i] = 40 + t[i - 1] /\ g[i - 1] = 40 + t[(i - 1) - 1]
        BY <4>1
      <4>5. t[(i - 1) - 1] \in Nat
        BY <1>3, <4>1
      <4> HIDE DEF g
      <4> QED
        BY <3>2, <4>2, <4>3, <4>4, <4>5
    <3> QED
      BY <3>1, <3>2
  <2>2. IsOff(g)
    BY <2>1
  <2> QED
    BY <2>2
<1> DEFINE off == Offsets(p)
<1>5. IsOff(off)
  BY <1>4, Zenon DEF Offsets
<1>6. /\ off[1] = 40
      /\ \A i \in 1..N : off[i + 1] = off[i] + p.chain[i].size
  <2> HIDE DEF off
  <2>1. 1 \in 1..(N + 1) /\ \A i \in 1..N : i + 1 \in 1..(N + 1) /\ i + 1 # 1 /\ (i + 1) - 1 = i
    BY <1>3
  <2> QED
    BY <1>5, <2>1
<1> HIDE DEF off, IsOff
<1>7. \A i \in Nat : i \in 0..N => off[i + 1] = 40 + t[i]
  <2> DEFINE T == {i \in Nat : i \in 0..N => off[i + 1] = 40 + t[i]}
  <2>1. 0 \in T
    BY <1>3, <1>6
  <2>2. ASSUME NEW i \in T PROVE i + 1 \in T
    <3>1. CASE i + 1 \in 0..N
      <4>1. i \in 0..N /\ i + 1 \in 1..N /\ i = (i + 1) - 1
        BY <3>1
      <4>2. off[i + 1] = 40 + t[i]
        BY <4>1
      <4>3. off[(i + 1) + 1] = off[i + 1] + p.chain[i + 1].size
        BY <1>6, <4>1
      <4>4. t[i + 1] = t[i] + p.chain[i + 1].size
        BY <1>2, <4>1
      <4>5. t[i] \in Nat /\ p.chain[i + 1].size \in Nat
        BY <1>3, <4>1, PacketFacts
      <4> QED
        BY <4>2, <4>3, <4>4, <4>5
    <3>2. CASE i + 1 \notin 0..N
      BY <3>2
    <3> QED
      BY <3>1, <3>2
  <2> HIDE DEF T
  <2>3. \A i \in Nat : i \in T
    <3>1. T \subseteq Nat
      BY DEF T
    <3> QED
      BY <2>1, <2>2, <3>1, SetInduction
  <2> QED
    BY <2>3 DEF T
<1>8. \A i \in 0..N : t[i] <= t[N]
  BY <1>1, PacketFacts, SumsGrow
<1>9. Transport(p) = 40 + t[N] /\ t[N] \in Nat
  BY <1>1, <1>3 DEF Transport
<1>10. ASSUME NEW i \in 1..(N + 1) PROVE off[i] \in Nat /\ off[i] <= Transport(p)
  <2>1. i - 1 \in 0..N /\ i - 1 \in Nat /\ i = (i - 1) + 1
    BY <1>3
  <2>2. off[i] = 40 + t[i - 1]
    BY <1>7, <2>1
  <2> QED
    BY <1>3, <1>8, <1>9, <2>1, <2>2
<1>11. off[N + 1] = Transport(p)
  BY <1>3, <1>7, <1>9
<1>12. Transport(p) \in Nat /\ Transport(p) >= 40
  BY <1>9
<1> QED
  BY <1>6, <1>10, <1>11, <1>12 DEF off

\* The turns of the loop: a header that is cut, one to be skipped, the transport header.
Cut(p, i) == p.len < Offsets(p)[i] + (IF p.chain[i].type = Fragment THEN 8 ELSE 2)

AtEnd(p, i) ==
  IF p.proto = NoNextHeader \/ Offsets(p)[i] > p.len THEN NotFound
  ELSE [ok |-> TRUE, proto |-> p.proto, off |-> Offsets(p)[i]]

IsWalk(w, p) ==
  w = [i \in 1..9 |->
         IF i > 8 THEN NotFound
         ELSE IF i <= Len(p.chain) THEN IF Cut(p, i) THEN NotFound ELSE w[i + 1]
         ELSE AtEnd(p, i)]

\* Where the walk should end.
Found(p) ==
  IF Len(p.chain) <= 7 /\ p.proto # NoNextHeader /\ p.len >= Transport(p)
  THEN [ok |-> TRUE, proto |-> p.proto, off |-> Transport(p)] ELSE NotFound

\* A packet that ends inside a header ends before its transport header; the turn that
\* reaches the transport header ends the walk as it should.
LEMMA TurnFacts ==
  ASSUME NEW p \in Packets
  PROVE  /\ \A i \in 1..Len(p.chain) : Cut(p, i) => Found(p) = NotFound
         /\ Len(p.chain) + 1 <= 8 => AtEnd(p, Len(p.chain) + 1) = Found(p)
         /\ Len(p.chain) >= 8 => Found(p) = NotFound
<1>1. Len(p.chain) \in Nat /\ p.len \in Nat
  BY PacketFacts
<1>2. ASSUME NEW i \in 1..Len(p.chain), Cut(p, i) PROVE Found(p) = NotFound
  <2>1. i \in 1..(Len(p.chain) + 1) /\ i + 1 \in 1..(Len(p.chain) + 1)
    BY <1>1
  <2>2. Offsets(p)[i] \in Nat /\ Offsets(p)[i + 1] <= Transport(p)
    BY <2>1, OffsetsFacts
  <2>3. Offsets(p)[i + 1] = Offsets(p)[i] + p.chain[i].size
    BY OffsetsFacts
  <2>4. p.chain[i].size \in Nat /\ p.chain[i].size >= 8
    BY PacketFacts
  <2>5. p.len < Offsets(p)[i] + 8
    <3>1. CASE p.chain[i].type = Fragment
      BY <1>2, <3>1 DEF Cut
    <3>2. CASE p.chain[i].type # Fragment
      BY <1>1, <1>2, <2>2, <3>2 DEF Cut
    <3> QED
      BY <3>1, <3>2
  <2>6. Transport(p) \in Nat
    BY OffsetsFacts
  <2>7. p.len < Transport(p)
    BY <1>1, <2>2, <2>3, <2>4, <2>5, <2>6
  <2>8. ~(p.len >= Transport(p))
    BY <1>1, <2>6, <2>7
  <2> QED
    BY <2>8 DEF Found
<1>3. ASSUME Len(p.chain) + 1 <= 8 PROVE AtEnd(p, Len(p.chain) + 1) = Found(p)
  <2>1. Offsets(p)[Len(p.chain) + 1] = Transport(p) /\ Transport(p) \in Nat
    BY OffsetsFacts
  <2>2. Transport(p) > p.len <=> ~(p.len >= Transport(p))
    BY <1>1, <2>1
  <2>3. Len(p.chain) <= 7
    BY <1>1, <1>3
  <2> QED
    BY <2>1, <2>2, <2>3 DEF AtEnd, Found
<1>4. ASSUME Len(p.chain) >= 8 PROVE Found(p) = NotFound
  <2>1. ~(Len(p.chain) <= 7)
    BY <1>1, <1>4
  <2> QED
    BY <2>1 DEF Found
<1> QED
  BY <1>2, <1>3, <1>4

\* The loop ends: there is such a table.
LEMMA WalkExists == ASSUME NEW p \in Packets PROVE \E w : IsWalk(w, p)
<1> DEFINE N == Len(p.chain)
           w == [i \in 1..9 |-> IF i > 8 THEN NotFound
                                ELSE IF i <= N THEN Found(p) ELSE AtEnd(p, i)]
<1>1. N \in Nat
  BY PacketFacts
<1>2. ASSUME NEW i \in 1..9
      PROVE  w[i] = IF i > 8 THEN NotFound
                    ELSE IF i <= N THEN IF Cut(p, i) THEN NotFound ELSE w[i + 1]
                    ELSE AtEnd(p, i)
  <2>1. CASE i <= 8 /\ i <= N /\ ~Cut(p, i)
    <3>1. i + 1 \in 1..9 /\ w[i] = Found(p)
      BY <2>1
    <3>2. CASE i + 1 > 8
      <4>1. w[i + 1] = NotFound /\ N >= 8
        BY <1>1, <2>1, <3>1, <3>2
      <4> QED
        BY <2>1, <3>1, <4>1, TurnFacts
    <3>3. CASE i + 1 <= 8 /\ i + 1 <= N
      BY <2>1, <3>1, <3>3
    <3>4. CASE i + 1 <= 8 /\ i + 1 > N
      <4>1. i + 1 = N + 1 /\ N + 1 <= 8 /\ ~(i + 1 > 8) /\ ~(i + 1 <= N)
        BY <1>1, <2>1, <3>4
      <4>2. w[i + 1] = AtEnd(p, N + 1)
        BY <3>1, <4>1
      <4>3. w[i + 1] = Found(p)
        BY <4>1, <4>2, TurnFacts
      <4> HIDE DEF w
      <4> QED
        BY <2>1, <3>1, <4>3
    <3> HIDE DEF w
    <3> QED
      BY <1>1, <3>1, <3>2, <3>3, <3>4
  <2>2. CASE i <= 8 /\ i <= N /\ Cut(p, i)
    <3>1. i \in 1..N /\ w[i] = Found(p)
      BY <1>1, <2>2
    <3>2. Found(p) = NotFound
      BY <2>2, <3>1, TurnFacts
    <3> HIDE DEF w
    <3> QED
      BY <2>2, <3>1, <3>2
  <2>3. CASE i > 8 \/ i > N
    BY <1>1, <2>3
  <2> HIDE DEF w
  <2> QED
    BY <1>1, <2>1, <2>2, <2>3
<1>3. IsWalk(w, p)
  BY <1>2 DEF IsWalk
<1> QED
  BY <1>3

\* The walk finds what it should, whatever the number and the sizes of the headers.
LEMMA WalkFacts ==
  ASSUME NEW p \in Packets
  PROVE  ipv6TransportHeader(p) = Found(p)
<1>2. PICK N \in Nat : N = Len(p.chain)
  BY PacketFacts
<1>1. PICK w : IsWalk(w, p) /\ ipv6TransportHeader(p) = IF p.len < 40 THEN NotFound ELSE w[1]
  <2> DEFINE c == CHOOSE w : IsWalk(w, p)
  <2>1. IsWalk(c, p)
    BY WalkExists, Zenon
  <2>2. ipv6TransportHeader(p) = IF p.len < 40 THEN NotFound ELSE c[1]
    BY Zenon DEF ipv6TransportHeader, IsWalk, Cut, AtEnd
  <2> QED
    BY <2>1, <2>2
<1>3. \A i \in 1..9 :
        w[i] = IF i > 8 THEN NotFound
               ELSE IF i <= N THEN IF Cut(p, i) THEN NotFound ELSE w[i + 1]
               ELSE AtEnd(p, i)
  BY <1>1, <1>2 DEF IsWalk
<1>turn. /\ \A i \in 1..N : Cut(p, i) => Found(p) = NotFound
         /\ N + 1 <= 8 => AtEnd(p, N + 1) = Found(p)
         /\ N >= 8 => Found(p) = NotFound
  BY <1>2, TurnFacts
<1> DEFINE T == {k \in Nat : k <= 7 /\ 8 - k <= N + 1 => w[8 - k] = Found(p)}
<1>4. 0 \in T
  <2>1. ASSUME N = 7 PROVE w[8] = Found(p)
    <3>1. AtEnd(p, N + 1) = Found(p)
      BY <2>1, <1>turn
    <3>2. w[8] = AtEnd(p, 8)
      BY <1>3, <2>1
    <3> QED
      BY <2>1, <3>1, <3>2
  <2>2. ASSUME N >= 8 PROVE w[8] = Found(p)
    <3>1. 8 \in 1..N
      BY <1>2, <2>2
    <3>2. w[9] = NotFound
      BY <1>3
    <3>3. w[8] = NotFound
      BY <1>2, <1>3, <3>1, <3>2
    <3> QED
      BY <2>2, <3>3, <1>turn
  <2>3. 8 <= N + 1 => N = 7 \/ N >= 8
    OBVIOUS
  <2>4. 8 <= N + 1 => w[8] = Found(p)
    BY <2>1, <2>2, <2>3
  <2> QED
    BY <2>4
<1>5. ASSUME NEW k \in T PROVE k + 1 \in T
  <2> SUFFICES ASSUME k + 1 <= 7, 8 - (k + 1) <= N + 1
               PROVE  w[8 - (k + 1)] = Found(p)
    OBVIOUS
  <2>1. PICK i \in 1..7 : i = 8 - (k + 1) /\ i + 1 = 8 - k
    OBVIOUS
  <2>2. i \in 1..9 /\ ~(i > 8) /\ i <= N + 1
    BY <2>1
  <2>3. CASE i = N + 1
    <3>1. w[i] = AtEnd(p, N + 1) /\ N + 1 <= 8
      BY <1>2, <1>3, <2>2, <2>3
    <3> QED
      BY <2>1, <3>1, <1>turn
  <2>4. CASE i # N + 1
    <3>1. i \in 1..N /\ i + 1 <= N + 1 /\ k <= 7
      BY <1>2, <2>1, <2>2, <2>4
    <3>2. w[i + 1] = Found(p)
      BY <2>1, <3>1
    <3>3. w[i] = IF Cut(p, i) THEN NotFound ELSE w[i + 1]
      BY <1>3, <2>2, <3>1
    <3>4. Cut(p, i) => Found(p) = NotFound
      BY <3>1, <1>turn
    <3> QED
      BY <2>1, <3>2, <3>3, <3>4
  <2> QED
    BY <2>3, <2>4
<1> HIDE DEF T
<1>6. \A k \in Nat : k \in T
  <2>1. T \subseteq Nat
    BY DEF T
  <2> QED
    BY <1>4, <1>5, <2>1, SetInduction
<1>7. w[1] = Found(p)
  <2>1. 7 \in T
    BY <1>6
  <2>2. 8 - 7 = 1 /\ 1 <= N + 1
    BY <1>2
  <2>3. w[8 - 7] = Found(p)
    BY <2>1, <2>2 DEF T
  <2> QED
    BY <2>2, <2>3
<1>8. p.len < 40 => Found(p) = NotFound
  <2>1. p.len \in Nat /\ Transport(p) \in Nat /\ Transport(p) >= 40
    BY PacketFacts, OffsetsFacts
  <2>2. p.len < 40 => ~(p.len >= Transport(p))
    BY <2>1
  <2> QED
    BY <2>2 DEF Found
<1> QED
  BY <1>1, <1>7, <1>8

-----------------------------------------------------------------------------
(* Checksums.                                                              *)

IsFolding(f, m) == f = [n \in 0..m |-> IF Carry(n) = 0 THEN n ELSE f[AddCarry(n)]]

\* To be what a sum is folded to.
FoldsTo(n, r) == \E q \in Nat : n = r + 65535 * q

\* Adding the carry back makes a sum smaller and takes a multiple of 65535 off it.
LEMMA FoldFacts ==
  ASSUME NEW n \in Nat
  PROVE  /\ Carry(n) = 0 => n < 65536
         /\ Carry(n) # 0 => AddCarry(n) < n
         /\ AddCarry(n) \in Nat /\ FoldsTo(n, AddCarry(n))
<1>1. PICK q \in Nat : q = n \div 65536 /\ q = Carry(n)
  BY DEF Carry
<1>2. PICK r \in Nat : r = n % 65536
  OBVIOUS
<1>3. n = 65536 * q + r /\ r < 65536
  BY <1>1, <1>2
<1>4. AddCarry(n) = r + q
  BY <1>1, <1>2 DEF AddCarry
<1>5. q = 0 => n < 65536
  BY <1>3
<1>6. q # 0 => r + q < n
  BY <1>3
<1>7. n = (r + q) + 65535 * q
  BY <1>3
<1>8. FoldsTo(n, AddCarry(n))
  BY <1>4, <1>7 DEF FoldsTo
<1>9. AddCarry(n) \in Nat
  BY <1>4
<1> QED
  BY <1>1, <1>4, <1>5, <1>6, <1>8, <1>9

\* The loop that folds ends.
LEMMA FoldingExists == ASSUME NEW m \in Nat PROVE \E f : IsFolding(f, m)
<1> DEFINE T == {j \in Nat : \E f : IsFolding(f, j)}
<1>1. 0 \in T
  <2> DEFINE f == [n \in 0..0 |-> n]
  <2>1. \A n \in 0..0 : Carry(n) = 0
    BY DEF Carry
  <2>2. IsFolding(f, 0)
    BY <2>1 DEF IsFolding
  <2> QED
    BY <2>2
<1>2. ASSUME NEW j \in T PROVE j + 1 \in T
  <2>1. PICK f : IsFolding(f, j)
    OBVIOUS
  <2> DEFINE g == [n \in 0..(j + 1) |->
                     IF n <= j THEN f[n] ELSE IF Carry(n) = 0 THEN n ELSE f[AddCarry(n)]]
  <2>2. ASSUME NEW n \in 0..(j + 1)
        PROVE  g[n] = IF Carry(n) = 0 THEN n ELSE g[AddCarry(n)]
    <3>1. n \in Nat
      OBVIOUS
    <3>2. Carry(n) # 0 => AddCarry(n) \in 0..j /\ AddCarry(n) \in 0..(j + 1) /\ AddCarry(n) <= j
      BY <3>1, FoldFacts
    <3>3. Carry(n) # 0 => g[AddCarry(n)] = f[AddCarry(n)]
      BY <3>2
    <3>4. CASE n <= j
      <4>1. f[n] = IF Carry(n) = 0 THEN n ELSE f[AddCarry(n)]
        BY <2>1, <3>1, <3>4 DEF IsFolding
      <4>2. g[n] = f[n]
        BY <3>4
      <4> HIDE DEF g
      <4> QED
        BY <3>3, <4>1, <4>2
    <3>5. CASE ~(n <= j)
      <4>1. g[n] = IF Carry(n) = 0 THEN n ELSE f[AddCarry(n)]
        BY <3>5
      <4> HIDE DEF g
      <4> QED
        BY <3>3, <4>1
    <3> QED
      BY <3>4, <3>5
  <2>3. IsFolding(g, j + 1)
    BY <2>2 DEF IsFolding
  <2> QED
    BY <2>3
<1> HIDE DEF T
<1>3. m \in T
  <2>1. T \subseteq Nat
    BY DEF T
  <2> QED
    BY <1>1, <1>2, <2>1, SetInduction
<1> QED
  BY <1>3 DEF T

\* Folding can be repeated.
LEMMA FoldsFurther ==
  ASSUME NEW n \in Nat, NEW k \in Nat, NEW r \in Nat, FoldsTo(n, k), FoldsTo(k, r)
  PROVE  FoldsTo(n, r)
<1>1. PICK a \in Nat : n = k + 65535 * a
  BY DEF FoldsTo
<1>2. PICK b \in Nat : k = r + 65535 * b
  BY DEF FoldsTo
<1>3. a + b \in Nat /\ n = r + 65535 * (a + b)
  BY <1>1, <1>2
<1> QED
  BY <1>3 DEF FoldsTo

\* What the loop leaves is a word that differs from the sum by a multiple of 65535.
LEMMA FoldedFacts ==
  ASSUME NEW m \in Nat, NEW f, IsFolding(f, m)
  PROVE  f[m] \in Nat /\ f[m] < 65536 /\ \E q \in Nat : m = f[m] + 65535 * q
<1> DEFINE Good(n) == f[n] \in Nat /\ f[n] < 65536 /\ FoldsTo(n, f[n])
           T == {j \in Nat : \A n \in 0..j : n <= m => Good(n)}
<1>1. ASSUME NEW n \in 0..m, Carry(n) # 0 => Good(AddCarry(n))
      PROVE  Good(n)
  <2>1. f[n] = IF Carry(n) = 0 THEN n ELSE f[AddCarry(n)]
    BY DEF IsFolding
  <2>2. n \in Nat
    OBVIOUS
  <2>3. CASE Carry(n) = 0
    <3>1. f[n] = n /\ n < 65536
      BY <2>1, <2>2, <2>3, FoldFacts
    <3>2. n = n + 65535 * 0
      BY <2>2
    <3>3. FoldsTo(n, n)
      BY <3>2 DEF FoldsTo
    <3> QED
      BY <2>2, <3>1, <3>3
  <2>4. CASE Carry(n) # 0
    <3>1. f[n] = f[AddCarry(n)] /\ f[n] \in Nat /\ f[n] < 65536 /\ FoldsTo(AddCarry(n), f[n])
      BY <1>1, <2>1, <2>4
    <3>2. AddCarry(n) \in Nat /\ FoldsTo(n, AddCarry(n))
      BY <2>2, FoldFacts
    <3>3. FoldsTo(n, f[n])
      BY <2>2, <3>1, <3>2, FoldsFurther
    <3> QED
      BY <3>1, <3>3
  <2> HIDE DEF Good
  <2> QED
    BY <2>3, <2>4
<1>2. 0 \in T
  <2>1. Carry(0) = 0 /\ 0 \in 0..m
    BY DEF Carry
  <2>2. Good(0)
    BY <1>1, <2>1
  <2> QED
    BY <2>2
<1>3. ASSUME NEW j \in T PROVE j + 1 \in T
  <2> SUFFICES ASSUME NEW n \in 0..(j + 1), n <= m PROVE Good(n)
    OBVIOUS
  <2>1. n \in Nat /\ n \in 0..m
    OBVIOUS
  <2>2. Carry(n) # 0 => AddCarry(n) \in 0..j /\ AddCarry(n) <= m
    BY <2>1, FoldFacts
  <2>3. Carry(n) # 0 => Good(AddCarry(n))
    BY <2>2
  <2> HIDE DEF Good
  <2> QED
    BY <1>1, <2>1, <2>3
<1> HIDE DEF T, Good
<1>4. m \in T
  <2>1. T \subseteq Nat
    BY DEF T
  <2> QED
    BY <1>2, <1>3, <2>1, SetInduction
<1>5. Good(m)
  BY <1>4 DEF T
<1> QED
  BY <1>5 DEF Good, FoldsTo

\* The checksum is a word.
LEMMA ChecksumIsWord ==
  ASSUME NEW s, NEW n \in Nat, DOMAIN s = 1..n, \A i \in 1..n : s[i] \in Nat
  PROVE  /\ SumOf(s) \in Nat /\ internetChecksum(s) \in Nat
         /\ \E q \in Nat : SumOf(s) + internetChecksum(s) = 65535 * (q + 1)
<1>1. SumOf(s) \in Nat
  <2>1. PICK t : PartialSums(t, s, n) /\ SumOf(s) = t[n]
    BY SumFacts
  <2> QED
    BY <2>1 DEF PartialSums
<1>2. PICK f : IsFolding(f, SumOf(s)) /\ internetChecksum(s) = Complement(f[SumOf(s)])
  <2> DEFINE c == CHOOSE f : IsFolding(f, SumOf(s))
  <2>1. IsFolding(c, SumOf(s))
    BY <1>1, FoldingExists, Zenon
  <2>2. internetChecksum(s) = Complement(c[SumOf(s)])
    BY Zenon DEF internetChecksum, IsFolding
  <2> QED
    BY <2>1, <2>2
<1>3. PICK m \in Nat : m = SumOf(s)
  BY <1>1
<1>4. PICK v \in Nat : v = f[m] /\ v < 65536 /\ \E q \in Nat : m = v + 65535 * q
  BY <1>2, <1>3, FoldedFacts
<1>5. internetChecksum(s) = 65535 - v
  BY <1>2, <1>3, <1>4 DEF Complement
<1>6. internetChecksum(s) \in Nat
  BY <1>4, <1>5
<1>7. PICK q \in Nat : m = v + 65535 * q
  BY <1>4
<1>8. m + (65535 - v) = 65535 * (q + 1)
  BY <1>7
<1> QED
  BY <1>1, <1>3, <1>5, <1>6, <1>8

\* However many words a message has and whatever they are: with the checksum in the
\* place that was zero a receiver finds it right.
LEMMA ChecksumFacts ==
  ASSUME NEW s, NEW n \in Nat, DOMAIN s = 1..n, \A i \in 1..n : s[i] \in Nat,
         NEW r, DOMAIN r = 1..n, NEW k \in 1..n, s[k] = 0,
         r[k] = internetChecksum(s), \A i \in 1..n : i # k => r[i] = s[i]
  PROVE  ChecksumVerifies(r)
<1>1. SumOf(s) \in Nat /\ r[k] \in Nat
  BY ChecksumIsWord
<1>2. PICK q \in Nat : SumOf(s) + r[k] = 65535 * (q + 1)
  BY ChecksumIsWord
<1>3. SumOf(r) = SumOf(s) + r[k]
  BY <1>1, SumWithWord
<1>4. 65535 * (q + 1) > 0 /\ (65535 * (q + 1)) % 65535 = 0
  OBVIOUS
<1> QED
  BY <1>2, <1>3, <1>4 DEF ChecksumVerifies

-----------------------------------------------------------------------------
(* The replies.                                                            *)

\* Two sequences of words in a row.
LEMMA Joined ==
  ASSUME NEW a \in Seq(Nat), NEW b \in Seq(Nat)
  PROVE  /\ a \o b \in Seq(Nat)
         /\ DOMAIN (a \o b) = 1..(Len(a) + Len(b))
         /\ \A i \in 1..(Len(a) + Len(b)) : (a \o b)[i] \in Nat
         /\ \A i \in 1..(Len(a) + Len(b)) :
              (a \o b)[i] = IF i <= Len(a) THEN a[i] ELSE b[i - Len(a)]
<1>1. /\ a \o b \in Seq(Nat) /\ Len(a \o b) = Len(a) + Len(b)
      /\ \A i \in 1..(Len(a) + Len(b)) :
           (a \o b)[i] = IF i <= Len(a) THEN a[i] ELSE b[i - Len(a)]
  BY ConcatProperties
<1> QED
  BY <1>1, LenProperties, ElementOfSeq

\* The body of a reply has five words, with a zero where the checksum goes.
LEMMA BodyFacts ==
  ASSUME NEW p \in Packets, NEW type \in Nat
  PROVE  LET body == <<type, 0>> \o Quoted(p)
         IN /\ body \in Seq(Nat) /\ Len(body) = 5
            /\ body[2] = 0
<1>1. <<type, 0>> \in Seq(Nat) /\ Len(<<type, 0>>) = 2 /\ <<type, 0>>[2] = 0
  OBVIOUS
<1>2. Quoted(p) \in Seq(Nat) /\ Len(Quoted(p)) = 3
  BY PacketFacts DEF Quoted
<1>3. PICK a \in Seq(Nat) : a = <<type, 0>> /\ Len(a) = 2 /\ a[2] = 0
  BY <1>1
<1>4. PICK b \in Seq(Nat) : b = Quoted(p) /\ Len(b) = 3
  BY <1>2
<1>5. a \o b \in Seq(Nat) /\ Len(a \o b) = 5
  <2>1. a \o b \in Seq(Nat) /\ Len(a \o b) = Len(a) + Len(b)
    BY ConcatProperties
  <2> QED
    BY <1>3, <1>4, <2>1
<1>6. (a \o b)[2] = 0
  <2>1. 2 \in 1..(Len(a) + Len(b)) /\ 2 <= Len(a)
    BY <1>3, <1>4
  <2>2. (a \o b)[2] = IF 2 <= Len(a) THEN a[2] ELSE b[2 - Len(a)]
    BY <2>1, Joined
  <2> QED
    BY <1>3, <2>1, <2>2
<1> QED
  BY <1>3, <1>4, <1>5, <1>6

\* A message whose checksum was summed over it with a zero in its place verifies.
LEMMA MessageVerifies ==
  ASSUME NEW s \in Seq(Nat), NEW k \in 1..Len(s), s[k] = 0
  PROVE  ChecksumVerifies([s EXCEPT ![k] = internetChecksum(s)])
<1>1. PICK n \in Nat : n = Len(s) /\ DOMAIN s = 1..n
  BY LenProperties
<1>2. \A i \in 1..n : s[i] \in Nat
  BY <1>1, ElementOfSeq
<1>3. PICK c : c = internetChecksum(s)
  OBVIOUS
<1>4. PICK r : r = [s EXCEPT ![k] = c]
  OBVIOUS
<1>5. k \in 1..n /\ DOMAIN r = 1..n /\ r[k] = c /\ \A i \in 1..n : i # k => r[i] = s[i]
  BY <1>1, <1>4
<1>6. ChecksumVerifies(r)
  BY <1>1, <1>2, <1>3, <1>5, ChecksumFacts
<1> QED
  BY <1>3, <1>4, <1>6

\* So does one whose checksum covers a pseudo-header in front of it.
LEMMA PseudoVerifies ==
  ASSUME NEW h \in Seq(Nat), NEW s \in Seq(Nat), NEW k \in 1..Len(s), s[k] = 0
  PROVE  ChecksumVerifies(h \o [s EXCEPT ![k] = internetChecksum(h \o s)])
<1>1. PICK n \in Nat : n = Len(h) + Len(s) /\ Len(h) \in Nat /\ Len(s) \in Nat
  BY LenProperties
<1>2. PICK w : w = h \o s
  OBVIOUS
<1>3. \A i \in 1..n : w[i] = IF i <= Len(h) THEN h[i] ELSE s[i - Len(h)]
  BY <1>1, <1>2, Joined
<1>words. DOMAIN w = 1..n /\ \A i \in 1..n : w[i] \in Nat
  BY <1>1, <1>2, Joined
<1>4. PICK c : c = internetChecksum(w)
  OBVIOUS
<1>5. c \in Nat
  BY <1>words, <1>4, ChecksumIsWord
<1>6. PICK b : b = [s EXCEPT ![k] = c]
  OBVIOUS
<1>7. b \in Seq(Nat) /\ Len(b) = Len(s) /\ b[k] = c /\ \A i \in 1..Len(s) : i # k => b[i] = s[i]
  BY <1>5, <1>6, ExceptSeq, ElementOfSeq
<1>8. PICK r : r = h \o b
  OBVIOUS
<1>9. /\ DOMAIN r = 1..n
      /\ \A i \in 1..n : r[i] = IF i <= Len(h) THEN h[i] ELSE b[i - Len(h)]
  <2>1. b \in Seq(Nat) /\ Len(h) + Len(b) = n
    BY <1>1, <1>7
  <2>2. /\ DOMAIN (h \o b) = 1..(Len(h) + Len(b))
        /\ \A i \in 1..(Len(h) + Len(b)) :
             (h \o b)[i] = IF i <= Len(h) THEN h[i] ELSE b[i - Len(h)]
    BY <2>1, Joined
  <2> QED
    BY <1>8, <2>1, <2>2
<1>10. PICK m \in 1..n : m = Len(h) + k
  BY <1>1
<1>11. w[m] = 0 /\ r[m] = c
  <2>1. m - Len(h) = k /\ ~(m <= Len(h))
    BY <1>1, <1>10
  <2> QED
    BY <1>3, <1>7, <1>9, <2>1
<1>12. ASSUME NEW i \in 1..n, i # m PROVE r[i] = w[i]
  <2>1. CASE i <= Len(h)
    BY <1>3, <1>9, <2>1
  <2>2. CASE ~(i <= Len(h))
    <3>1. i - Len(h) \in 1..Len(s) /\ i - Len(h) # k
      BY <1>1, <1>10, <1>12, <2>2
    <3> QED
      BY <1>3, <1>7, <1>9, <2>2, <3>1
  <2> QED
    BY <2>1, <2>2
<1>13. ChecksumVerifies(r)
  BY <1>words, <1>4, <1>9, <1>11, <1>12, ChecksumFacts
<1> QED
  BY <1>2, <1>4, <1>6, <1>8, <1>13

-----------------------------------------------------------------------------
(* The loop.  The properties speak of the outcome of a packet; what the options
   and the packet must have been for it is remembered here.                  *)

Answer(p) ==
  IF p.ver = V4 THEN buildICMPv4PortUnreachable(p) ELSE buildICMPv6PortUnreachable(p)

Inv ==
  /\ pkt \in Packets \/ (pkt = NoPacket /\ at = "read")
  /\ at \in {"read", "filter"} => outcome = "none"
  /\ outcome = "drop" => pkt.ver \notin {V4, V6} \/ BlockedEcho(pkt)
  /\ outcome = "reject" => /\ pkt.ver \in {V4, V6}
                           /\ ~BlockedEcho(pkt) /\ RejectedQuic(pkt)
                           /\ reply = Answer(pkt)
  /\ outcome = "inject" => /\ pkt.ver \in {V4, V6}
                           /\ ~BlockedEcho(pkt) /\ ~RejectedQuic(pkt)
  /\ outcome # "none" => at = "handled"

\* The loop starts without a packet.
LEMMA InitInv == Init => Inv
BY DEF Init, Inv

\* The options do not change, so a judgement about a packet stands while it stays.
LEMMA Stands ==
  ASSUME pkt' = pkt, allowICMP' = allowICMP, blockQuic' = blockQuic
  PROVE  (BlockedEcho(pkt)' <=> BlockedEcho(pkt)) /\ (RejectedQuic(pkt)' <=> RejectedQuic(pkt))
BY DEF BlockedEcho, RejectedQuic

\* Every turn of the loop keeps the invariant.
LEMMA NextInv == Inv /\ [Next]_vars => Inv'
<1> SUFFICES ASSUME Inv, [Next]_vars PROVE Inv'
  OBVIOUS
<1>1. CASE UNCHANGED vars
  BY <1>1, Stands DEF vars, Inv
<1>2. ASSUME NEW p \in Packets, Read(p) PROVE Inv'
  BY <1>2 DEF Read, Inv
<1>3. CASE Drop
  BY <1>3, Stands DEF Drop, Inv
<1>4. CASE Reject
  BY <1>4, Stands DEF Reject, Inv, Answer
<1>5. CASE InjectInbound
  BY <1>5, Stands DEF InjectInbound, Inv
<1>6. CASE NextTurn
  BY <1>6 DEF NextTurn, Inv
<1> QED
  BY <1>1, <1>2, <1>3, <1>4, <1>5, <1>6 DEF Next

\* A packet with an outcome is one that was read.
LEMMA Outcome ==
  ASSUME Inv, outcome # "none" PROVE pkt \in Packets
BY DEF Inv

\* Behind the walk the code and the RFCs agree on where the transport header is.
LEMMA FoundAtHeader ==
  ASSUME NEW p \in Packets, p.ver = V6
  PROVE  /\ HeaderBytes(p) = Transport(p) /\ HeaderBytes(p) \in Nat
         /\ ipv6TransportHeader(p).ok
              <=> Len(p.chain) <= 7 /\ p.proto # NoNextHeader /\ p.len >= HeaderBytes(p)
         /\ ipv6TransportHeader(p).ok =>
              /\ ipv6TransportHeader(p).proto = p.proto
              /\ ipv6TransportHeader(p).off = HeaderBytes(p)
<1>1. HeaderBytes(p) = Transport(p)
  BY DEF HeaderBytes, Transport, Sizes, V4, V6
<1>2. Transport(p) \in Nat
  BY OffsetsFacts
<1> DEFINE C == Len(p.chain) <= 7 /\ p.proto # NoNextHeader /\ p.len >= Transport(p)
<1>3. C => ipv6TransportHeader(p) = [ok |-> TRUE, proto |-> p.proto, off |-> Transport(p)]
  BY WalkFacts DEF Found
<1>4. ~C => ipv6TransportHeader(p) = [ok |-> FALSE]
  BY WalkFacts DEF Found, NotFound
<1> HIDE DEF C
<1>5. ipv6TransportHeader(p).ok <=> C
  BY <1>3, <1>4
<1>6. C => /\ ipv6TransportHeader(p).proto = p.proto
           /\ ipv6TransportHeader(p).off = Transport(p)
  BY <1>3
<1> QED
  BY <1>1, <1>2, <1>5, <1>6 DEF C

\* ipv6TransportHeader finds the transport header of every packet that holds it behind
\* at most seven extension headers of any size, and no other, wherever the packet ends.
THEOREM WalkFindsTransportHolds == Spec => []WalkFindsTransport
<1>1. Inv => WalkFindsTransport
  <2> SUFFICES ASSUME Inv, pkt.len > 0, pkt.ver = V6
               PROVE  LET t == ipv6TransportHeader(pkt)
                      IN /\ t.ok <=> /\ pkt.len >= HeaderBytes(pkt) /\ Len(pkt.chain) <= 7
                                     /\ pkt.proto # NoNextHeader
                         /\ t.ok => t.off = HeaderBytes(pkt) /\ t.proto = pkt.proto
    BY DEF WalkFindsTransport
  <2>1. pkt # NoPacket
    BY DEF NoPacket
  <2>2. pkt \in Packets
    BY <2>1 DEF Inv
  <2> QED
    BY <2>2, FoundAtHeader
<1> QED
  BY InitInv, NextInv, <1>1, PTL DEF Spec

\* A packet with at least one byte of its transport header is judged by its protocol.
LEMMA JudgedByProtocol ==
  ASSUME NEW p \in Packets, p.ver \in {V4, V6}
  PROVE  /\ BlockedEcho(p) => p.proto \in {ICMP, ICMPv6}
         /\ RejectedQuic(p) => p.proto = UDP /\ p.key = QuicPort
<1>1. CASE p.ver = V4
  BY <1>1 DEF BlockedEcho, RejectedQuic, isUDPDstPortIPv4, V4
<1>2. CASE p.ver = V6
  <2>1. ~(p.ver = V4)
    BY <1>2 DEF V4, V6
  <2>2. ipv6TransportHeader(p).ok => ipv6TransportHeader(p).proto = p.proto
    BY <1>2, FoundAtHeader
  <2> QED
    BY <2>1, <2>2 DEF BlockedEcho, RejectedQuic, isUDPDstPortIPv6
<1> QED
  BY <1>1, <1>2

\* With ICMP off no echo is injected, and with QUIC blocked no QUIC datagram is, behind
\* IPv4 options or up to seven extension headers either; behind eight or more the walk
\* of icmp_reject.go:172 has given up and the packet is let through.
THEOREM FilteredNeverInjectedHolds == Spec => []FilteredNeverInjected
<1>1. Inv => FilteredNeverInjected
  <2> SUFFICES ASSUME Inv, outcome = "inject", ~(pkt.ver = V6 /\ Len(pkt.chain) >= 8)
               PROVE  (~allowICMP => ~IsEcho(pkt)) /\ (blockQuic => ~IsQuic(pkt))
    BY DEF FilteredNeverInjected
  <2>1. PICK p \in Packets : p = pkt
    BY Outcome
  <2>2. ~BlockedEcho(p) /\ ~RejectedQuic(p)
    BY <2>1 DEF Inv
  <2>3. p.len \in Nat /\ p.ihl \in Nat
    BY PacketFacts
  <2>4. CASE p.ver = V4
    <3>1. HeaderBytes(p) = p.ihl
      BY <2>4 DEF HeaderBytes
    <3>2. ASSUME ~allowICMP, IsEcho(p) PROVE FALSE
      <4>1. Carries(p, ICMP, 1) /\ p.key \in {0, 8}
        BY <2>4, <3>2 DEF IsEcho, V4, V6
      <4>2. p.proto = ICMP /\ p.len >= p.ihl + 1 /\ p.ihl >= 20
        BY <2>4, <3>1, <4>1 DEF Carries
      <4>3. p.len > 9 /\ isICMPEchoType(p.key)
        BY <2>3, <4>1, <4>2 DEF isICMPEchoType
      <4> QED
        BY <2>2, <2>4, <3>2, <4>2, <4>3 DEF BlockedEcho, shouldBlockICMP
    <3>3. ASSUME blockQuic, IsQuic(p) PROVE FALSE
      <4>1. p.proto = UDP /\ p.len >= p.ihl + 8 /\ p.ihl >= 20 /\ p.key = QuicPort
        BY <2>4, <3>1, <3>3 DEF IsQuic, Carries
      <4>2. p.len >= 28 /\ p.len >= p.ihl + 4
        BY <2>3, <4>1
      <4> QED
        BY <2>2, <2>4, <3>3, <4>1, <4>2 DEF RejectedQuic, isUDPDstPortIPv4
    <3> QED
      BY <2>1, <3>2, <3>3
  <2>5. CASE p.ver = V6
    <3>1. p.ver # V4
      BY <2>5 DEF V4, V6
    <3>2. HeaderBytes(p) \in Nat
      BY <2>5, FoundAtHeader
    <3>3. Len(p.chain) <= 7
      <4>1. Len(p.chain) \in Nat /\ ~(Len(p.chain) >= 8)
        BY <2>1, <2>5, PacketFacts
      <4> QED
        BY <4>1
    <3>4. ASSUME ~allowICMP, IsEcho(p) PROVE FALSE
      <4>1. Carries(p, ICMPv6, 1) /\ p.key \in {128, 129}
        BY <3>1, <3>4 DEF IsEcho
      <4>2. p.proto = ICMPv6 /\ p.len >= HeaderBytes(p) + 1 /\ Len(p.chain) <= 7
        BY <2>5, <3>3, <4>1 DEF Carries
      <4>3. p.len >= HeaderBytes(p) /\ p.proto # NoNextHeader
        BY <2>3, <3>2, <4>2 DEF ICMPv6, NoNextHeader
      <4>4. ipv6TransportHeader(p).ok /\ ipv6TransportHeader(p).proto = ICMPv6
        BY <2>5, <4>2, <4>3, FoundAtHeader
      <4>5. isICMPEchoType(p.key)
        BY <4>1 DEF isICMPEchoType
      <4> QED
        BY <2>2, <3>1, <3>4, <4>4, <4>5 DEF BlockedEcho, shouldBlockICMPv6
    <3>5. ASSUME blockQuic, IsQuic(p) PROVE FALSE
      <4>1. /\ p.proto = UDP /\ p.len >= HeaderBytes(p) + 8 /\ Len(p.chain) <= 7
            /\ p.key = QuicPort
        BY <2>5, <3>3, <3>5 DEF IsQuic, Carries
      <4>2. /\ p.len >= HeaderBytes(p) /\ p.len >= HeaderBytes(p) + 4
            /\ p.proto # NoNextHeader
        BY <2>3, <3>2, <4>1 DEF UDP, NoNextHeader
      <4>3. /\ ipv6TransportHeader(p).ok /\ ipv6TransportHeader(p).proto = UDP
            /\ ipv6TransportHeader(p).off = HeaderBytes(p)
        BY <2>5, <4>1, <4>2, FoundAtHeader
      <4> QED
        BY <2>2, <3>1, <3>5, <4>1, <4>2, <4>3 DEF RejectedQuic, isUDPDstPortIPv6
    <3> QED
      BY <2>1, <3>4, <3>5
  <2> QED
    BY <2>1, <2>4, <2>5 DEF Inv
<1> QED
  BY InitInv, NextInv, <1>1, PTL DEF Spec

\* No TCP segment, no datagram for another port and no ICMP error is dropped or
\* rejected by the filters, whatever the options.
THEOREM NoCollateralHolds == Spec => []NoCollateral
<1>1. Inv => NoCollateral
  <2> SUFFICES ASSUME Inv, outcome \in {"drop", "reject"}, pkt.ver \in {V4, V6}
               PROVE  /\ ~Carries(pkt, TCP, 0)
                      /\ Carries(pkt, UDP, 0) => pkt.key = QuicPort /\ outcome = "reject"
                      /\ ~(pkt.ver = V4 /\ Carries(pkt, ICMP, 1) /\ pkt.key \in {3, 11})
                      /\ ~(pkt.ver = V6 /\ Carries(pkt, ICMPv6, 1) /\ pkt.key \in {1, 2, 3})
    BY DEF NoCollateral
  <2>1. PICK p \in Packets : p = pkt
    BY Outcome
  <2>2. (outcome = "drop" /\ BlockedEcho(p)) \/ (outcome = "reject" /\ RejectedQuic(p))
    BY <2>1 DEF Inv
  <2>3. /\ BlockedEcho(p) => p.proto \in {ICMP, ICMPv6}
        /\ RejectedQuic(p) => p.proto = UDP /\ p.key = QuicPort
    BY <2>1, JudgedByProtocol
  <2>4. ~Carries(p, TCP, 0)
    BY <2>2, <2>3 DEF Carries, TCP, UDP, ICMP, ICMPv6
  <2>5. Carries(p, UDP, 0) => p.key = QuicPort /\ outcome = "reject"
    BY <2>2, <2>3 DEF Carries, UDP, ICMP, ICMPv6
  <2>6. p.len \in Nat /\ p.ihl \in Nat
    BY PacketFacts
  <2>7. ASSUME p.ver = V4, Carries(p, ICMP, 1), p.key \in {3, 11} PROVE FALSE
    <3>1. p.proto = ICMP /\ p.len >= p.ihl + 1 /\ p.ihl >= 20
      BY <2>7 DEF Carries, HeaderBytes
    <3>2. ~(p.len < 20) /\ ~(p.len < p.ihl + 1) /\ ~isICMPEchoType(p.key)
      BY <2>6, <2>7, <3>1 DEF isICMPEchoType
    <3>3. ~BlockedEcho(p)
      BY <2>7, <3>2 DEF BlockedEcho, shouldBlockICMP
    <3> QED
      BY <2>2, <2>3, <3>1, <3>3 DEF ICMP, UDP
  <2>8. ASSUME p.ver = V6, Carries(p, ICMPv6, 1), p.key \in {1, 2, 3} PROVE FALSE
    <3>1. p.proto = ICMPv6 /\ p.len >= HeaderBytes(p) + 1
      BY <2>8 DEF Carries
    <3>2. /\ ipv6TransportHeader(p).ok => ipv6TransportHeader(p).off = HeaderBytes(p)
          /\ HeaderBytes(p) \in Nat
      BY <2>8, FoundAtHeader
    <3>3. ~(p.len < HeaderBytes(p) + 1) /\ ~isICMPEchoType(p.key) /\ p.ver # V4
      BY <2>6, <2>8, <3>1, <3>2 DEF isICMPEchoType, V4, V6
    <3>4. ~BlockedEcho(p)
      BY <3>2, <3>3 DEF BlockedEcho, shouldBlockICMPv6
    <3> QED
      BY <2>2, <2>3, <3>1, <3>4 DEF ICMPv6, UDP
  <2> QED
    BY <2>1, <2>4, <2>5, <2>7, <2>8
<1> QED
  BY InitInv, NextInv, <1>1, PTL DEF Spec

\* A reply over IPv4 comes from where the datagram went, quotes the whole header and
\* eight bytes, and both of its checksums verify.
LEMMA AnswerV4 ==
  ASSUME NEW p \in Packets, p.ver = V4, p.proto = UDP, p.ihl >= 20, p.len >= p.ihl + 8
  PROVE  /\ Answer(p).kind = "unreachable"
         /\ Answer(p).from = p.dst /\ Answer(p).to = p.src /\ Answer(p).quoted = p.ihl + 8
         /\ ChecksumVerifies(Answer(p).head) /\ ChecksumVerifies(Answer(p).icmp)
<1>1. PICK body \in Seq(Nat) :
        body = <<3 * 256 + 3, 0>> \o Quoted(p) /\ Len(body) = 5 /\ body[2] = 0
  <2>1. 3 * 256 + 3 \in Nat
    OBVIOUS
  <2> QED
    BY <2>1, BodyFacts
<1>2. PICK head \in Seq(Nat) :
        /\ head = <<VersionAndIHL, 20 + 8 + p.ihl + 8, TtlAndProtocol, 0, p.dst, p.src>>
        /\ Len(head) = 6 /\ head[4] = 0
  <2>1. PICK b \in Nat : b = 20 + 8 + p.ihl + 8
    BY PacketFacts
  <2>2. p.dst \in Nat /\ p.src \in Nat
    BY PacketFacts
  <2>3. VersionAndIHL \in Nat /\ TtlAndProtocol \in Nat
    BY DEF VersionAndIHL, TtlAndProtocol
  <2>4. PICK i \in Nat, j \in Nat : i = VersionAndIHL /\ j = TtlAndProtocol
    BY <2>3, Zenon
  <2>5. PICK m \in Nat, n \in Nat : m = p.dst /\ n = p.src
    BY <2>2
  <2>6. PICK head \in Seq(Nat) : head = <<i, b, j, 0, m, n>>
    <3>1. <<i, b, j, 0, m, n>> \in Seq(Nat)
      OBVIOUS
    <3> QED
      BY <3>1, Zenon
  <2>7. Len(head) = 6 /\ head[4] = 0
    BY <2>6
  <2>8. head = <<VersionAndIHL, 20 + 8 + p.ihl + 8, TtlAndProtocol, 0, p.dst, p.src>>
    BY <2>1, <2>4, <2>5, <2>6, Zenon
  <2> QED
    BY <2>7, <2>8
<1>3. p.len >= 28
  BY PacketFacts
<1>4. Answer(p) =
        [kind |-> "unreachable", from |-> p.dst, to |-> p.src, quoted |-> p.ihl + 8,
         icmp |-> [body EXCEPT ![2] = internetChecksum(body)],
         head |-> [head EXCEPT ![4] = internetChecksum(head)]]
  <2>1. ~(p.len < 28 \/ p.proto # UDP \/ p.ihl < 20 \/ p.len < p.ihl + 8)
    BY <1>3, PacketFacts
  <2> QED
    BY <1>1, <1>2, <2>1 DEF Answer, buildICMPv4PortUnreachable
<1>5. ChecksumVerifies([body EXCEPT ![2] = internetChecksum(body)])
  <2>1. 2 \in 1..Len(body)
    BY <1>1
  <2> QED
    BY <1>1, <2>1, MessageVerifies
<1>6. ChecksumVerifies([head EXCEPT ![4] = internetChecksum(head)])
  <2>1. 4 \in 1..Len(head)
    BY <1>2
  <2> QED
    BY <1>2, <2>1, MessageVerifies, Zenon
<1> QED
  BY <1>4, <1>5, <1>6

\* A reply over IPv6 quotes base header and UDP header; its checksum covers the
\* pseudo-header too.
LEMMA AnswerV6 ==
  ASSUME NEW p \in Packets, p.ver = V6, p.proto = UDP, p.chain = <<>>, p.len >= 48
  PROVE  /\ Answer(p).kind = "unreachable"
         /\ Answer(p).from = p.dst /\ Answer(p).to = p.src /\ Answer(p).quoted = 48
         /\ ChecksumVerifies(Answer(p).head \o Answer(p).icmp)
<1>1. PICK body \in Seq(Nat) :
        body = <<256 + 4, 0>> \o Quoted(p) /\ Len(body) = 5 /\ body[2] = 0
  <2>1. 256 + 4 \in Nat
    OBVIOUS
  <2> QED
    BY <2>1, BodyFacts
<1>2. PICK pseudo \in Seq(Nat) : pseudo = <<p.dst, p.src, 56, ICMPv6>>
  <2>1. PICK a \in Nat, b \in Nat, c \in Nat : a = p.dst /\ b = p.src /\ c = ICMPv6
    BY PacketFacts DEF ICMPv6
  <2>2. <<a, b, 56, c>> \in Seq(Nat)
    OBVIOUS
  <2> QED
    BY <2>1, <2>2
<1>3. Answer(p) =
        [kind |-> "unreachable", from |-> p.dst, to |-> p.src, quoted |-> 48,
         icmp |-> [body EXCEPT ![2] = internetChecksum(pseudo \o body)],
         head |-> pseudo]
  <2>1. ~(p.len < 48 \/ p.chain # <<>> \/ p.proto # UDP) /\ p.ver # V4
    BY PacketFacts DEF V4, V6
  <2> QED
    BY <1>1, <1>2, <2>1 DEF Answer, buildICMPv6PortUnreachable
<1>4. ChecksumVerifies(pseudo \o [body EXCEPT ![2] = internetChecksum(pseudo \o body)])
  <2>1. PICK k \in 1..Len(body) : k = 2 /\ body[k] = 0
    BY <1>1
  <2>2. ChecksumVerifies(pseudo \o [body EXCEPT ![k] = internetChecksum(pseudo \o body)])
    BY <2>1, PseudoVerifies
  <2> QED
    BY <2>1, <2>2
<1> QED
  BY <1>3, <1>4

\* Every QUIC datagram that is rejected, and has no extension headers, is answered so that
\* its sender accepts the answer, whatever addresses and ports it carries.
THEOREM RejectAnsweredHolds == Spec => []RejectAnswered
<1>1. Inv => RejectAnswered
  <2> SUFFICES ASSUME Inv, outcome = "reject", IsQuic(pkt), pkt.ver = V4 \/ pkt.chain = <<>>
               PROVE  /\ reply.kind = "unreachable"
                      /\ reply.from = pkt.dst /\ reply.to = pkt.src
                      /\ reply.quoted \in (HeaderBytes(pkt) + 8)..pkt.len
                      /\ IF pkt.ver = V4
                         THEN ChecksumVerifies(reply.head) /\ ChecksumVerifies(reply.icmp)
                         ELSE ChecksumVerifies(reply.head \o reply.icmp)
    BY DEF RejectAnswered
  <2>1. PICK p \in Packets : p = pkt
    BY Outcome
  <2>2. p.ver \in {V4, V6} /\ reply = Answer(p)
    BY <2>1 DEF Inv
  <2>3. p.proto = UDP /\ p.len >= HeaderBytes(p) + 8 /\ (p.ver = V4 => p.ihl >= 20)
    BY <2>1 DEF IsQuic, Carries
  <2>4. p.len \in Nat /\ p.ihl \in Nat
    BY PacketFacts
  <2>5. CASE p.ver = V4
    <3>1. HeaderBytes(p) = p.ihl
      BY <2>5 DEF HeaderBytes
    <3>2. p.ihl + 8 \in (HeaderBytes(p) + 8)..p.len
      BY <2>3, <2>4, <3>1
    <3> QED
      BY <2>1, <2>2, <2>3, <2>5, <3>1, <3>2, AnswerV4
  <2>6. CASE p.ver = V6
    <3>1. p.ver # V4 /\ p.chain = <<>>
      BY <2>1, <2>6 DEF V4, V6
    <3>2. HeaderBytes(p) = 40
      <4>1. Len(p.chain) = 0
        BY <3>1
      <4>2. PICK t : PartialSums(t, Sizes(p), 0) /\ SumOf(Sizes(p)) = t[0]
        <5>1. DOMAIN Sizes(p) = 1..0 /\ \A i \in 1..0 : Sizes(p)[i] \in Nat
          BY <4>1, PacketFacts
        <5> QED
          BY <5>1, SumFacts
      <4>3. SumOf(Sizes(p)) = 0
        BY <4>2 DEF PartialSums
      <4> QED
        BY <2>6, <4>3, FoundAtHeader DEF Transport
    <3>3. p.len >= 48 /\ 48 \in (HeaderBytes(p) + 8)..p.len
      BY <2>3, <2>4, <3>2
    <3> QED
      BY <2>1, <2>2, <2>3, <2>6, <3>1, <3>3, AnswerV6
  <2> QED
    BY <2>2, <2>5, <2>6
<1> QED
  BY InitInv, NextInv, <1>1, PTL DEF Spec
=============================================================================
