----------------------------- MODULE LRURecency -----------------------------
(***************************************************************************)
(* LRUCache with the history of its uses, to compare the list with what    *)
(* "least recently used" means.                                            *)
(***************************************************************************)
EXTENDS LRUCache

CONSTANT MaxUses   \* bound on the length of the recorded history

VARIABLE uses      \* the keys hit or added so far, oldest first

Use(k) == Len(uses) < MaxUses /\ uses' = Append(uses, k)

HInit == Init /\ uses = <<>>

HNext ==
  \/ \E k \in Keys :
       /\ \/ GetHit(k) /\ Use(k)
          \/ GetMiss(k) /\ UNCHANGED uses
          \/ Remove(k) /\ UNCHANGED uses
          \/ \E allowed \in BOOLEAN : Add(k, allowed) /\ Use(k)
       /\ UNCHANGED now
  \/ Tick /\ UNCHANGED uses

HSpec == HInit /\ [][HNext]_<<vars, uses>>

\* In the history u the last use of k is the i-th.
LastAt(u, i, k) ==
  i \in 1..Len(u) /\ u[i] = k /\ \A j \in (i + 1)..Len(u) : u[j] # k

LastUse(k) == CHOOSE i \in 1..Len(uses) : LastAt(uses, i, k)

\* Get and Add keep the list in the order of last use, so the entry that Add
\* evicts (list.Back) is the least recently used one and a key in use survives.
RecencyOrder ==
  \A i, j \in 1..Len(list) :
    i < j => LastUse(list[i].key) > LastUse(list[j].key)
=============================================================================
