------------------------------ MODULE SlotPool ------------------------------
(***************************************************************************)
(* What a bounded pool that is kept by a count promises: a user takes a    *)
(* place only when the count says one is free, the count changes with      *)
(* every place taken or given back and with nothing else, and a user is    *)
(* turned away only when every place is taken.  UdpFlows implements it     *)
(* with activeUDPConns.                                                    *)
(***************************************************************************)
EXTENDS Integers

CONSTANTS Users, Cap

VARIABLES
  holders,  \* who has a place
  free,     \* the places that the count leaves
  turning   \* a user is being turned away

vars == <<holders, free, turning>>

Init == holders = {} /\ free = Cap /\ turning = FALSE

Take(u) == /\ u \notin holders
           /\ free > 0
           /\ holders' = holders \cup {u}
           /\ free' = free - 1
           /\ UNCHANGED turning

Give(u) == /\ u \in holders
           /\ holders' = holders \ {u}
           /\ free' = free + 1
           /\ UNCHANGED turning

TurnAway == ~turning /\ free = 0 /\ turning' = TRUE /\ UNCHANGED <<holders, free>>

Turned == turning /\ turning' = FALSE /\ UNCHANGED <<holders, free>>

Next == (\E u \in Users : Take(u) \/ Give(u)) \/ TurnAway \/ Turned

Spec == Init /\ [][Next]_vars
=============================================================================
