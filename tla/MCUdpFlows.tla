----------------------------- MODULE MCUdpFlows -----------------------------
(* TLC instances of UdpFlows.                                               *)
EXTENDS UdpFlows, TLC

\* Flows and handlers are interchangeable (safety runs only).
Symmetry == Permutations(Flows) \cup Permutations(Handlers)
=============================================================================
