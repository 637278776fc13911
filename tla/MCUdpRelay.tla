----------------------------- MODULE MCUdpRelay -----------------------------
(* TLC instances of UdpRelay.                                               *)
EXTENDS UdpRelay
=============================================================================
