---------------------------- MODULE MCTcpFlows ----------------------------
(* TLC instances of TcpFlows.                                               *)
EXTENDS TcpFlows
=============================================================================
