----------------------------- MODULE MCTcpPipe -----------------------------
(* TLC instances of TcpPipe.                                                *)
EXTENDS TcpPipe

\* A request of one chunk and a response of two.
Chunks == [tx |-> 1, rx |-> 2]
=============================================================================
