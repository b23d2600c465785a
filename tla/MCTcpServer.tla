----------------------------- MODULE MCTcpServer -----------------------------
(* TcpServer with small sets of model values.                              *)
EXTENDS TcpServer

CONSTANTS p1, p2, s1, s2
=============================================================================
