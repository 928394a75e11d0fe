-------------------------- MODULE MCTcpConnection --------------------------
(* TcpConnection with messages of one or two pieces and short writes.      *)
EXTENDS TcpConnection
=============================================================================
