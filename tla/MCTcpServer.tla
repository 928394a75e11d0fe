---------------------------- MODULE MCTcpServer ----------------------------
(* TcpServer with no or one I/O thread (numThreads_ is chosen initially).  *)
EXTENDS TcpServer
=============================================================================
