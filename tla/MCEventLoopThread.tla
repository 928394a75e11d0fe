------------------------- MODULE MCEventLoopThread -------------------------
(* EventLoopThread with its owner, one more thread and two functors.  The  *)
(* loop has no I/O channel of its own here: EventLoop's run has.           *)
EXTENDS EventLoopThread
=============================================================================
