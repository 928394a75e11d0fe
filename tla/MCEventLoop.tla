---------------------------- MODULE MCEventLoop ----------------------------
(* EventLoop with two foreign threads, two functors and one I/O channel.   *)
EXTENDS EventLoop
=============================================================================
