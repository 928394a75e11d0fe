---------------------------- MODULE FunctorQueue ----------------------------
(***************************************************************************)
(* What EventLoop promises to the threads that hand it work (EventLoop.h,  *)
(* lines 50-61): the functors form one queue, each is run once, one at a   *)
(* time, in the order in which queueInLoop accepted them.                  *)
(***************************************************************************)
EXTENDS Sequences

CONSTANTS Functors,   \* the closures that can be queued
          NoFunctor   \* nothing is running

VARIABLES queue,      \* accepted and not yet started
          running     \* the functor the loop thread is executing

vars == <<queue, running>>

Init == /\ queue = <<>>
        /\ running = NoFunctor

Submit(f) == /\ queue' = Append(queue, f)
             /\ UNCHANGED running

Start == /\ running = NoFunctor
         /\ queue # <<>>
         /\ running' = Head(queue)
         /\ queue' = Tail(queue)

Finish == /\ running # NoFunctor
          /\ running' = NoFunctor
          /\ UNCHANGED queue

Next == \/ \E f \in Functors : Submit(f)
        \/ Start
        \/ Finish

Spec == Init /\ [][Next]_vars
=============================================================================
