-------------------------- MODULE EventLoopThread --------------------------
(***************************************************************************)
(* One hquin::EventLoopThread: an owner constructs the object, calls       *)
(* startLoop(), hands work to the loop and destroys the object; the worker *)
(* runs threadFunc(), whose local variable is the EventLoop.               *)
(*                                                                         *)
(* The members are declared thread_, mutex_, cond_ (EventLoopThread.h:     *)
(* 30-32), so that the worker may lock mutex_ before its constructor has   *)
(* written it: until then its value is whatever the heap held.             *)
(***************************************************************************)
EXTENDS EventLoop

CONSTANT Owner   \* the thread that creates, starts and destroys the object

ASSUME OwnerAssumption == Owner \in Threads

VARIABLES
  owner,    \* where the owner is (see OwnerPlaces)
  worker,   \* where threadFunc() is (see WorkerPlaces)
  mutex,    \* TRUE while mutex_'s lock word says locked
  loopSet   \* loop_ # nullptr

threadVars == <<owner, worker, mutex, loopSet>>
allVars == <<vars, threadVars>>

(* "constructing": the thread runs, mutex_ and cond_ are not constructed;  *)
(* "holding": in startLoop() with the mutex, about to test loop_; "absent":*)
(* it was null, the wait has not begun; "waiting": in cond_.wait; "woken": *)
(* about to lock again; "started": startLoop() returned; "stopping" and    *)
(* "joining": in the destructor.                                           *)
OwnerPlaces == {"constructing", "constructed", "holding", "absent", "waiting",
                "woken", "started", "stopping", "joining", "gone"}

(* "created": the local EventLoop exists; "publishing": the mutex is held; *)
(* "published": loop_ is set; "ready": about to call loop(); "cleared":    *)
(* loop_ is null again, the EventLoop is still to be destroyed.            *)
WorkerPlaces == {"begin", "created", "publishing", "published", "ready",
                 "looping", "cleared", "ended"}

LoopExists == worker \notin {"begin", "ended"}

ThreadInit ==
  /\ Init
  /\ owner = "constructing"
  /\ worker = "begin"
  /\ mutex \in BOOLEAN
  /\ loopSet = FALSE

----------------------------------------------------------------------------
(* threadFunc(), on the worker.                                            *)

CreateLoop ==
  /\ worker = "begin"
  /\ worker' = "created"
  /\ UNCHANGED <<vars, owner, mutex, loopSet>>

WorkerLock ==
  /\ worker = "created"
  /\ ~mutex
  /\ mutex' = TRUE
  /\ worker' = "publishing"
  /\ UNCHANGED <<vars, owner, loopSet>>

(* loop_ = &loop; cond_.notify_one(), which reaches only a waiter. *)
Publish ==
  /\ worker = "publishing"
  /\ loopSet' = TRUE
  /\ worker' = "published"
  /\ owner' = IF owner = "waiting" THEN "woken" ELSE owner
  /\ UNCHANGED <<vars, mutex>>

WorkerUnlock ==
  /\ worker = "published"
  /\ mutex' = FALSE
  /\ worker' = "ready"
  /\ UNCHANGED <<vars, owner, loopSet>>

CallLoop ==
  /\ worker = "ready"
  /\ Enter
  /\ worker' = "looping"
  /\ UNCHANGED <<owner, mutex, loopSet>>

(* Mutation: loop_ is set to null before the loop has returned. *)
ClearLoopEarly ==
  /\ worker = "looping"
  /\ ~mutex
  /\ loopSet' = FALSE
  /\ worker' = IF Looping THEN worker ELSE "cleared"
  /\ UNCHANGED <<vars, owner, mutex>>

(* loop() returned: loop_ is set to null under the mutex. *)
ClearLoop ==
  /\ worker = "looping"
  /\ ~Looping
  /\ ~mutex
  /\ loopSet' = FALSE
  /\ worker' = "cleared"
  /\ UNCHANGED <<vars, owner, mutex>>

(* The local EventLoop is destroyed and the thread ends. *)
DestroyLoop ==
  /\ worker = "cleared"
  /\ worker' = "ended"
  /\ UNCHANGED <<vars, owner, mutex, loopSet>>

----------------------------------------------------------------------------
(* The owner.                                                              *)

(* The constructors of mutex_ and cond_ run, after thread_'s. *)
FinishConstruction ==
  /\ owner = "constructing"
  /\ mutex' = FALSE
  /\ owner' = "constructed"
  /\ UNCHANGED <<vars, worker, loopSet>>

(* Mutation: if (!loop_) instead of while (!loop_), so that a spurious     *)
(* wakeup is taken for the notification.                                   *)
StartLoopLockOnce ==
  /\ owner \in {"constructed", "woken"}
  /\ ~mutex
  /\ mutex' = (owner = "constructed")
  /\ owner' = IF owner = "constructed" THEN "holding" ELSE "started"
  /\ UNCHANGED <<vars, worker, loopSet>>

(* The mutex is locked: on entry, and again at the end of cond_.wait. *)
StartLoopLock ==
  /\ owner \in {"constructed", "woken"}
  /\ ~mutex
  /\ mutex' = TRUE
  /\ owner' = "holding"
  /\ UNCHANGED <<vars, worker, loopSet>>

(* while (!loop_): return the pointer, or go on to wait. *)
StartLoopTest ==
  /\ owner = "holding"
  /\ IF loopSet
     THEN owner' = "started" /\ mutex' = FALSE
     ELSE owner' = "absent" /\ UNCHANGED mutex
  /\ UNCHANGED <<vars, worker, loopSet>>

(* cond_.wait registers the waiter and releases the mutex in one step. *)
StartLoopWait ==
  /\ owner = "absent"
  /\ owner' = "waiting"
  /\ mutex' = FALSE
  /\ UNCHANGED <<vars, worker, loopSet>>

SpuriousWakeup ==
  /\ owner = "waiting"
  /\ owner' = "woken"
  /\ UNCHANGED <<vars, worker, mutex, loopSet>>

(* ~EventLoopThread(): loop_->stop(), read without the mutex. *)
DestructorStop ==
  /\ owner = "started"
  /\ loopSet
  /\ Stop(Owner)
  /\ owner' = "stopping"
  /\ UNCHANGED <<worker, mutex, loopSet>>

DestructorWake ==
  /\ owner = "stopping"
  /\ StopWake(Owner)
  /\ owner' = "joining"
  /\ UNCHANGED <<worker, mutex, loopSet>>

(* thread_.join() returns. *)
Join ==
  /\ owner = "joining"
  /\ worker = "ended"
  /\ owner' = "gone"
  /\ UNCHANGED <<vars, worker, mutex, loopSet>>

----------------------------------------------------------------------------
(* Work on the loop.  The pointer reaches the other threads through the    *)
(* owner, after startLoop(); only the destructor stops an I/O loop.        *)
LoopRuns ==
  /\ worker = "looping"
  /\ LoopStep \/ EpollTimeout \/ CallCompletes(LoopThread)
  /\ UNCHANGED threadVars

QueueWork ==
  /\ \/ \E th \in Threads, f \in Functors :
          owner = "started" /\ QueueInLoop(th, f)
     \/ Looping /\ \E f \in Functors : QueueInLoop(LoopThread, f)
  /\ UNCHANGED threadVars

QueueWorkWake ==
  /\ \E th \in Threads : QueueInLoopWake(th)
  /\ UNCHANGED threadVars

WorkerStep ==
  CreateLoop \/ WorkerLock \/ Publish \/ WorkerUnlock \/ CallLoop \/ ClearLoop \/ DestroyLoop

OwnerStep ==
  \/ FinishConstruction
  \/ StartLoopLock
  \/ StartLoopTest
  \/ StartLoopWait
  \/ DestructorWake
  \/ Join

ThreadNext ==
  \/ WorkerStep
  \/ OwnerStep
  \/ SpuriousWakeup
  \/ DestructorStop
  \/ LoopRuns
  \/ QueueWork
  \/ QueueWorkWake

(* Both threads are scheduled; a call that was begun returns; a thread     *)
(* that finds the mutex free again and again gets it.  Neither the         *)
(* destructor, nor more work, nor a spurious wakeup, nor a timeout of      *)
(* epoll_wait has to come.                                                 *)
ThreadFairness ==
  /\ WF_allVars(WorkerStep)
  /\ SF_allVars(WorkerLock)
  /\ WF_allVars(OwnerStep)
  /\ SF_allVars(StartLoopLock)
  /\ WF_allVars(QueueWorkWake)
  /\ WF_allVars(worker = "looping" /\ (LoopStep \/ CallCompletes(LoopThread))
                /\ UNCHANGED threadVars)

ThreadSpec == ThreadInit /\ [][ThreadNext]_allVars /\ ThreadFairness

----------------------------------------------------------------------------
(* Properties.                                                             *)

(* The types; an owner past startLoop() knows of a worker that published,  *)
(* and loop_ is set exactly between the two critical sections of           *)
(* threadFunc().                                                           *)
ThreadTypeOK ==
  /\ TypeOK
  /\ owner \in OwnerPlaces
  /\ worker \in WorkerPlaces
  /\ mutex \in BOOLEAN
  /\ loopSet \in BOOLEAN
  /\ loopSet <=> worker \in {"published", "ready", "looping"}
  /\ Looping => worker = "looping"

(* The pointer startLoop() returned, and the loop_ that the destructor     *)
(* reads without the mutex, point to a live EventLoop from the return of   *)
(* startLoop() to the destructor (EventLoopThread.cpp:18-36).              *)
StartedLoopIsAlive ==
  owner = "started" => loopSet /\ LoopExists

(* Work queued before loop() is even entered is not forgotten: loop()      *)
(* resets stop_ but neither the queue nor the eventfd                      *)
(* (EventLoop.cpp:60-81).                                                  *)
EarlyWorkRuns ==
  \A f \in Functors :
    (owner = "started" /\ f \in ToSet(pending))
      ~> (running = f \/ owner # "started")

(* A destructor whose stop() finds loop() entered gets its thread joined   *)
(* (EventLoopThread.cpp:18-22).                                            *)
StopThenJoin == (owner = "joining" /\ Looping /\ stop) ~> owner = "gone"

(* A destructor always returns: a loop told to stop checks its flag once a *)
(* round and leaves (doc/server.md:76).  The code refutes it.              *)
DestructorReturns == owner = "joining" ~> owner = "gone"
=============================================================================
