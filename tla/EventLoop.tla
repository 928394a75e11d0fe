----------------------------- MODULE EventLoop -----------------------------
(***************************************************************************)
(* One hquin::EventLoop: the thread that runs loop(), its eventfd, its     *)
(* functor queue, and the other threads that call queueInLoop() and stop().*)
(*                                                                         *)
(* Each action is the code between two points at which another thread can  *)
(* be observed: the mutex, the eventfd and the flag stop_.  The body of a  *)
(* callback or of a functor is user code: any sequence of calls on the     *)
(* loop, then a return.  runInLoop() adds nothing to this: on the loop     *)
(* thread it is user code calling user code, elsewhere it is queueInLoop().*)
(***************************************************************************)
EXTENDS Naturals, Sequences, FiniteSets, SequencesExt

CONSTANTS Threads,        \* the other threads that hold a pointer to the loop
          LoopThread,     \* the thread the loop was created in
          Functors,       \* the closures handed to queueInLoop
          NoFunctor,      \* no functor is running
          Channels,       \* the I/O channels registered with the Epoller
          WakeupChannel,  \* the channel of the eventfd
          EventSlots,     \* kInitEventListSize, the size of events_
          MaxPending,     \* bound on the length of pendingFunctors_
          MaxWakeups      \* bound: no call is begun with more unread wakeups

ASSUME LoopThreadAssumption == LoopThread \notin Threads
ASSUME NoFunctorAssumption == NoFunctor \notin Functors
ASSUME WakeupChannelAssumption == WakeupChannel \notin Channels
ASSUME BoundsAssumption ==
  MaxPending \in Nat /\ MaxWakeups \in Nat /\ EventSlots \in Nat \ {0}

VARIABLES
  pc,        \* where the loop thread is in loop() (see Places)
  stop,      \* stop_
  calling,   \* callingPendingFunctors_
  pending,   \* pendingFunctors_
  functors,  \* what is left of the batch swapped out by doPendingFunctors
  running,   \* the functor being executed
  eventfd,   \* the counter of wakeupFd_
  ready,     \* the I/O channels that the kernel would report
  fired,     \* what is left of firedChannelList_
  call,      \* how far each thread is in its own call of queueInLoop or stop
  early      \* history: how many of pending the loop thread queued outside loop()

vars == <<pc, stop, calling, pending, functors, running, eventfd, ready, fired, call, early>>

----------------------------------------------------------------------------
(* "out": not in loop(); "check": at the while condition; "wait": inside   *)
(* epoll_wait; "events": in the loop over firedChannelList_; "callback":   *)
(* in an I/O callback; "functors": in the loop over the batch; "functor":  *)
(* in a functor.                                                           *)
Places == {"out", "check", "wait", "events", "callback", "functors", "functor"}

Callers == Threads \cup {LoopThread}

(* looping_ is TRUE from line 64 to line 80. *)
Looping == pc # "out"

(* The loop thread makes calls of its own only from user code: a callback, *)
(* a functor, or what it does before and after loop().                     *)
CanCall(th) == /\ call[th] = "none"
               /\ th = LoopThread => pc \in {"out", "callback", "functor"}

(* What epoll_wait would report now; it is level triggered. *)
KernelReady == ready \cup (IF eventfd > 0 THEN {WakeupChannel} ELSE {})

Init == /\ pc = "out"
        /\ stop = FALSE
        /\ calling = FALSE
        /\ pending = <<>>
        /\ functors = <<>>
        /\ running = NoFunctor
        /\ eventfd = 0
        /\ ready = {}
        /\ fired = {}
        /\ call = [th \in Callers |-> "none"]
        /\ early = 0

----------------------------------------------------------------------------
(* Calls made by any thread.                                               *)

(* wakeup(): the write adds one to the counter.  It fails only next to     *)
(* 2^64, and the failure is only logged.                                   *)
Wakeup == eventfd' = eventfd + 1

(* queueInLoop(), first half: the push under the mutex. *)
QueueInLoop(th, f) ==
  /\ CanCall(th)
  /\ Len(pending) < MaxPending
  /\ eventfd <= MaxWakeups
  /\ pending' = Append(pending, f)
  /\ early' = IF th = LoopThread /\ ~Looping THEN early + 1 ELSE early
  /\ call' = [call EXCEPT ![th] = "pushed"]
  /\ UNCHANGED <<pc, stop, calling, functors, running, eventfd, ready, fired>>

(* Mutation: a functor that queues another one does not wake the loop. *)
QueueInLoopWakeForeignOnly(th) ==
  /\ call[th] = "pushed"
  /\ IF th # LoopThread THEN Wakeup ELSE UNCHANGED eventfd
  /\ call' = [call EXCEPT ![th] = "none"]
  /\ UNCHANGED <<pc, stop, calling, pending, functors, running, ready, fired, early>>

(* Mutation: only calls made while functors run wake the loop. *)
QueueInLoopWakeCallingOnly(th) ==
  /\ call[th] = "pushed"
  /\ IF calling THEN Wakeup ELSE UNCHANGED eventfd
  /\ call' = [call EXCEPT ![th] = "none"]
  /\ UNCHANGED <<pc, stop, calling, pending, functors, running, ready, fired, early>>

(* Mutation: no wakeup for a loop that is not in loop() yet. *)
QueueInLoopWakeLoopingOnly(th) ==
  /\ call[th] = "pushed"
  /\ IF Looping /\ (th # LoopThread \/ calling) THEN Wakeup ELSE UNCHANGED eventfd
  /\ call' = [call EXCEPT ![th] = "none"]
  /\ UNCHANGED <<pc, stop, calling, pending, functors, running, ready, fired, early>>

(* queueInLoop(), second half: the decision to wake the loop, taken after  *)
(* the mutex was released.                                                 *)
QueueInLoopWake(th) ==
  /\ call[th] = "pushed"
  /\ IF th # LoopThread \/ calling THEN Wakeup ELSE UNCHANGED eventfd
  /\ call' = [call EXCEPT ![th] = "none"]
  /\ UNCHANGED <<pc, stop, calling, pending, functors, running, ready, fired, early>>

(* stop(), first half.  A second stop() before the first took effect is    *)
(* not enumerated: it writes the same value.                               *)
Stop(th) ==
  /\ CanCall(th)
  /\ ~stop
  /\ eventfd <= MaxWakeups
  /\ stop' = TRUE
  /\ call' = IF th = LoopThread THEN call ELSE [call EXCEPT ![th] = "stopping"]
  /\ UNCHANGED <<pc, calling, pending, functors, running, eventfd, ready, fired, early>>

(* Mutation: stop() from another thread only sets the flag. *)
StopWakeSilent(th) ==
  /\ call[th] = "stopping"
  /\ call' = [call EXCEPT ![th] = "none"]
  /\ UNCHANGED <<pc, stop, calling, pending, functors, running, eventfd, ready, fired, early>>

(* stop(), second half, on a thread that is not the loop's. *)
StopWake(th) ==
  /\ call[th] = "stopping"
  /\ Wakeup
  /\ call' = [call EXCEPT ![th] = "none"]
  /\ UNCHANGED <<pc, stop, calling, pending, functors, running, ready, fired, early>>

----------------------------------------------------------------------------
(* The loop thread.                                                        *)

(* loop() is entered; it resets stop_. *)
Enter ==
  /\ pc = "out"
  /\ call[LoopThread] = "none"
  /\ pc' = "check"
  /\ stop' = FALSE
  /\ UNCHANGED <<calling, pending, functors, running, eventfd, ready, fired, call, early>>

(* while (!stop_): leave loop(), or clear the fired list and block. *)
CheckStop ==
  /\ pc = "check"
  /\ pc' = IF stop THEN "out" ELSE "wait"
  /\ fired' = IF stop THEN fired ELSE {}
  /\ UNCHANGED <<stop, calling, pending, functors, running, eventfd, ready, call, early>>

(* Mutation: while the eventfd is readable only its event is looked at. *)
EpollReturnWakeupFirst ==
  /\ pc = "wait"
  /\ KernelReady # {}
  /\ fired' = IF eventfd > 0 THEN {WakeupChannel} ELSE KernelReady
  /\ pc' = "events"
  /\ UNCHANGED <<stop, calling, pending, functors, running, eventfd, ready, call, early>>

(* epoll_wait returns with as many events as events_ has room for, which   *)
(* never grows; fillFiredEvents builds the list.                           *)
EpollReturn ==
  /\ pc = "wait"
  /\ KernelReady # {}
  /\ fired' \in {s \in SUBSET KernelReady :
                 IF Cardinality(KernelReady) <= EventSlots THEN s = KernelReady
                 ELSE Cardinality(s) = EventSlots}
  /\ pc' = "events"
  /\ UNCHANGED <<stop, calling, pending, functors, running, eventfd, ready, call, early>>

(* epoll_wait times out with nothing to report. *)
EpollTimeout ==
  /\ pc = "wait"
  /\ KernelReady = {}
  /\ fired' = {}
  /\ pc' = "events"
  /\ UNCHANGED <<stop, calling, pending, functors, running, eventfd, ready, call, early>>

(* Mutation: the handler of the eventfd does not read it. *)
HandleWakeupUnread ==
  /\ pc = "events"
  /\ WakeupChannel \in fired
  /\ fired' = fired \ {WakeupChannel}
  /\ UNCHANGED <<pc, stop, calling, pending, functors, running, eventfd, ready, call, early>>

(* The wakeup channel's callback, handleRead(): the read resets the counter. *)
HandleWakeup ==
  /\ pc = "events"
  /\ WakeupChannel \in fired
  /\ eventfd' = 0
  /\ fired' = fired \ {WakeupChannel}
  /\ UNCHANGED <<pc, stop, calling, pending, functors, running, ready, call, early>>

(* Another channel's callback is entered; it consumes what was ready.  The *)
(* list is in the order the kernel chose.                                  *)
HandleChannel(c) ==
  /\ pc = "events"
  /\ c \in fired
  /\ ready' = ready \ {c}
  /\ fired' = fired \ {c}
  /\ pc' = "callback"
  /\ UNCHANGED <<stop, calling, pending, functors, running, eventfd, call, early>>

CallbackReturns ==
  /\ pc = "callback"
  /\ call[LoopThread] = "none"
  /\ pc' = "events"
  /\ UNCHANGED <<stop, calling, pending, functors, running, eventfd, ready, fired, call, early>>

(* Mutation: the batch is copied and pendingFunctors_ is not emptied. *)
SwapFunctorsCopy ==
  /\ pc = "events"
  /\ fired = {}
  /\ calling' = TRUE
  /\ functors' = pending
  /\ pc' = "functors"
  /\ UNCHANGED <<stop, pending, running, eventfd, ready, fired, call, early>>

(* doPendingFunctors(): set the flag and swap the batch out under the mutex. *)
SwapFunctors ==
  /\ pc = "events"
  /\ fired = {}
  /\ calling' = TRUE
  /\ functors' = pending
  /\ pending' = <<>>
  /\ early' = 0
  /\ pc' = "functors"
  /\ UNCHANGED <<stop, running, eventfd, ready, fired, call>>

RunFunctor ==
  /\ pc = "functors"
  /\ functors # <<>>
  /\ running' = Head(functors)
  /\ functors' = Tail(functors)
  /\ pc' = "functor"
  /\ UNCHANGED <<stop, calling, pending, eventfd, ready, fired, call, early>>

FunctorReturns ==
  /\ pc = "functor"
  /\ call[LoopThread] = "none"
  /\ running' = NoFunctor
  /\ pc' = "functors"
  /\ UNCHANGED <<stop, calling, pending, functors, eventfd, ready, fired, call, early>>

(* Mutation: leave the batch when a functor asked the loop to stop. *)
FunctorsDoneOnStop ==
  /\ pc = "functors"
  /\ functors = <<>> \/ stop
  /\ calling' = FALSE
  /\ pc' = "check"
  /\ UNCHANGED <<stop, pending, functors, running, eventfd, ready, fired, call, early>>

(* The batch is finished; doPendingFunctors() returns to the while. *)
FunctorsDone ==
  /\ pc = "functors"
  /\ functors = <<>>
  /\ calling' = FALSE
  /\ pc' = "check"
  /\ UNCHANGED <<stop, pending, functors, running, eventfd, ready, fired, call, early>>

(* The peer or the kernel makes an I/O channel ready. *)
ChannelBecomesReady(c) ==
  /\ c \notin ready
  /\ ready' = ready \cup {c}
  /\ UNCHANGED <<pc, stop, calling, pending, functors, running, eventfd, fired, call, early>>

----------------------------------------------------------------------------
(* What the loop thread does without a choice of its own. *)
LoopStep ==
  \/ CheckStop
  \/ EpollReturn
  \/ HandleWakeup
  \/ \E c \in Channels : HandleChannel(c)
  \/ CallbackReturns
  \/ SwapFunctors
  \/ RunFunctor
  \/ FunctorReturns
  \/ FunctorsDone

CallCompletes(th) == QueueInLoopWake(th) \/ StopWake(th)

Next ==
  \/ Enter
  \/ LoopStep
  \/ EpollTimeout
  \/ \E th \in Callers :
       \/ \E f \in Functors : QueueInLoop(th, f)
       \/ Stop(th)
       \/ CallCompletes(th)
  \/ \E c \in Channels : ChannelBecomesReady(c)

Spec == Init /\ [][Next]_vars

(* A thread that has begun a call is scheduled until the call returns, and *)
(* so is the loop thread while it has something to do; user code returns.  *)
(* Nothing obliges the owner to call loop(), anyone to call stop(), or the *)
(* ten-second timeout of epoll_wait to expire: progress must not need it.  *)
(* When more is ready than epoll_wait may return, its successive calls go  *)
(* round the ready descriptors.                                            *)
Fairness ==
  /\ WF_vars(LoopStep)
  /\ \A c \in Channels \cup {WakeupChannel} : SF_vars(EpollReturn /\ c \in fired')
  /\ \A th \in Callers : WF_vars(CallCompletes(th))

LiveSpec == Spec /\ Fairness

----------------------------------------------------------------------------
(* Properties.                                                             *)

(* The types, and the shape of the two phases of an iteration: the flag    *)
(* callingPendingFunctors_ is up exactly while a batch exists, nothing of  *)
(* a batch survives it, and a functor is running only inside one.          *)
TypeOK ==
  /\ pc \in Places
  /\ stop \in BOOLEAN
  /\ calling \in BOOLEAN
  /\ calling <=> pc \in {"functors", "functor"}
  /\ pending \in Seq(Functors)
  /\ functors \in Seq(Functors)
  /\ ~calling => functors = <<>>
  /\ running \in Functors \cup {NoFunctor}
  /\ running # NoFunctor <=> pc = "functor"
  /\ eventfd \in Nat
  /\ ready \subseteq Channels
  /\ fired \subseteq Channels \cup {WakeupChannel}
  /\ fired # {} => pc \in {"events", "callback"}
  /\ call \in [Callers -> {"none", "pushed", "stopping"}]
  /\ call[LoopThread] = "none" \/ /\ call[LoopThread] = "pushed"
                                  /\ pc \in {"out", "callback", "functor"}
  /\ early \in 0 .. Len(pending)

(* A functor is on its way: a wakeup is in the eventfd, or a thread that   *)
(* pushed is about to write one.                                           *)
WakeupOwed == \/ eventfd > 0
              \/ \E th \in Threads : call[th] = "pushed"

(* The loop never sleeps in epoll_wait over a functor that nobody will     *)
(* wake it for (EventLoop.cpp:102-111), unless it queued all of them       *)
(* itself outside loop(): only for those the code writes no wakeup and     *)
(* runs no functors before the next poll, so that they wait for an event   *)
(* or for the timeout.  The decision to wake is taken outside the mutex,   *)
(* and a callback that queues does not write to the eventfd at all.        *)
NoLostWakeup == pc = "wait" /\ Len(pending) > early => WakeupOwed

(* The loop never sleeps over a stop() either: a stop_ set after the while *)
(* condition was evaluated is followed by a write (EventLoop.cpp:53-57).   *)
NoSleepOverStop ==
  pc = "wait" /\ stop => \/ eventfd > 0
                         \/ \E th \in Threads : call[th] = "stopping"

(* EventLoop implements FunctorQueue: what is queued is the rest of the    *)
(* batch followed by pendingFunctors_.  No functor is lost, repeated or    *)
(* overtaken, across batches, stops and re-entries of loop()               *)
(* (EventLoop.cpp:141-154).                                                *)
FQ == INSTANCE FunctorQueue WITH queue <- functors \o pending

RunsFunctorsInOrder == FQ!Spec

(* A functor in the queue of a loop that runs is executed, without the     *)
(* help of the epoll timeout, unless the loop stops first or has queued    *)
(* all of them itself before loop() (EventLoop.cpp:102-111).               *)
QueuedFunctorRuns ==
  \A f \in Functors :
    (Looping /\ f \in ToSet(pending) /\ Len(pending) > early)
      ~> (running = f \/ ~Looping)

(* A ready channel is served even if functors queue functors forever: what *)
(* they queue waits for the next iteration (EventLoop.h:55-61).            *)
ReadyChannelServed ==
  \A c \in Channels : (Looping /\ c \in ready) ~> (c \notin ready \/ ~Looping)

(* A stop() that finds the loop running ends it (EventLoop.cpp:67).        *)
StopEndsLoop == (Looping /\ stop) ~> ~Looping

(* Wakeups are consumed: the eventfd does not stay readable, which would   *)
(* turn epoll_wait into a busy loop (EventLoop.cpp:123-130).               *)
WakeupsConsumed == (Looping /\ eventfd > 0) ~> (eventfd = 0 \/ ~Looping)
=============================================================================
