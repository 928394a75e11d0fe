-------------------------- MODULE EventLoop_proofs --------------------------
(***************************************************************************)
(* Proofs about EventLoop for any number of threads, functors and channels *)
(* and any bound on the queue.                                             *)
(***************************************************************************)
EXTENDS EventLoop, SequenceTheorems, TLAPS

(* Well-typedness (and the shape of the phases) is inductive on its own.   *)
(* Every other proof of this module starts from it.                        *)
LEMMA TypeOKInit == Init => TypeOK
<1> SUFFICES ASSUME Init
             PROVE  TypeOK
  OBVIOUS
<1> USE DEF Init
<1>1. call \in [Callers -> {"none", "pushed", "stopping"}]
  OBVIOUS
<1>2. call[LoopThread] = "none"
  BY DEF Callers
<1>3. pending \in Seq(Functors) /\ functors \in Seq(Functors)
  OBVIOUS
<1>4. early \in 0 .. Len(pending)
  BY EmptySeq
<1>5. QED
  BY <1>1, <1>2, <1>3, <1>4, NoFunctorAssumption DEF TypeOK, Places

LEMMA TypeOKStep == TypeOK /\ [Next]_vars => TypeOK'
<1> SUFFICES ASSUME TypeOK, [Next]_vars
             PROVE  TypeOK'
  OBVIOUS
<1> USE DEF TypeOK, Places, Callers
<1>1. CASE Enter
  BY <1>1 DEF Enter
<1>2. CASE CheckStop
  BY <1>2 DEF CheckStop
<1>3. CASE EpollReturn
  BY <1>3 DEF EpollReturn, KernelReady
<1>4. CASE EpollTimeout
  BY <1>4 DEF EpollTimeout
<1>5. CASE HandleWakeup
  BY <1>5 DEF HandleWakeup
<1>6. ASSUME NEW c \in Channels, HandleChannel(c)
      PROVE  TypeOK'
  BY <1>6 DEF HandleChannel
<1>7. CASE CallbackReturns
  BY <1>7 DEF CallbackReturns
<1>8. CASE SwapFunctors
  BY <1>8, EmptySeq DEF SwapFunctors
<1>9. CASE RunFunctor
  BY <1>9, NoFunctorAssumption DEF RunFunctor
<1>10. CASE FunctorReturns
  BY <1>10, NoFunctorAssumption DEF FunctorReturns
<1>11. CASE FunctorsDone
  BY <1>11 DEF FunctorsDone
<1>12. ASSUME NEW th \in Callers, NEW f \in Functors, QueueInLoop(th, f)
       PROVE  TypeOK'
  <2>1. pending' \in Seq(Functors) /\ Len(pending') = Len(pending) + 1
    BY <1>12 DEF QueueInLoop
  <2>2. early' \in 0 .. Len(pending')
    BY <1>12, <2>1 DEF QueueInLoop
  <2> QED BY <1>12, <2>1, <2>2 DEF QueueInLoop, CanCall
<1>13. ASSUME NEW th \in Callers, Stop(th)
       PROVE  TypeOK'
  BY <1>13 DEF Stop, CanCall
<1>14. ASSUME NEW th \in Callers, QueueInLoopWake(th)
       PROVE  TypeOK'
  BY <1>14 DEF QueueInLoopWake, Wakeup
<1>15. ASSUME NEW th \in Callers, StopWake(th)
       PROVE  TypeOK'
  BY <1>15 DEF StopWake, Wakeup
<1>16. ASSUME NEW c \in Channels, ChannelBecomesReady(c)
       PROVE  TypeOK'
  BY <1>16 DEF ChannelBecomesReady
<1>17. CASE UNCHANGED vars
  BY <1>17 DEF vars
<1>18. QED
  BY <1>1, <1>2, <1>3, <1>4, <1>5, <1>6, <1>7, <1>8, <1>9, <1>10, <1>11,
     <1>12, <1>13, <1>14, <1>15, <1>16, <1>17
     DEF Next, LoopStep, CallCompletes

(* Every reachable state is well typed, and callingPendingFunctors_ is up  *)
(* exactly while a batch exists (EventLoop.cpp:141-154).                   *)
THEOREM TypeCorrect == Spec => []TypeOK
  BY TypeOKInit, TypeOKStep, PTL DEF Spec

----------------------------------------------------------------------------
(* Why no wakeup is lost.  A wakeup is owed for whatever is in the queue,  *)
(* except for what the loop thread put there outside loop(), from the      *)
(* moment a batch is swapped out until epoll_wait returns.  While          *)
(* fired channels are handled it is not: the eventfd may be read, and a    *)
(* callback may queue silently, because the swap is still to come.  While  *)
(* functors run, the loop thread itself may be between its push and its    *)
(* write.                                                                  *)
Covered == Len(pending) > early => WakeupOwed

WakeupInv ==
  /\ pc \in {"out", "check", "wait"} => Covered
  /\ pc \in {"functors", "functor"} => Covered \/ call[LoopThread] = "pushed"

LEMMA WakeupInvInit == Init => WakeupInv
  BY DEF Init, WakeupInv, Covered

LEMMA WakeupInvStep == TypeOK /\ WakeupInv /\ [Next]_vars => WakeupInv'
<1> SUFFICES ASSUME TypeOK, WakeupInv, [Next]_vars
             PROVE  WakeupInv'
  OBVIOUS
<1> USE DEF TypeOK, Places, Callers, WakeupInv, Covered, WakeupOwed
<1>1. CASE Enter
  BY <1>1 DEF Enter
<1>2. CASE CheckStop
  BY <1>2 DEF CheckStop
<1>3. CASE EpollReturn
  BY <1>3 DEF EpollReturn
<1>4. CASE EpollTimeout
  BY <1>4 DEF EpollTimeout
<1>5. CASE HandleWakeup
  BY <1>5 DEF HandleWakeup
<1>6. ASSUME NEW c \in Channels, HandleChannel(c)
      PROVE  WakeupInv'
  BY <1>6 DEF HandleChannel
<1>7. CASE CallbackReturns
  BY <1>7 DEF CallbackReturns
<1>8. CASE SwapFunctors
  BY <1>8 DEF SwapFunctors
<1>9. CASE RunFunctor
  BY <1>9 DEF RunFunctor
<1>10. CASE FunctorReturns
  BY <1>10 DEF FunctorReturns
<1>11. CASE FunctorsDone
  BY <1>11 DEF FunctorsDone
<1>12. ASSUME NEW th \in Callers, NEW f \in Functors, QueueInLoop(th, f)
       PROVE  WakeupInv'
  <2>1. CASE th = LoopThread
    <3>1. Len(pending') = Len(pending) + 1 /\ Len(pending) \in Nat
      BY <1>12 DEF QueueInLoop
    <3>2. UNCHANGED <<pc, eventfd>> /\ \A t \in Threads : call'[t] = call[t]
      BY <1>12, <2>1, LoopThreadAssumption DEF QueueInLoop
    <3>3. CASE pc = "out"
      <4>1. early' = early + 1
        BY <1>12, <2>1, <3>3 DEF QueueInLoop, Looping
      <4> QED BY <3>1, <3>2, <3>3, <4>1
    <3>4. CASE pc # "out"
      BY <1>12, <2>1, <3>2, <3>4 DEF QueueInLoop, CanCall
    <3> QED BY <3>3, <3>4
  <2>2. CASE th \in Threads
    <3>1. WakeupOwed'
      BY <1>12, <2>2 DEF QueueInLoop
    <3> QED BY <3>1
  <2>3. QED
    BY <2>1, <2>2
<1>13. ASSUME NEW th \in Callers, Stop(th)
       PROVE  WakeupInv'
  BY <1>13 DEF Stop, CanCall
<1>14. ASSUME NEW th \in Callers, QueueInLoopWake(th)
       PROVE  WakeupInv'
  <2>1. CASE th = LoopThread
    BY <1>14, <2>1, LoopThreadAssumption DEF QueueInLoopWake, Wakeup
  <2>2. CASE th \in Threads
    BY <1>14, <2>2, LoopThreadAssumption DEF QueueInLoopWake, Wakeup
  <2>3. QED
    BY <2>1, <2>2
<1>15. ASSUME NEW th \in Callers, StopWake(th)
       PROVE  WakeupInv'
  BY <1>15 DEF StopWake, Wakeup
<1>16. ASSUME NEW c \in Channels, ChannelBecomesReady(c)
       PROVE  WakeupInv'
  BY <1>16 DEF ChannelBecomesReady
<1>17. CASE UNCHANGED vars
  BY <1>17 DEF vars
<1>18. QED
  BY <1>1, <1>2, <1>3, <1>4, <1>5, <1>6, <1>7, <1>8, <1>9, <1>10, <1>11,
     <1>12, <1>13, <1>14, <1>15, <1>16, <1>17
     DEF Next, LoopStep, CallCompletes

(* The loop never blocks in epoll_wait over a queued functor unless a      *)
(* wakeup is in the eventfd or about to be written, or it queued itself    *)
(* all there is outside loop() (EventLoop.cpp:102-111).                    *)
THEOREM NoLostWakeupHolds == Spec => []NoLostWakeup
<1>1. WakeupInv => NoLostWakeup
  BY DEF WakeupInv, NoLostWakeup, Covered
<1>2. QED
  BY <1>1, TypeCorrect, WakeupInvInit, WakeupInvStep, PTL DEF Spec

----------------------------------------------------------------------------
(* The loop enters epoll_wait only after reading stop_ as FALSE, and in    *)
(* epoll_wait it does not read the eventfd: NoSleepOverStop is inductive   *)
(* on its own (EventLoop.cpp:53-57).                                       *)
THEOREM NoSleepOverStopHolds == Spec => []NoSleepOverStop
<1>1. Init => NoSleepOverStop
  BY DEF Init, NoSleepOverStop
<1>2. TypeOK /\ NoSleepOverStop /\ [Next]_vars => NoSleepOverStop'
  <2> SUFFICES ASSUME TypeOK, NoSleepOverStop, [Next]_vars
               PROVE  NoSleepOverStop'
    OBVIOUS
  <2> USE DEF TypeOK, Places, Callers, NoSleepOverStop
  <2>1. CASE Enter
    BY <2>1 DEF Enter
  <2>2. CASE LoopStep
    BY <2>2 DEF LoopStep, CheckStop, EpollReturn, HandleWakeup, HandleChannel,
       CallbackReturns, SwapFunctors, RunFunctor, FunctorReturns, FunctorsDone
  <2>3. CASE EpollTimeout
    BY <2>3 DEF EpollTimeout
  <2>4. ASSUME NEW th \in Callers, NEW f \in Functors, QueueInLoop(th, f)
        PROVE  NoSleepOverStop'
    BY <2>4 DEF QueueInLoop, CanCall
  <2>5. ASSUME NEW th \in Callers, Stop(th)
        PROVE  NoSleepOverStop'
    BY <2>5 DEF Stop, CanCall
  <2>6. ASSUME NEW th \in Callers, QueueInLoopWake(th)
        PROVE  NoSleepOverStop'
    BY <2>6 DEF QueueInLoopWake, Wakeup
  <2>7. ASSUME NEW th \in Callers, StopWake(th)
        PROVE  NoSleepOverStop'
    BY <2>7 DEF StopWake, Wakeup
  <2>8. ASSUME NEW c \in Channels, ChannelBecomesReady(c)
        PROVE  NoSleepOverStop'
    BY <2>8 DEF ChannelBecomesReady
  <2>9. CASE UNCHANGED vars
    BY <2>9 DEF vars
  <2>10. QED
    BY <2>1, <2>2, <2>3, <2>4, <2>5, <2>6, <2>7, <2>8, <2>9
       DEF Next, CallCompletes
<1>3. QED
  BY <1>1, <1>2, TypeCorrect, PTL DEF Spec

----------------------------------------------------------------------------
(* Two facts about the queue a batch and pendingFunctors_ form together.   *)
LEMMA AppendBehindBatch ==
  ASSUME NEW S, NEW s \in Seq(S), NEW t \in Seq(S), NEW e \in S
  PROVE  s \o Append(t, e) = Append(s \o t, e)
<1>1. Append(t, e) = t \o <<e>>
  BY AppendIsConcat
<1>2. s \o t \in Seq(S) /\ <<e>> \in Seq(S)
  BY ConcatProperties
<1>3. (s \o t) \o <<e>> = Append(s \o t, e)
  BY <1>2, AppendIsConcat
<1>4. QED
  BY <1>1, <1>2, <1>3, ConcatAssociative

LEMMA TakeFromBatch ==
  ASSUME NEW S, NEW s \in Seq(S), NEW t \in Seq(S), s # <<>>
  PROVE  /\ s \o t # <<>>
         /\ Head(s \o t) = Head(s)
         /\ Tail(s \o t) = Tail(s) \o t
<1>1. Len(s) \in Nat /\ Len(s) > 0 /\ Len(t) \in Nat
  BY EmptySeq, LenProperties
<1>2. /\ s \o t \in Seq(S)
      /\ Len(s \o t) = Len(s) + Len(t)
      /\ \A i \in 1 .. Len(s) + Len(t) :
            (s \o t)[i] = IF i <= Len(s) THEN s[i] ELSE t[i - Len(s)]
  BY ConcatProperties
<1>3. s \o t # <<>>
  BY <1>1, ConcatEqualIffEmpty
<1>4. Head(s \o t) = Head(s)
  BY <1>1, <1>2, <1>3
<1>5. Tail(s \o t) = Tail(s) \o t
  <2>1. /\ Tail(s \o t) \in Seq(S)
        /\ Len(Tail(s \o t)) = Len(s) + Len(t) - 1
        /\ \A i \in 1 .. Len(s) + Len(t) - 1 :
              Tail(s \o t)[i] = (s \o t)[i + 1]
    BY <1>2, <1>3, HeadTailProperties
  <2>2. /\ Tail(s) \in Seq(S)
        /\ Len(Tail(s)) = Len(s) - 1
        /\ \A i \in 1 .. Len(s) - 1 : Tail(s)[i] = s[i + 1]
    BY HeadTailProperties
  <2>3. /\ Tail(s) \o t \in Seq(S)
        /\ Len(Tail(s) \o t) = Len(s) - 1 + Len(t)
        /\ \A i \in 1 .. Len(s) - 1 + Len(t) :
              (Tail(s) \o t)[i] = IF i <= Len(s) - 1 THEN Tail(s)[i]
                                  ELSE t[i - (Len(s) - 1)]
    BY <2>2, ConcatProperties
  <2>4. \A i \in 1 .. Len(s) + Len(t) - 1 :
           Tail(s \o t)[i] = (Tail(s) \o t)[i]
    BY <1>1, <1>2, <2>1, <2>2, <2>3
  <2>5. QED
    BY <1>1, <2>1, <2>3, <2>4, SeqEqual
<1>6. QED
  BY <1>3, <1>4, <1>5

(* EventLoop implements FunctorQueue: queueInLoop is Submit, taking a      *)
(* functor from the batch is Start, its return is Finish, and everything   *)
(* else, the swap included, leaves the queue as it is                      *)
(* (EventLoop.cpp:102-111, 141-154).                                       *)
THEOREM ImplementsFunctorQueue == Spec => RunsFunctorsInOrder
<1>1. Init => FQ!Init
  BY DEF Init, FQ!Init
<1>2. TypeOK /\ [Next]_vars => [FQ!Next]_(FQ!vars)
  <2> SUFFICES ASSUME TypeOK, [Next]_vars
               PROVE  FQ!Next \/ UNCHANGED FQ!vars
    OBVIOUS
  <2> USE DEF TypeOK, FQ!vars
  <2>1. CASE Enter \/ CheckStop \/ EpollReturn \/ EpollTimeout \/ HandleWakeup
             \/ CallbackReturns \/ FunctorsDone
    BY <2>1 DEF Enter, CheckStop, EpollReturn, EpollTimeout, HandleWakeup,
       CallbackReturns, FunctorsDone
  <2>2. ASSUME NEW c \in Channels, HandleChannel(c) \/ ChannelBecomesReady(c)
        PROVE  UNCHANGED FQ!vars
    BY <2>2 DEF HandleChannel, ChannelBecomesReady
  <2>3. CASE SwapFunctors
    <3>1. functors = <<>> /\ functors' = pending /\ pending' = <<>>
      BY <2>3 DEF SwapFunctors
    <3>2. functors \o pending = pending /\ pending \o <<>> = pending
      BY <3>1, ConcatEmptySeq
    <3>3. QED
      BY <2>3, <3>1, <3>2 DEF SwapFunctors
  <2>4. CASE RunFunctor
    <3>1. running = NoFunctor /\ functors # <<>>
      BY <2>4 DEF RunFunctor
    <3>2. FQ!Start
      BY <2>4, <3>1, TakeFromBatch DEF RunFunctor, FQ!Start
    <3>3. QED
      BY <3>2 DEF FQ!Next
  <2>5. CASE FunctorReturns
    BY <2>5 DEF FunctorReturns, FQ!Finish, FQ!Next
  <2>6. ASSUME NEW th \in Callers, NEW f \in Functors, QueueInLoop(th, f)
        PROVE  FQ!Next
    <3>1. FQ!Submit(f)
      BY <2>6, AppendBehindBatch DEF QueueInLoop, FQ!Submit
    <3>2. QED
      BY <3>1 DEF FQ!Next
  <2>7. ASSUME NEW th \in Callers, Stop(th) \/ QueueInLoopWake(th) \/ StopWake(th)
        PROVE  UNCHANGED FQ!vars
    BY <2>7 DEF Stop, QueueInLoopWake, StopWake
  <2>8. CASE UNCHANGED vars
    BY <2>8 DEF vars
  <2>9. QED
    BY <2>1, <2>2, <2>3, <2>4, <2>5, <2>6, <2>7, <2>8
       DEF Next, LoopStep, CallCompletes
<1>3. QED
  BY <1>1, <1>2, TypeCorrect, PTL DEF Spec, RunsFunctorsInOrder, FQ!Spec
=============================================================================
