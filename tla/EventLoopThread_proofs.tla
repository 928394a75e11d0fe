----------------------- MODULE EventLoopThread_proofs -----------------------
(***************************************************************************)
(* Proofs about EventLoopThread: the loop inside it behaves as EventLoop   *)
(* says, and startLoop() hands out a pointer to a live loop, although the  *)
(* mutex of the object may be reset while the worker holds it.             *)
(***************************************************************************)
EXTENDS EventLoopThread, EventLoop_proofs

(* A step of the two threads is a step of the EventLoop or leaves it.      *)
LEMMA ThreadStepIsLoopStep == [ThreadNext]_allVars => [Next]_vars
<1> SUFFICES ASSUME [ThreadNext]_allVars
             PROVE  Next \/ UNCHANGED vars
  OBVIOUS
<1> USE OwnerAssumption DEF Callers
<1>1. CASE WorkerStep
  BY <1>1 DEF WorkerStep, CreateLoop, WorkerLock, Publish, WorkerUnlock, CallLoop,
     ClearLoop, DestroyLoop, Next
<1>2. CASE OwnerStep
  BY <1>2 DEF OwnerStep, FinishConstruction, StartLoopLock, StartLoopTest,
     StartLoopWait, DestructorWake, Join, Next, CallCompletes
<1>3. CASE SpuriousWakeup
  BY <1>3 DEF SpuriousWakeup
<1>4. CASE DestructorStop
  BY <1>4 DEF DestructorStop, Next
<1>5. CASE LoopRuns
  BY <1>5 DEF LoopRuns, Next
<1>6. CASE QueueWork
  BY <1>6 DEF QueueWork, Next
<1>7. CASE QueueWorkWake
  BY <1>7 DEF QueueWorkWake, Next, CallCompletes
<1>8. CASE UNCHANGED allVars
  BY <1>8 DEF allVars
<1>9. QED
  BY <1>1, <1>2, <1>3, <1>4, <1>5, <1>6, <1>7, <1>8 DEF ThreadNext

(* The EventLoop of an EventLoopThread is an EventLoop: what is proved of  *)
(* that module holds inside this one, no wakeup being lost among it        *)
(* (EventLoopThread.cpp:38-48).                                            *)
THEOREM LoopInsideThread == ThreadSpec => Spec
<1>1. ThreadInit => Init
  BY DEF ThreadInit
<1>2. QED
  BY <1>1, ThreadStepIsLoopStep, PTL DEF ThreadSpec, Spec

----------------------------------------------------------------------------
(* The worker can leave loop() only after a stop(), only the destructor    *)
(* stops the loop, and startLoop() returns only what was published.        *)
Destructing == owner \in {"stopping", "joining", "gone"}

AliveInv ==
  /\ stop => Destructing
  /\ worker = "looping" /\ pc = "out" => Destructing
  /\ worker \in {"cleared", "ended"} => Destructing
  /\ owner = "started" => worker \in {"published", "ready", "looping"}

(* loop_ is set exactly between the two critical sections of threadFunc(),  *)
(* and loop() runs only inside it (EventLoopThread.cpp:38-48).             *)
THEOREM ThreadTypeCorrect == ThreadSpec => []ThreadTypeOK
<1>1. ThreadInit => ThreadTypeOK
  BY TypeOKInit DEF ThreadInit, ThreadTypeOK, OwnerPlaces, WorkerPlaces, Looping, Init
<1>2. ThreadTypeOK /\ [ThreadNext]_allVars => ThreadTypeOK'
  <2> SUFFICES ASSUME ThreadTypeOK, [ThreadNext]_allVars
               PROVE  ThreadTypeOK'
    OBVIOUS
  <2>1. TypeOK'
    BY ThreadStepIsLoopStep, TypeOKStep DEF ThreadTypeOK
  <2> USE <2>1 DEF ThreadTypeOK, OwnerPlaces, WorkerPlaces, Looping
  <2>2. CASE WorkerStep
    <3>1. CASE CreateLoop \/ WorkerLock \/ WorkerUnlock \/ DestroyLoop
      <4>1. UNCHANGED <<pc, owner, loopSet>> /\ mutex' \in BOOLEAN
        BY <3>1 DEF CreateLoop, WorkerLock, WorkerUnlock, DestroyLoop, vars
      <4>2. QED
        BY <3>1, <4>1 DEF CreateLoop, WorkerLock, WorkerUnlock, DestroyLoop
    <3>2. CASE Publish
      <4>1. UNCHANGED <<pc, mutex>> /\ owner' \in OwnerPlaces
        BY <3>2 DEF Publish, vars
      <4>2. QED
        BY <3>2, <4>1 DEF Publish
    <3>3. CASE CallLoop
      BY <3>3 DEF CallLoop
    <3>4. CASE ClearLoop
      BY <3>4 DEF ClearLoop, vars
    <3>5. QED
      BY <2>2, <3>1, <3>2, <3>3, <3>4 DEF WorkerStep
  <2>3. CASE OwnerStep \/ SpuriousWakeup \/ DestructorStop
    <3>1. UNCHANGED <<pc, worker, loopSet>>
      BY <2>3, Zenon DEF OwnerStep, FinishConstruction, StartLoopLock, StartLoopTest,
         StartLoopWait, DestructorWake, Join, SpuriousWakeup, DestructorStop, Stop,
         StopWake, vars
    <3>2. owner' \in OwnerPlaces
      BY <2>3 DEF OwnerStep, FinishConstruction, StartLoopLock, StartLoopTest,
         StartLoopWait, DestructorWake, Join, SpuriousWakeup, DestructorStop
    <3>3. mutex' \in BOOLEAN
      BY <2>3 DEF OwnerStep, FinishConstruction, StartLoopLock, StartLoopTest,
         StartLoopWait, DestructorWake, Join, SpuriousWakeup, DestructorStop
    <3>4. QED
      BY <3>1, <3>2, <3>3
  <2>4. CASE LoopRuns \/ QueueWork \/ QueueWorkWake
    BY <2>4 DEF LoopRuns, QueueWork, QueueWorkWake, QueueInLoop, QueueInLoopWake,
       threadVars
  <2>5. CASE UNCHANGED allVars
    BY <2>5 DEF allVars, vars, threadVars
  <2>6. QED
    BY <2>2, <2>3, <2>4, <2>5 DEF ThreadNext
<1>3. QED
  BY <1>1, <1>2, PTL DEF ThreadSpec

LEMMA AliveInvStep ==
  ThreadTypeOK /\ AliveInv /\ [ThreadNext]_allVars => AliveInv'
<1> SUFFICES ASSUME ThreadTypeOK, AliveInv, [ThreadNext]_allVars
             PROVE  AliveInv'
  OBVIOUS
<1> USE DEF ThreadTypeOK, AliveInv, Destructing, Looping
<1>1. CASE WorkerStep
  BY <1>1 DEF WorkerStep, CreateLoop, WorkerLock, Publish, WorkerUnlock, CallLoop,
     ClearLoop, DestroyLoop, Enter, vars
<1>2. CASE OwnerStep
  BY <1>2 DEF OwnerStep, FinishConstruction, StartLoopLock, StartLoopTest,
     StartLoopWait, DestructorWake, Join, StopWake, vars
<1>3. CASE SpuriousWakeup \/ DestructorStop
  BY <1>3 DEF SpuriousWakeup, DestructorStop, Stop, vars
<1>4. CASE LoopRuns
  <2>1. stop' = stop /\ UNCHANGED threadVars
    BY <1>4 DEF LoopRuns, LoopStep, CheckStop, EpollReturn, EpollTimeout, HandleWakeup,
       HandleChannel, CallbackReturns, SwapFunctors, RunFunctor, FunctorReturns,
       FunctorsDone, CallCompletes, QueueInLoopWake, StopWake
  <2>2. pc' = "out" => stop \/ pc = "out"
    BY <1>4 DEF LoopRuns, LoopStep, CheckStop, EpollReturn, EpollTimeout, HandleWakeup,
       HandleChannel, CallbackReturns, SwapFunctors, RunFunctor, FunctorReturns,
       FunctorsDone, CallCompletes, QueueInLoopWake, StopWake
  <2>3. QED
    BY <2>1, <2>2 DEF threadVars
<1>5. CASE QueueWork \/ QueueWorkWake
  BY <1>5 DEF QueueWork, QueueWorkWake, QueueInLoop, QueueInLoopWake, threadVars
<1>6. CASE UNCHANGED allVars
  BY <1>6 DEF allVars, vars, threadVars
<1>7. QED
  BY <1>1, <1>2, <1>3, <1>4, <1>5, <1>6 DEF ThreadNext

(* From the return of startLoop() to the destructor, the pointer it        *)
(* returned and loop_ denote a live EventLoop (EventLoopThread.cpp:18-36). *)
THEOREM StartedLoopIsAliveHolds == ThreadSpec => []StartedLoopIsAlive
<1>1. ThreadInit => AliveInv
  BY DEF ThreadInit, Init, AliveInv
<1>2. ThreadTypeOK /\ AliveInv => StartedLoopIsAlive
  BY DEF ThreadTypeOK, AliveInv, StartedLoopIsAlive, LoopExists
<1>3. QED
  BY <1>1, <1>2, ThreadTypeCorrect, AliveInvStep, PTL DEF ThreadSpec
=============================================================================
