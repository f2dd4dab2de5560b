------------------------- MODULE TaskSchedulerProofs -------------------------
(***************************************************************************)
(* Proofs about the scheduler for any number of workers, tasks and clients *)
(* and any batch size: its types, that at most one thread is the scheduler *)
(* at a time, that the sched-thread does not sleep through a push, and     *)
(* that a worker which waits for ready tasks is told of them; that the     *)
(* threads and queues of TaskScheduler implement TaskLifecycle, that no    *)
(* task is in two of the scheduler's lists or hands, and that the queued   *)
(* tasks keep their order.                                                 *)
(*                                                                         *)
(* The invariant of the first part, IInv, is about who does what.  That of *)
(* the second, TInv, is about the lists and the hands.  It does not say    *)
(* that a task a client is about to push is in no list: that follows from  *)
(* the invariant of TaskLifecycle, taken under the refinement mapping      *)
(* (`where`, the place of each task).  So the two are proved together:     *)
(* each step preserves TInv and maps to a step of TaskLifecycle, which     *)
(* preserves the other one.                                                *)
(***************************************************************************)
EXTENDS TaskScheduler, SequenceTheorems, FiniteSetTheorems, TLAPS

-----------------------------------------------------------------------------
(* The inductive invariant.                                                 *)

\* Who is about to execute or to push a task has one in hand.
HandsAreFull ==
    /\ \A w \in Workers : wpc[w] = "popped" => current[w] # NoTask
    /\ \A c \in Clients : cpc[c] = "push" => pushing[c] # NoTask

\* A push to the empty front queue is announced, or its client is on the way to
\* announce it.
FrontAnnounced ==
    \/ signalFront
    \/ \E c \in Clients : cpc[c] = "send"
    \/ \E w \in Workers : wpc[w] = "callback_send"

\* From the moment the sched-thread has emptied the front queue until it goes to
\* unlock, whatever is in that queue has been announced.  Until the unlock, so is
\* a caller that waits for the mutex.  What has been collected is dealt with before
\* it sleeps.
SchedPCsAfterCollect == {"sched_front", "sched_sleep", "sched_sleep_timed"}

NothingUnannounced ==
    \A w \in Workers :
        /\ wpc[w] \in {"sched_sleep", "sched_sleep_timed"}
              => pending = <<>> /\ ready = <<>>
        /\ wpc[w] \in SchedPCsAfterCollect /\ front # <<>> => FrontAnnounced
        /\ wpc[w] \in SchedPCs \ {"sched_unlock"} /\ waiting => signalFront

IInv == TypeOK /\ HandsAreFull /\ OneScheduler /\ NothingUnannounced

-----------------------------------------------------------------------------
(* Types.                                                                   *)

\* A stopped scheduler with empty queues has the right types.
LEMMA InitTypes == Init => TypeOK
<1> SUFFICES ASSUME Init  PROVE TypeOK
  OBVIOUS
<1>1. <<>> \in Seq(Tasks)
  BY EmptySeq
<1> QED
  BY <1>1, SchedulerAssumption DEF Init, TypeOK, WorkerPCs, ControllerPCs

\* The loop of a worker keeps the types: the lock, the execution, the wait.
LEMMA WorkerTypes ==
  ASSUME TypeOK, HandsAreFull, NEW w \in Workers, WorkerStep(w)
  PROVE  TypeOK'
<1> USE SchedulerAssumption
        DEF TypeOK, HandsAreFull, Set, WorkerGoto, ClientGoto, ControllerGoto,
            WorkerPCs, SchedPCs, ControllerPCs, LockPCs, taskVars, queueVars,
            mutexVars, timeVars, schedVars, workerVars, clientVars,
            controllerVars
<1>1. CASE WorkerLoop(w)
  BY <1>1 DEF WorkerLoop
<1>2. CASE WorkerExit(w)
  BY <1>2 DEF WorkerExit
<1>3. CASE WorkerPop(w)
  <2>1. CASE readyQueue = <<>>
    <3>1. /\ wpc' = [wpc EXCEPT ![w] = "idle"]
          /\ execBatch' = [execBatch EXCEPT ![w] = 0]
          /\ UNCHANGED <<readyQueue, current>>
      BY <1>3, <2>1 DEF WorkerPop
    <3> QED BY <1>3, <3>1 DEF WorkerPop
  <2>2. CASE readyQueue # <<>>
    <3>1. /\ wpc' = [wpc EXCEPT ![w] = "popped"]
          /\ current' = [current EXCEPT ![w] = Head(readyQueue)]
          /\ readyQueue' = Tail(readyQueue)
          /\ UNCHANGED execBatch
      BY <1>3, <2>2 DEF WorkerPop
    <3> QED BY <1>3, <3>1 DEF WorkerPop
  <2> QED BY <2>1, <2>2
<1>4. CASE WorkerExecute(w)
  BY <1>4 DEF WorkerExecute, ExecutedStatus
<1>5. CASE WorkerIdle(w)
  BY <1>5 DEF WorkerIdle
<1>6. CASE WorkerWaitReady(w)
  BY <1>6 DEF WorkerWaitReady
<1> QED BY <1>1, <1>2, <1>3, <1>4, <1>5, <1>6 DEF WorkerStep

\* So does what the callback of a task does from inside of the worker.
LEMMA CallbackTypes ==
  ASSUME TypeOK, HandsAreFull, NEW w \in Workers, CallbackStep(w)
  PROVE  TypeOK'
<1> USE SchedulerAssumption
        DEF TypeOK, HandsAreFull, Set, WorkerGoto, ClientGoto, ControllerGoto,
            WorkerPCs, SchedPCs, ControllerPCs, LockPCs, taskVars, queueVars,
            mutexVars, timeVars, schedVars, workerVars, clientVars,
            controllerVars
<1>1. CASE CallbackReceiveSignal(w)
  BY <1>1 DEF CallbackReceiveSignal
<1>2. CASE CallbackSend(w)
  BY <1>2 DEF CallbackSend
<1>3. CASE CallbackReturn(w)
  <2>1. CASE execBatch[w] + 1 < ExecBatch
    <3>1. /\ wpc' = [wpc EXCEPT ![w] = "pop"]
          /\ execBatch' = [execBatch EXCEPT ![w] = execBatch[w] + 1]
      BY <1>3, <2>1 DEF CallbackReturn
    <3> QED BY <1>3, <3>1 DEF CallbackReturn
  <2>2. CASE ~(execBatch[w] + 1 < ExecBatch)
    <3>1. /\ wpc' = [wpc EXCEPT ![w] = "try_lock"]
          /\ execBatch' = [execBatch EXCEPT ![w] = 0]
      BY <1>3, <2>2 DEF CallbackReturn
    <3> QED BY <1>3, <3>1 DEF CallbackReturn
  <2> QED BY <2>1, <2>2
<1>4. ASSUME NEW d \in PostDeadlines, CallbackPost(w, d)  PROVE TypeOK'
  BY <1>4 DEF CallbackPost, PushFront, OwesSignal
<1> QED BY <1>1, <1>2, <1>3, <1>4 DEF CallbackStep

\* So does the scheduling, where a task moves between the queues.
LEMMA SchedTypes ==
  ASSUME TypeOK, HandsAreFull, NEW w \in Workers, SchedStep(w) \/ SchedTimeout(w)
  PROVE  TypeOK'
<1> USE SchedulerAssumption
        DEF TypeOK, HandsAreFull, Set, WorkerGoto, ClientGoto, ControllerGoto,
            WorkerPCs, SchedPCs, ControllerPCs, LockPCs, taskVars, queueVars,
            mutexVars, timeVars, schedVars, workerVars, clientVars,
            controllerVars
<1>1. CASE SchedTryLock(w)
  <2>1. CASE owner = NoThread
    <3>1. /\ owner' = w /\ late' = {} /\ schedBatch' = 0
          /\ wpc' = [wpc EXCEPT ![w] = "sched_waiting"]
      BY <1>1, <2>1 DEF SchedTryLock, MutexFree
    <3> QED BY <1>1, <3>1 DEF SchedTryLock, MutexFree
  <2>2. CASE owner # NoThread
    <3>1. /\ UNCHANGED <<owner, late, schedBatch>>
          /\ wpc' = [wpc EXCEPT ![w] = "pop"]
      BY <1>1, <2>2 DEF SchedTryLock, MutexFree
    <3> QED BY <1>1, <3>1 DEF SchedTryLock, MutexFree
  <2> QED BY <2>1, <2>2
<1>2. CASE SchedExpire(w)
  <2>1. PICK t \in heap :
           /\ heap' = heap \ {t}
           /\ isExpired' = Set(isExpired, t, TRUE)
           /\ IF status[t] = "WAITING"
              THEN /\ status' = Set(status, t, "READY")
                   /\ ready' = Append(ready, t)
              ELSE UNCHANGED <<status, ready>>
    BY <1>2 DEF SchedExpire
  <2>2. CASE status[t] = "WAITING"
    <3>1. /\ status' = [status EXCEPT ![t] = "READY"]
          /\ ready' = Append(ready, t)
      BY <2>1, <2>2
    <3> QED BY <1>2, <2>1, <3>1 DEF SchedExpire
  <2>3. CASE status[t] # "WAITING"
    BY <1>2, <2>1, <2>3 DEF SchedExpire
  <2> QED BY <2>2, <2>3
<1>3. CASE SchedCollect(w)
  BY <1>3 DEF SchedCollect
<1>4. CASE SchedPark(w)
  BY <1>4 DEF SchedPark, NextPending
<1>5. CASE SchedDispatch(w)
  BY <1>5 DEF SchedDispatch, NextPending
<1>6. CASE SchedPublish(w)
  BY <1>6 DEF SchedPublish
<1>7. CASE SchedDecide(w)
  BY <1>7 DEF SchedDecide
<1>8. CASE SchedReceiveFront(w)
  BY <1>8, ZenonT(60) DEF SchedReceiveFront
<1>9. CASE SchedUnlock(w)
  BY <1>9 DEF SchedUnlock, HandOver
<1>10. CASE SchedSignal(w)
  BY <1>10 DEF SchedSignal
<1>11. CASE SchedTimeout(w)
  BY <1>11 DEF SchedTimeout
<1> QED BY <1>1, <1>2, <1>3, <1>4, <1>5, <1>6, <1>7, <1>8, <1>9, <1>10, <1>11 DEF SchedStep

\* So do the calls of a client: Post, PostWakeup, PostSignal.
LEMMA ClientTypes ==
  ASSUME TypeOK, HandsAreFull, NEW c \in Clients, ClientCall(c) \/ ClientStep(c)
  PROVE  TypeOK'
<1> USE SchedulerAssumption
        DEF TypeOK, HandsAreFull, Set, WorkerGoto, ClientGoto, ControllerGoto,
            WorkerPCs, SchedPCs, ControllerPCs, LockPCs, taskVars, queueVars,
            mutexVars, timeVars, schedVars, workerVars, clientVars,
            controllerVars
<1>1. ASSUME NEW t \in Tasks, NEW d \in PostDeadlines, ClientPost(c, t, d)
      PROVE  TypeOK'
  BY <1>1 DEF ClientPost, PushFront, OwesSignal
<1>2. ASSUME NEW t \in Tasks, ClientWakeup(c, t)  PROVE TypeOK'
  <2>1. CASE status[t] = "WAITING"
    <3>1. /\ pushing' = [pushing EXCEPT ![c] = t]
          /\ cpc' = [cpc EXCEPT ![c] = "push"]
      BY <1>2, <2>1 DEF ClientWakeup, SetAwake
    <3> QED BY <1>2, <3>1 DEF ClientWakeup, SetAwake
  <2>2. CASE status[t] # "WAITING"
    BY <1>2, <2>2 DEF ClientWakeup, SetAwake
  <2> QED BY <2>1, <2>2
<1>3. ASSUME NEW t \in Tasks, ClientSignal(c, t)  PROVE TypeOK'
  <2>1. CASE status[t] = "WAITING"
    <3>1. /\ pushing' = [pushing EXCEPT ![c] = t]
          /\ cpc' = [cpc EXCEPT ![c] = "push"]
      BY <1>3, <2>1 DEF ClientSignal, SetAwake
    <3> QED BY <1>3, <3>1 DEF ClientSignal, SetAwake
  <2>2. CASE status[t] # "WAITING"
    BY <1>3, <2>2 DEF ClientSignal, SetAwake
  <2> QED BY <2>1, <2>2
<1>4. CASE ClientPush(c)
  BY <1>4 DEF ClientPush, PushFront, OwesSignal
<1>5. CASE ClientSend(c)
  BY <1>5 DEF ClientSend
<1> QED BY <1>1, <1>2, <1>3, <1>4, <1>5 DEF ClientCall, ClientStep

\* So do Start(), Stop() and IsEmpty().
LEMMA ControllerTypes ==
  ASSUME TypeOK, HandsAreFull, ControllerCall \/ ControllerStep
  PROVE  TypeOK'
<1> USE SchedulerAssumption
        DEF TypeOK, HandsAreFull, Set, WorkerGoto, ClientGoto, ControllerGoto,
            WorkerPCs, SchedPCs, ControllerPCs, LockPCs, taskVars, queueVars,
            mutexVars, timeVars, schedVars, workerVars, clientVars,
            controllerVars
<1>1. CASE ControllerCall
  BY <1>1 DEF ControllerCall
<1>2. CASE ControllerLock
  BY <1>2 DEF ControllerLock
<1>3. CASE ControllerInterrupt
  BY <1>3 DEF ControllerInterrupt
<1>4. CASE ControllerLocked
  BY <1>4 DEF ControllerLocked, AfterLock
<1>5. CASE StartThreads
  <2>1. ExecBatch * Cardinality(Workers) \in Nat
    BY FS_CardinalityType
  <2> QED BY <1>5, <2>1 DEF StartThreads
<1>6. CASE EmptyVisitFront
  BY <1>6 DEF EmptyVisitFront
<1>7. CASE EmptyVisitReady
  BY <1>7 DEF EmptyVisitReady
<1>8. CASE StopBegin
  BY <1>8 DEF StopBegin
<1>9. CASE StopSignal
  BY <1>9 DEF StopSignal
<1>10. CASE StopJoin
  BY <1>10 DEF StopJoin
<1>11. CASE ControllerUnlock
  BY <1>11 DEF ControllerUnlock, HandOver
<1>12. CASE ControllerSignal
  BY <1>12 DEF ControllerSignal
<1>13. ASSUME NEW w \in Workers, EmptyVisitWorker(w)  PROVE TypeOK'
  BY <1>13 DEF EmptyVisitWorker
<1>14. ASSUME NEW w \in Workers, StopThread(w)  PROVE TypeOK'
  BY <1>14 DEF StopThread
<1> QED BY <1>1, <1>2, <1>3, <1>4, <1>5, <1>6, <1>7, <1>8, <1>9, <1>10, <1>11, <1>12, <1>13, <1>14 DEF ControllerStep

-----------------------------------------------------------------------------
(* Roles: the scheduler's, and who owes an announcement.                    *)

RolesOK == HandsAreFull /\ OneScheduler /\ NothingUnannounced

\* What the steps below need of the types.
LEMMA Functions ==
  TypeOK => /\ wpc \in [Workers -> WorkerPCs]
            /\ current \in [Workers -> Tasks \cup {NoTask}]
            /\ cpc \in [Clients -> {"outside", "push", "send"}]
            /\ pushing \in [Clients -> Tasks \cup {NoTask}]
            /\ front \in Seq(Tasks) /\ readyQueue \in Seq(Tasks)
            /\ waiting \in BOOLEAN /\ signalFront \in BOOLEAN
  BY DEF TypeOK

\* No worker has begun: nobody schedules and nothing is announced.
LEMMA InitRoles == Init => RolesOK
  BY SchedulerAssumption
     DEF Init, RolesOK, HandsAreFull, OneScheduler, NothingUnannounced,
         SchedPCsAfterCollect, SchedPCs, LockPCs

\* A worker takes the scheduling from nobody else, and leaves no front unannounced.
LEMMA WorkerRoles ==
  ASSUME IInv, NEW w \in Workers, WorkerStep(w)
  PROVE  RolesOK'
<1> USE SchedulerAssumption, Functions
        DEF IInv, RolesOK, HandsAreFull, OneScheduler, NothingUnannounced,
            FrontAnnounced, SchedPCsAfterCollect, Set, WorkerGoto, ClientGoto,
            ControllerGoto, SchedPCs, LockPCs, queueVars, mutexVars, workerVars,
            clientVars, controllerVars
<1>1. CASE WorkerLoop(w)
  BY <1>1 DEF WorkerLoop
<1>2. CASE WorkerExit(w)
  BY <1>2 DEF WorkerExit
<1>3. CASE WorkerPop(w)
  <2>1. CASE readyQueue = <<>>
    <3>1. wpc' = [wpc EXCEPT ![w] = "idle"] /\ UNCHANGED current
      BY <1>3, <2>1 DEF WorkerPop
    <3> QED BY <1>3, <3>1 DEF WorkerPop
  <2>2. CASE readyQueue # <<>>
    <3>1. /\ wpc' = [wpc EXCEPT ![w] = "popped"]
          /\ current' = [current EXCEPT ![w] = Head(readyQueue)]
      BY <1>3, <2>2 DEF WorkerPop
    <3>2. Head(readyQueue) \in Tasks
      BY <2>2
    <3> QED BY <1>3, <3>1, <3>2 DEF WorkerPop
  <2> QED BY <2>1, <2>2
<1>4. CASE WorkerExecute(w)
  BY <1>4 DEF WorkerExecute
<1>5. CASE WorkerIdle(w)
  BY <1>5 DEF WorkerIdle
<1>6. CASE WorkerWaitReady(w)
  BY <1>6 DEF WorkerWaitReady
<1> QED BY <1>1, <1>2, <1>3, <1>4, <1>5, <1>6 DEF WorkerStep

\* The callback's posts are announced by the worker that runs it.
LEMMA CallbackRoles ==
  ASSUME IInv, NEW w \in Workers, CallbackStep(w)
  PROVE  RolesOK'
<1> USE SchedulerAssumption, Functions
        DEF IInv, RolesOK, HandsAreFull, OneScheduler, NothingUnannounced,
            FrontAnnounced, SchedPCsAfterCollect, Set, WorkerGoto, ClientGoto,
            ControllerGoto, SchedPCs, LockPCs, queueVars, mutexVars, workerVars,
            clientVars, controllerVars
<1>1. CASE CallbackReceiveSignal(w)
  BY <1>1 DEF CallbackReceiveSignal
<1>2. CASE CallbackSend(w)
  BY <1>2 DEF CallbackSend
<1>3. CASE CallbackReturn(w)
  BY <1>3 DEF CallbackReturn
<1>4. ASSUME NEW d \in PostDeadlines, CallbackPost(w, d)  PROVE RolesOK'
  BY <1>4 DEF CallbackPost, PushFront, OwesSignal
<1> QED BY <1>1, <1>2, <1>3, <1>4 DEF CallbackStep

\* The scheduling worker stays the only one until it unlocks.
LEMMA SchedRoles ==
  ASSUME IInv, NEW w \in Workers, SchedStep(w) \/ SchedTimeout(w)
  PROVE  RolesOK'
<1> USE SchedulerAssumption, Functions
        DEF IInv, RolesOK, HandsAreFull, OneScheduler, NothingUnannounced,
            FrontAnnounced, SchedPCsAfterCollect, Set, WorkerGoto, ClientGoto,
            ControllerGoto, SchedPCs, LockPCs, queueVars, mutexVars, workerVars,
            clientVars, controllerVars
<1>1. CASE SchedTryLock(w)
  BY <1>1 DEF SchedTryLock, MutexFree
<1>2. CASE SchedExpire(w)
  BY <1>2 DEF SchedExpire
<1>3. CASE SchedCollect(w)
  BY <1>3 DEF SchedCollect
<1>4. CASE SchedPark(w)
  BY <1>4 DEF SchedPark, NextPending
<1>5. CASE SchedDispatch(w)
  BY <1>5 DEF SchedDispatch, NextPending
<1>6. CASE SchedPublish(w)
  BY <1>6 DEF SchedPublish
<1>7. CASE SchedDecide(w)
  <2>1. PICK l \in {"sched_unlock", "sched_sleep", "sched_sleep_timed"} :
           /\ wpc' = [wpc EXCEPT ![w] = l]
           /\ l # "sched_unlock" => pending = <<>>
    <3>1. CASE ~NothingToDo
      BY <1>7, <3>1 DEF SchedDecide
    <3>2. CASE NothingToDo /\ heap = {}
      BY <1>7, <3>2 DEF SchedDecide, NothingToDo
    <3>3. CASE NothingToDo /\ heap # {}
      BY <1>7, <3>3 DEF SchedDecide, NothingToDo
    <3> QED BY <3>1, <3>2, <3>3
  <2> QED BY <1>7, <2>1 DEF SchedDecide
<1>8. CASE SchedReceiveFront(w)
  BY <1>8 DEF SchedReceiveFront
<1>9. CASE SchedUnlock(w)
  BY <1>9 DEF SchedUnlock, HandOver
<1>10. CASE SchedSignal(w)
  BY <1>10 DEF SchedSignal
<1>11. CASE SchedTimeout(w)
  BY <1>11 DEF SchedTimeout
<1> QED BY <1>1, <1>2, <1>3, <1>4, <1>5, <1>6, <1>7, <1>8, <1>9, <1>10, <1>11 DEF SchedStep

\* The client that makes the front non-empty signals it next.
LEMMA ClientRoles ==
  ASSUME IInv, NEW c \in Clients, ClientCall(c) \/ ClientStep(c)
  PROVE  RolesOK'
<1> USE SchedulerAssumption, Functions
        DEF IInv, RolesOK, HandsAreFull, OneScheduler, NothingUnannounced,
            FrontAnnounced, SchedPCsAfterCollect, Set, WorkerGoto, ClientGoto,
            ControllerGoto, SchedPCs, LockPCs, queueVars, mutexVars, workerVars,
            clientVars, controllerVars
<1>1. ASSUME NEW t \in Tasks, NEW d \in PostDeadlines, ClientPost(c, t, d)
      PROVE  RolesOK'
  BY <1>1 DEF ClientPost, PushFront, OwesSignal
<1>2. ASSUME NEW t \in Tasks, ClientWakeup(c, t)  PROVE RolesOK'
  BY <1>2 DEF ClientWakeup, SetAwake
<1>3. ASSUME NEW t \in Tasks, ClientSignal(c, t)  PROVE RolesOK'
  BY <1>3 DEF ClientSignal, SetAwake
<1>4. CASE ClientPush(c)
  BY <1>4 DEF ClientPush, PushFront, OwesSignal
<1>5. CASE ClientSend(c)
  BY <1>5 DEF ClientSend
<1> QED BY <1>1, <1>2, <1>3, <1>4, <1>5 DEF ClientCall, ClientStep

\* The controller owns the scheduler's mutex only between its lock and its unlock.
LEMMA ControllerRoles ==
  ASSUME IInv, ControllerCall \/ ControllerStep
  PROVE  RolesOK'
<1> USE SchedulerAssumption, Functions
        DEF IInv, RolesOK, HandsAreFull, OneScheduler, NothingUnannounced,
            FrontAnnounced, SchedPCsAfterCollect, Set, WorkerGoto, ClientGoto,
            ControllerGoto, SchedPCs, LockPCs, queueVars, mutexVars, workerVars,
            clientVars, controllerVars
<1>1. CASE ControllerCall
  BY <1>1 DEF ControllerCall
<1>2. CASE ControllerLock
  BY <1>2 DEF ControllerLock
<1>3. CASE ControllerInterrupt
  BY <1>3 DEF ControllerInterrupt
<1>4. CASE ControllerLocked
  BY <1>4 DEF ControllerLocked, AfterLock
<1>5. CASE StartThreads
  BY <1>5 DEF StartThreads
<1>6. CASE EmptyVisitFront
  BY <1>6 DEF EmptyVisitFront
<1>7. CASE EmptyVisitReady
  BY <1>7 DEF EmptyVisitReady
<1>8. CASE StopBegin
  BY <1>8 DEF StopBegin
<1>9. CASE StopSignal
  BY <1>9 DEF StopSignal
<1>10. CASE StopJoin
  BY <1>10 DEF StopJoin
<1>11. CASE ControllerUnlock
  BY <1>11 DEF ControllerUnlock, HandOver
<1>12. CASE ControllerSignal
  BY <1>12 DEF ControllerSignal
<1>13. ASSUME NEW w \in Workers, EmptyVisitWorker(w)  PROVE RolesOK'
  BY <1>13 DEF EmptyVisitWorker
<1>14. ASSUME NEW w \in Workers, StopThread(w)  PROVE RolesOK'
  BY <1>14 DEF StopThread
<1> QED BY <1>1, <1>2, <1>3, <1>4, <1>5, <1>6, <1>7, <1>8, <1>9, <1>10, <1>11, <1>12, <1>13, <1>14 DEF ControllerStep

-----------------------------------------------------------------------------
\* The initial state satisfies the invariant.
LEMMA InitInvariant == Init => IInv
  BY InitTypes, InitRoles DEF IInv, RolesOK

\* A deadline that passes changes nothing else.
LEMMA DeadlinePreserves ==
  ASSUME IInv, NEW t \in Tasks, DeadlinePasses(t)
  PROVE  IInv'
<1> USE DEF DeadlinePasses, queueVars, mutexVars, schedVars, workerVars,
            clientVars, controllerVars
<1>1. TypeOK'
  BY DEF IInv, TypeOK, Passed, Set
<1>2. HandsAreFull' /\ OneScheduler'
  BY DEF IInv, HandsAreFull, OneScheduler
<1>3. NothingUnannounced'
  BY DEF IInv, NothingUnannounced, FrontAnnounced
<1> QED BY <1>1, <1>2, <1>3 DEF IInv

\* A stutter changes nothing.
LEMMA StutterPreserves == IInv /\ UNCHANGED vars => IInv'
<1> SUFFICES ASSUME IInv, UNCHANGED vars  PROVE IInv'
  OBVIOUS
<1> USE DEF vars, taskVars, queueVars, mutexVars, timeVars, schedVars,
            workerVars, clientVars, controllerVars
<1>1. TypeOK'
  BY DEF IInv, TypeOK
<1>2. HandsAreFull' /\ OneScheduler'
  BY DEF IInv, HandsAreFull, OneScheduler
<1>3. NothingUnannounced'
  BY DEF IInv, NothingUnannounced, FrontAnnounced
<1> QED BY <1>1, <1>2, <1>3 DEF IInv

\* Every step preserves the invariant, by the actor that takes it.
LEMMA StepPreserves == IInv /\ [Next]_vars => IInv'
<1> SUFFICES ASSUME IInv, [Next]_vars  PROVE IInv'
  OBVIOUS
<1> USE DEF IInv, RolesOK
<1>1. ASSUME NEW t \in Tasks, DeadlinePasses(t)  PROVE IInv'
  BY <1>1, DeadlinePreserves
<1>2. ASSUME NEW c \in Clients, ClientCall(c) \/ ClientStep(c)  PROVE IInv'
  BY <1>2, ClientTypes, ClientRoles
<1>3. ASSUME NEW w \in Workers, WorkerStep(w)  PROVE IInv'
  BY <1>3, WorkerTypes, WorkerRoles
<1>4. ASSUME NEW w \in Workers, CallbackStep(w)  PROVE IInv'
  BY <1>4, CallbackTypes, CallbackRoles
<1>5. ASSUME NEW w \in Workers, SchedStep(w) \/ SchedTimeout(w)  PROVE IInv'
  BY <1>5, SchedTypes, SchedRoles
<1>6. CASE ControllerCall \/ ControllerStep
  BY <1>6, ControllerTypes, ControllerRoles
<1>7. CASE UNCHANGED vars
  BY <1>7, StutterPreserves
<1> QED BY <1>1, <1>2, <1>3, <1>4, <1>5, <1>6, <1>7 DEF Next

\* The strengthened invariant, which the others follow from.
THEOREM Invariance == Spec => []IInv
<1> QED BY InitInvariant, StepPreserves, PTL DEF Spec

\* Queues, roles and places in the code stay in their ranges.
THEOREM TypeCorrect == Spec => []TypeOK
<1>1. IInv => TypeOK
  BY DEF IInv
<1> QED BY <1>1, Invariance, PTL

\* mySchedulerMutex admits one thread to PrivSchedule(), Start(), IsEmpty() and
\* Stop(), through its hand-overs too.
THEOREM SchedulerIsUnique == Spec => []OneScheduler
<1>1. IInv => OneScheduler
  BY DEF IInv
<1> QED BY <1>1, Invariance, PTL

\* The sched-thread is never asleep on a task in the front queue, or on a caller
\* that waits for the mutex, without a signal that is there or on the way: one
\* push in many, the one to an empty queue, is enough to send it.
THEOREM SleeperWakes == Spec => []SleeperIsCalled
<1>1. IInv => SleeperIsCalled
  BY DEF IInv, SleeperIsCalled, NothingUnannounced, FrontAnnounced,
         SchedPCsAfterCollect, SchedPCs
<1> QED BY <1>1, Invariance, PTL

-----------------------------------------------------------------------------
(* The ready-signal.                                                        *)

\* Who will try to schedule, schedules, or has the ready-signal yet to send.
SchedulesSoon(w) == wpc[w] \in SchedPCs \cup {"loop", "try_lock", "sched_signal"}

\* While the scheduler runs there is one who does, or the signal that makes one
\* do so is there, or a caller is inside who sends it when it leaves.
DutyIsTaken == started => \/ signalReady \/ kpc # "outside"
                          \/ \E w \in Workers : SchedulesSoon(w)

\* A worker hands the duty on before it waits: to the signal, to the owner of the
\* mutex it has not got, or to nobody because it keeps it.
LEMMA WorkerTakesDuty ==
  ASSUME IInv, DutyIsTaken, NEW w \in Workers,
         WorkerStep(w) \/ CallbackStep(w) \/ SchedStep(w) \/ SchedTimeout(w)
  PROVE  DutyIsTaken'
<1>0. wpc \in [Workers -> WorkerPCs] /\ OneScheduler
  BY DEF IInv, TypeOK
<1> USE DEF Set, WorkerGoto, SchedPCs
<1>1. CASE /\ UNCHANGED <<started, kpc>>
           /\ signalReady' = signalReady
           /\ \A v \in Workers : v # w => wpc'[v] = wpc[v]
           /\ SchedulesSoon(w) => SchedulesSoon(w)'
  BY <1>1 DEF DutyIsTaken, SchedulesSoon
<1>2. CASE UNCHANGED <<started, kpc>> /\ signalReady'
  BY <1>2 DEF DutyIsTaken
<1>3. CASE WorkerStep(w)
  <2>1. CASE WorkerExit(w)
    BY <1>2, <2>1 DEF WorkerExit, controllerVars
  <2>2. CASE WorkerWaitReady(w)
    BY <1>0, <2>2 DEF WorkerWaitReady, DutyIsTaken, SchedulesSoon
  <2>3. CASE WorkerLoop(w)
    BY <1>0, <1>1, <2>3 DEF WorkerLoop, SchedulesSoon, controllerVars
  <2>4. CASE WorkerPop(w)
    <3>1. PICK l \in {"idle", "popped"} : wpc' = [wpc EXCEPT ![w] = l]
      BY <2>4 DEF WorkerPop
    <3> QED BY <1>0, <1>1, <2>4, <3>1 DEF WorkerPop, SchedulesSoon, controllerVars
  <2>5. CASE WorkerExecute(w) \/ WorkerIdle(w)
    BY <1>0, <1>1, <2>5
       DEF WorkerExecute, WorkerIdle, SchedulesSoon, controllerVars
  <2> QED BY <1>3, <2>1, <2>2, <2>3, <2>4, <2>5 DEF WorkerStep
<1>4. CASE CallbackStep(w)
  <2>1. CASE CallbackReceiveSignal(w) \/ CallbackSend(w)
    BY <1>0, <1>1, <2>1
       DEF CallbackReceiveSignal, CallbackSend, SchedulesSoon, controllerVars,
           workerVars
  <2>2. ASSUME NEW d \in PostDeadlines, CallbackPost(w, d)  PROVE DutyIsTaken'
    <3>1. PICK l \in {"callback", "callback_send"} : wpc' = [wpc EXCEPT ![w] = l]
      BY <2>2 DEF CallbackPost
    <3> QED BY <1>0, <1>1, <2>2, <3>1
            DEF CallbackPost, SchedulesSoon, controllerVars
  <2>3. CASE CallbackReturn(w)
    <3>1. PICK l \in {"pop", "try_lock"} : wpc' = [wpc EXCEPT ![w] = l]
      BY <2>3 DEF CallbackReturn
    <3> QED BY <1>0, <1>1, <2>3, <3>1
            DEF CallbackReturn, SchedulesSoon, controllerVars
  <2> QED BY <1>4, <2>1, <2>2, <2>3 DEF CallbackStep
<1>5. CASE SchedTryLock(w)
  <2>1. CASE owner = NoThread
    BY <1>0, <1>1, <1>5, <2>1
       DEF SchedTryLock, MutexFree, SchedulesSoon, controllerVars
  <2>2. CASE owner = Controller
    BY <1>0, <1>5, <2>2 DEF SchedTryLock, OneScheduler, DutyIsTaken, controllerVars
  <2>3. CASE owner \in Workers
    <3>1. PICK v \in Workers : v = owner
      BY <2>3
    <3>2. wpc[v] \in SchedPCs /\ wpc[w] = "try_lock" /\ owner # NoThread
      BY <1>0, <1>5, <3>1, SchedulerAssumption DEF SchedTryLock, OneScheduler
    <3>3. wpc' = [wpc EXCEPT ![w] = "pop"]
      BY <1>5, <3>2 DEF SchedTryLock, MutexFree
    <3>4. wpc'[v] = wpc[v]
      BY <1>0, <3>2, <3>3
    <3> QED BY <3>2, <3>4 DEF DutyIsTaken, SchedulesSoon
  <2> QED BY <2>1, <2>2, <2>3 DEF IInv, TypeOK
<1>6. CASE SchedSignal(w)
  BY <1>2, <1>6 DEF SchedSignal, controllerVars
<1>7. CASE (SchedStep(w) \/ SchedTimeout(w)) /\ ~SchedTryLock(w) /\ ~SchedSignal(w)
  <2>1. wpc[w] \in SchedPCs /\ UNCHANGED <<started, kpc, signalReady>>
    BY <1>7 DEF SchedStep, SchedExpire, SchedCollect, SchedPark, SchedDispatch,
                NextPending, SchedPublish, SchedDecide, SchedReceiveFront,
                SchedUnlock, SchedTimeout, controllerVars
  <2>2. CASE \/ SchedExpire(w) \/ SchedPark(w) \/ SchedDispatch(w)
             \/ SchedPublish(w)
    BY <1>1, <2>1, <2>2
       DEF SchedExpire, SchedPark, SchedDispatch, NextPending, SchedPublish,
           SchedulesSoon, workerVars
  <2>3. CASE SchedDecide(w)
    <3>1. PICK l \in {"sched_unlock", "sched_sleep", "sched_sleep_timed"} :
             wpc' = [wpc EXCEPT ![w] = l]
      <4>1. CASE ~NothingToDo
        BY <2>3, <4>1 DEF SchedDecide
      <4>2. CASE NothingToDo /\ heap = {}
        BY <2>3, <4>2 DEF SchedDecide
      <4>3. CASE NothingToDo /\ heap # {}
        BY <2>3, <4>3 DEF SchedDecide
      <4> QED BY <4>1, <4>2, <4>3
    <3> QED BY <1>0, <1>1, <2>1, <3>1 DEF SchedulesSoon
  <2>4. CASE \/ SchedCollect(w) \/ SchedReceiveFront(w) \/ SchedUnlock(w)
             \/ SchedTimeout(w)
    BY <1>0, <1>1, <2>1, <2>4
       DEF SchedCollect, SchedReceiveFront, SchedUnlock, SchedTimeout,
           SchedulesSoon
  <2> QED BY <1>7, <2>2, <2>3, <2>4 DEF SchedStep
<1> QED BY <1>3, <1>4, <1>5, <1>6, <1>7

\* A caller takes the duty over when it enters and signals when it leaves.
LEMMA StepTakesDuty == IInv /\ DutyIsTaken /\ [Next]_vars => DutyIsTaken'
<1> SUFFICES ASSUME IInv, DutyIsTaken, [Next]_vars  PROVE DutyIsTaken'
  OBVIOUS
<1> USE DEF DutyIsTaken, SchedulesSoon
<1>1. ASSUME NEW t \in Tasks, DeadlinePasses(t)  PROVE DutyIsTaken'
  BY <1>1 DEF DeadlinePasses, workerVars, controllerVars
<1>2. ASSUME NEW c \in Clients, ClientCall(c) \/ ClientStep(c)  PROVE DutyIsTaken'
  <2>1. UNCHANGED <<started, kpc, signalReady, wpc>>
    BY <1>2 DEF ClientCall, ClientStep, ClientPost, ClientWakeup, ClientSignal,
                SetAwake, ClientPush, ClientSend, workerVars, controllerVars
  <2> QED BY <2>1
<1>3. ASSUME NEW w \in Workers,
             WorkerStep(w) \/ CallbackStep(w) \/ SchedStep(w) \/ SchedTimeout(w)
      PROVE  DutyIsTaken'
  BY <1>3, WorkerTakesDuty
<1>4. CASE ControllerSignal
  BY <1>4 DEF ControllerSignal
<1>5. CASE ControllerCall
  BY <1>5 DEF ControllerCall, ControllerGoto
<1>6. CASE ControllerStep /\ ~ControllerSignal
  <2> USE DEF IInv, TypeOK, ControllerPCs, LockPCs, ControllerGoto
  <2>1. CASE ControllerLock \/ ControllerInterrupt
    BY <2>1 DEF ControllerLock, ControllerInterrupt, controllerVars
  <2>2. CASE ControllerLocked
    <3>1. kpc' \in {"start", "empty_workers", "stop"}
      <4>1. kpc \in LockPCs /\ kpc' = AfterLock(kpc)
        BY <2>2 DEF ControllerLocked
      <4>2. CASE kpc = "start_lock"
        BY <4>1, <4>2 DEF AfterLock
      <4>3. CASE kpc = "empty_lock"
        BY <4>1, <4>3 DEF AfterLock
      <4>4. CASE kpc = "stop_lock"
        BY <4>1, <4>4 DEF AfterLock
      <4> QED BY <4>1, <4>2, <4>3, <4>4
    <3> QED BY <3>1
  <2>3. CASE \/ StartThreads \/ EmptyVisitFront \/ EmptyVisitReady
             \/ StopBegin \/ StopSignal \/ StopJoin \/ ControllerUnlock
    BY <2>3 DEF StartThreads, EmptyVisitFront, EmptyVisitReady, StopBegin,
                StopSignal, StopJoin, ControllerUnlock
  <2>4. CASE \E w \in Workers : EmptyVisitWorker(w) \/ StopThread(w)
    BY <2>4 DEF EmptyVisitWorker, StopThread
  <2> QED BY <1>6, <2>1, <2>2, <2>3, <2>4 DEF ControllerStep
<1>7. CASE UNCHANGED vars
  BY <1>7 DEF vars, workerVars, controllerVars
<1> QED BY <1>1, <1>2, <1>3, <1>4, <1>5, <1>6, <1>7 DEF Next

\* "If the signal would not be emitted here, all the workers could block on ready
\* tasks in their loops": they never all do with nobody left to signal them.
THEOREM SignalIsPassedOn == Spec => []SomebodySchedules
<1>1. Init => DutyIsTaken
  BY DEF Init, DutyIsTaken
<1>2. IInv /\ DutyIsTaken => SomebodySchedules
  <2> SUFFICES ASSUME IInv, DutyIsTaken, started, ~signalReady, kpc = "outside"
               PROVE  \E w \in Workers : wpc[w] # "wait_ready"
    BY DEF SomebodySchedules, IInv, TypeOK
  <2> QED BY DEF DutyIsTaken, SchedulesSoon, SchedPCs
<1> QED BY <1>1, <1>2, StepTakesDuty, Invariance, PTL DEF Spec

-----------------------------------------------------------------------------
(* Sequences without repetition.                                            *)

\* No element stands in two places of the sequence.
Distinct(s) == \A i, j \in DOMAIN s : s[i] = s[j] => i = j

\* Appending a list of tasks to another, as PopAll() does, loses none of them.
LEMMA InConcat ==
  ASSUME NEW S, NEW s \in Seq(S), NEW u \in Seq(S)
  PROVE  In(s \o u) = In(s) \cup In(u)
<1>1. In(s \o u) \subseteq In(s) \cup In(u)
  BY ConcatProperties, LenProperties DEF In
<1>2. In(s) \subseteq In(s \o u)
  BY ConcatProperties, LenProperties DEF In
<1>3. ASSUME NEW x \in In(u)  PROVE x \in In(s \o u)
  <2>1. PICK j \in DOMAIN u : x = u[j]
    BY DEF In
  <2>2. /\ Len(s) + j \in DOMAIN (s \o u)
        /\ (s \o u)[Len(s) + j] = u[j]
    BY ConcatProperties, LenProperties
  <2> QED BY <2>1, <2>2 DEF In
<1> QED BY <1>1, <1>2, <1>3

\* Lists of one element and of none.
LEMMA InOne == ASSUME NEW x  PROVE In(<<x>>) = {x} /\ Distinct(<<x>>)
  BY DEF In, Distinct

\* The empty list holds nothing.
LEMMA InEmpty == In(<<>>) = {} /\ Distinct(<<>>)
  BY DEF In, Distinct

\* Two lists together repeat nothing if neither does and they share nothing.
LEMMA DistinctConcat ==
  ASSUME NEW S, NEW s \in Seq(S), NEW u \in Seq(S)
  PROVE  Distinct(s \o u)
            <=> Distinct(s) /\ Distinct(u) /\ In(s) \cap In(u) = {}
<1> DEFINE c == s \o u
<1>1. /\ c \in Seq(S) /\ Len(c) = Len(s) + Len(u)
      /\ Len(s) \in Nat /\ Len(u) \in Nat
      /\ DOMAIN s = 1 .. Len(s) /\ DOMAIN u = 1 .. Len(u)
      /\ DOMAIN c = 1 .. (Len(s) + Len(u))
  BY ConcatProperties, LenProperties
<1>2. /\ \A i \in DOMAIN s : i \in DOMAIN c /\ c[i] = s[i]
      /\ \A j \in DOMAIN u : Len(s) + j \in DOMAIN c /\ c[Len(s) + j] = u[j]
  BY <1>1, ConcatProperties
<1>3. \A k \in DOMAIN c : \/ k \in DOMAIN s
                          \/ k - Len(s) \in DOMAIN u /\ k = Len(s) + (k - Len(s))
  BY <1>1
<1> HIDE DEF c
<1>4. ASSUME Distinct(c)
      PROVE  Distinct(s) /\ Distinct(u) /\ In(s) \cap In(u) = {}
  <2>1. Distinct(s)
    BY <1>2, <1>4 DEF Distinct
  <2>2. Distinct(u)
    BY <1>1, <1>2, <1>4 DEF Distinct
  <2>3. ASSUME NEW i \in DOMAIN s, NEW j \in DOMAIN u, s[i] = u[j]  PROVE FALSE
    <3>1. c[i] = c[Len(s) + j]
      BY <1>2, <2>3
    <3>2. i = Len(s) + j
      BY <1>2, <1>4, <3>1 DEF Distinct
    <3> QED BY <1>1, <3>2
  <2> QED BY <2>1, <2>2, <2>3 DEF In
<1>5. ASSUME Distinct(s), Distinct(u), In(s) \cap In(u) = {}
      PROVE  Distinct(c)
  <2> SUFFICES ASSUME NEW k \in DOMAIN c, NEW l \in DOMAIN c, c[k] = c[l]
               PROVE  k = l
    BY DEF Distinct
  <2>1. CASE k \in DOMAIN s /\ l \in DOMAIN s
    BY <1>2, <1>5, <2>1 DEF Distinct
  <2>2. CASE k \in DOMAIN s /\ l \notin DOMAIN s
    <3>1. s[k] = u[l - Len(s)] /\ l - Len(s) \in DOMAIN u
      BY <1>2, <1>3, <2>2
    <3>2. s[k] \in In(s) /\ u[l - Len(s)] \in In(u)
      BY <2>2, <3>1 DEF In
    <3> QED BY <1>5, <3>1, <3>2
  <2>3. CASE k \notin DOMAIN s /\ l \in DOMAIN s
    <3>1. s[l] = u[k - Len(s)] /\ k - Len(s) \in DOMAIN u
      BY <1>2, <1>3, <2>3
    <3>2. s[l] \in In(s) /\ u[k - Len(s)] \in In(u)
      BY <2>3, <3>1 DEF In
    <3> QED BY <1>5, <3>1, <3>2
  <2>4. CASE k \notin DOMAIN s /\ l \notin DOMAIN s
    <3>1. u[k - Len(s)] = u[l - Len(s)]
      BY <1>2, <1>3, <2>4
    <3>2. k - Len(s) = l - Len(s)
      BY <1>3, <1>5, <2>4, <3>1 DEF Distinct
    <3> QED BY <1>1, <3>2
  <2> QED BY <2>1, <2>2, <2>3, <2>4
<1> QED BY <1>4, <1>5 DEF c

\* Append() to a queue that does not have the element.
LEMMA InAppend ==
  ASSUME NEW S, NEW s \in Seq(S), NEW x \in S
  PROVE  /\ Append(s, x) \in Seq(S)
         /\ In(Append(s, x)) = In(s) \cup {x}
         /\ Distinct(s) /\ x \notin In(s) => Distinct(Append(s, x))
<1> DEFINE u == <<x>>
<1>1. u \in Seq(S) /\ Append(s, x) = s \o u /\ Append(s, x) \in Seq(S)
  BY AppendIsConcat, AppendProperties
<1>2. In(u) = {x} /\ Distinct(u)
  BY InOne
<1> HIDE DEF u
<1>3. /\ In(s \o u) = In(s) \cup In(u)
      /\ Distinct(s \o u) <=> Distinct(s) /\ Distinct(u) /\ In(s) \cap In(u) = {}
  BY <1>1, InConcat, DistinctConcat
<1> QED BY <1>1, <1>2, <1>3, Zenon

\* Pop() takes the first element, which is then no longer in the queue.
LEMMA HeadAndTail ==
  ASSUME NEW S, NEW s \in Seq(S), s # <<>>
  PROVE  /\ Head(s) \in S /\ Tail(s) \in Seq(S)
         /\ s = <<Head(s)>> \o Tail(s)
         /\ In(s) = {Head(s)} \cup In(Tail(s))
         /\ Distinct(s) => Distinct(Tail(s)) /\ Head(s) \notin In(Tail(s))
<1> DEFINE h == <<Head(s)>>  u == Tail(s)
<1>1. Head(s) \in S /\ u \in Seq(S) /\ h \in Seq(S)
  BY HeadTailProperties
<1>2. s = h \o u
  <2>1. h \o u \in Seq(S)
    BY <1>1
  <2> QED BY <1>1, <2>1, HeadTailProperties, ConcatProperties, SeqEqual, LenProperties
<1>3. In(h) = {Head(s)}
  BY InOne
<1> HIDE DEF h, u
<1>4. /\ In(h \o u) = In(h) \cup In(u)
      /\ Distinct(h \o u) <=> Distinct(h) /\ Distinct(u) /\ In(h) \cap In(u) = {}
  BY <1>1, InConcat, DistinctConcat
<1>5. /\ In(s) = {Head(s)} \cup In(u)
      /\ Distinct(s) => Distinct(u) /\ Head(s) \notin In(u)
  BY <1>2, <1>3, <1>4, Zenon
<1> QED BY <1>1, <1>2, <1>5 DEF h, u

\* The elements of a queue of tasks are tasks.
LEMMA InType == ASSUME NEW S, NEW s \in Seq(S)  PROVE In(s) \subseteq S
  BY LenProperties DEF In

-----------------------------------------------------------------------------
(* The inductive invariant.                                                 *)

\* The task is in one of the lists the scheduler serves.
Waits(t) == \/ t \in In(front) \/ t \in In(pending)
            \/ t \in In(ready) \/ t \in In(readyQueue)

\* A worker has popped it and has not left it yet.
InHand(t) == \E w \in Workers : current[w] = t

\* A task is in one list at most, once, or in a hand.  What is in a list is the
\* scheduler's.
OneSlot ==
    /\ Distinct(front) /\ Distinct(pending)
    /\ Distinct(ready) /\ Distinct(readyQueue)
    /\ \A t \in Tasks :
          /\ t \in In(front) => /\ t \notin In(pending) /\ t \notin In(ready)
                                /\ t \notin In(readyQueue)
          /\ t \in In(pending) => t \notin In(ready) /\ t \notin In(readyQueue)
          /\ t \in In(ready) => t \notin In(readyQueue)
          /\ Waits(t) => myScheduler[t] /\ ~InHand(t)

\* No two workers have the same task, and a worker has one only between the pop and
\* the end of the callback.  The task is the scheduler's until it is executed.
OneHand ==
    /\ \A v, w \in Workers : current[v] = current[w] /\ v # w
          => current[v] = NoTask
    /\ \A w \in Workers : current[w] # NoTask =>
          \/ wpc[w] = "popped" /\ myScheduler[current[w]]
          \/ wpc[w] = "callback" /\ ~myScheduler[current[w]]

\* There are threads only between Start() and Stop().
ThreadsRun ==
    /\ ~started => \A w \in Workers : wpc[w] = "none"
    /\ kpc \in {"start_lock", "start"} => ~started

\* Execution takes the deadline away, and only a passed deadline can be one that the
\* sched-thread still takes for ahead.
DeadlinesKept ==
    /\ \A t \in Tasks : ~myScheduler[t] => deadline[t] = "none"
    /\ \A t \in late : deadline[t] = "passed"

\* A client has a task to push only while it is on the way to push it.
DutyInHand == \A c \in Clients : cpc[c] # "push" => pushing[c] = NoTask

TInv == OneSlot /\ OneHand /\ ThreadsRun /\ DeadlinesKept /\ DutyInHand

-----------------------------------------------------------------------------
(* Where the tasks are.                                                     *)

\* The refinement mapping.
where == [t \in Tasks |-> Place(t)]

Bar == INSTANCE TaskLifecycleProofs WITH where <- where

\* Where a task is, place by place.
PlacesAreTrue ==
    /\ where \in [Tasks -> {"outside", "front", "collected", "parked", "ready",
                            "executing"}]
    /\ \A t \in Tasks :
          /\ where[t] = "front" <=> t \in In(front)
          /\ where[t] = "collected" <=> t \in In(pending)
          /\ where[t] = "ready" <=>
                \/ t \in In(ready) \/ t \in In(readyQueue)
                \/ \E w \in Workers : current[w] = t /\ wpc[w] = "popped"
          /\ where[t] = "executing" <=>
                \E w \in Workers : current[w] = t /\ wpc[w] # "popped"
          /\ where[t] = "outside" <=> ~Waits(t) /\ ~InHand(t) /\ ~myScheduler[t]
          /\ where[t] = "parked" <=> ~Waits(t) /\ ~InHand(t) /\ myScheduler[t]

\* The places are what they are named for: under the invariant the cases of Place()
\* exclude each other, so each can be read without the ones before it.
LEMMA PlaceFacts == TypeOK /\ TInv => PlacesAreTrue
<1> SUFFICES ASSUME TypeOK, TInv  PROVE PlacesAreTrue
  OBVIOUS
<1> USE DEF TInv, OneSlot, OneHand, Waits, InHand
<1>0. \A w \in Workers : current[w] \in Tasks => current[w] # NoTask
  BY SchedulerAssumption
<1>1. ASSUME NEW t \in Tasks
      PROVE  /\ t \in In(front) => Place(t) = "front"
             /\ t \in In(pending) => Place(t) = "collected"
             /\ t \in In(ready) \cup In(readyQueue) => Place(t) = "ready"
             /\ \A w \in Workers :
                   current[w] = t => Place(t) = IF wpc[w] = "popped" THEN "ready"
                                                               ELSE "executing"
             /\ ~Waits(t) /\ ~InHand(t)
                   => Place(t) = IF myScheduler[t] THEN "parked" ELSE "outside"
  <2>1. CASE t \in In(front)
    BY <2>1 DEF Place, Executing
  <2>2. CASE t \in In(pending)
    BY <2>2 DEF Place, Executing
  <2>3. CASE t \in In(ready) \cup In(readyQueue)
    BY <2>3 DEF Place, Executing
  <2>4. CASE InHand(t)
    <3>1. PICK w \in Workers : current[w] = t
      BY <2>4
    <3>2. \A v \in Workers : current[v] = t => v = w
      BY <1>0, <3>1
    <3>3. CASE wpc[w] = "popped"
      <4>1. ~Waits(t) /\ myScheduler[t] /\ ~Executing(t)
        BY <1>0, <3>1, <3>2, <3>3 DEF Executing
      <4> QED BY <3>1, <3>2, <3>3, <4>1 DEF Place
    <3>4. CASE wpc[w] # "popped"
      <4>1. ~Waits(t) /\ ~myScheduler[t] /\ Executing(t)
        BY <1>0, <3>1, <3>2, <3>4 DEF Executing
      <4> QED BY <3>1, <3>2, <3>4, <4>1 DEF Place
    <3> QED BY <3>3, <3>4
  <2>5. CASE ~Waits(t) /\ ~InHand(t)
    BY <2>5 DEF Place, Executing
  <2> QED BY <2>1, <2>2, <2>3, <2>4, <2>5
<1>2. \A t \in Tasks : where[t] = Place(t)
  BY DEF where
<1>3. DOMAIN where = Tasks /\ where = [t \in Tasks |-> where[t]]
  BY DEF where
<1>4. \A t \in Tasks : \A v, w \in Workers :
         current[v] = t /\ current[w] = t => v = w
  BY <1>0
<1>5. \A t \in Tasks : Waits(t) => ~InHand(t) /\ myScheduler[t]
  OBVIOUS
<1>6. \A t \in Tasks : where[t] \in {"outside", "front", "collected", "parked",
                                     "ready", "executing"}
  BY <1>1, <1>2
<1>7. \A t \in Tasks :
          /\ where[t] = "front" <=> t \in In(front)
          /\ where[t] = "collected" <=> t \in In(pending)
  BY <1>1, <1>2
<1>8. \A t \in Tasks :
          /\ where[t] = "ready" <=>
                \/ t \in In(ready) \/ t \in In(readyQueue)
                \/ \E w \in Workers : current[w] = t /\ wpc[w] = "popped"
          /\ where[t] = "executing" <=>
                \E w \in Workers : current[w] = t /\ wpc[w] # "popped"
  BY <1>1, <1>2, <1>4, <1>5
<1>9. \A t \in Tasks :
          /\ where[t] = "outside" <=> ~Waits(t) /\ ~InHand(t) /\ ~myScheduler[t]
          /\ where[t] = "parked" <=> ~Waits(t) /\ ~InHand(t) /\ myScheduler[t]
  BY <1>1, <1>2, <1>5
<1> QED BY <1>3, <1>6, <1>7, <1>8, <1>9 DEF PlacesAreTrue

\* The same in the next state.
LEMMA PlaceFactsNext ==
  ASSUME TypeOK', TInv'
  PROVE  PlacesAreTrue'
  BY PlaceFacts, PTL

\* What the journey of the tasks knows of a task that a client has to push, and of
\* one that is WAITING: it is asleep, in no queue and in no hand.  A push to the
\* front queue relies on it.
LEMMA AsleepFacts ==
  ASSUME TypeOK, TInv, Bar!IInv
  PROVE  /\ \A c \in Clients : pushing[c] # NoTask =>
               /\ pushing[c] \in Tasks /\ myScheduler[pushing[c]]
               /\ ~Waits(pushing[c]) /\ ~InHand(pushing[c])
         /\ \A t \in Tasks : status[t] = "WAITING" =>
               myScheduler[t] /\ ~Waits(t) /\ ~InHand(t)
<1>1. PlacesAreTrue
  BY PlaceFacts
<1>2. /\ \A c \in Clients : pushing[c] # NoTask => where[pushing[c]] = "parked"
      /\ \A t \in Tasks : status[t] = "WAITING" => where[t] = "parked"
  BY DEF Bar!IInv, Bar!OneWakerPushes
<1>3. \A c \in Clients : pushing[c] \in Tasks \cup {NoTask}
  BY DEF TypeOK
<1> QED BY <1>1, <1>2, <1>3 DEF PlacesAreTrue

-----------------------------------------------------------------------------
(* Steps that leave every task where it is.                                 *)

\* What such a step leaves alone.
tasksAndQueues == <<status, deadline, isExpired, myScheduler, front, pending,
                    heap, ready, readyQueue, current, pushing>>

\* A worker without a task in hand goes on.
LEMMA QuietStep ==
  ASSUME TypeOK, TInv, UNCHANGED tasksAndQueues,
         NEW w \in Workers, NEW l \in WorkerPCs \ {"popped"}, wpc[w] # "none",
         current[w] = NoTask, wpc' = [wpc EXCEPT ![w] = l],
         UNCHANGED <<cpc, kpc, started>>, late' \subseteq late
  PROVE  TInv' /\ UNCHANGED Bar!vars
<1>1. /\ wpc \in [Workers -> WorkerPCs]
      /\ \A v \in Workers : v # w => wpc'[v] = wpc[v]
  BY DEF TypeOK
<1>2. UNCHANGED <<status, deadline, isExpired, myScheduler, front, pending,
                  heap, ready, readyQueue, current, pushing>>
  BY DEF tasksAndQueues
<1>3. OneSlot'
  BY <1>2 DEF TInv, OneSlot, Waits, InHand
<1>4. OneHand'
  BY <1>1, <1>2 DEF TInv, OneHand
<1>5. ThreadsRun'
  BY <1>1 DEF TInv, ThreadsRun
<1>6. DeadlinesKept' /\ DutyInHand'
  BY <1>2 DEF TInv, DeadlinesKept, DutyInHand
<1>7. \A t \in Tasks, v \in Workers :
        current[v] = t => wpc'[v] = wpc[v]
  BY <1>1, SchedulerAssumption
<1>8. \A t \in Tasks : Place(t)' = Place(t)
  BY <1>2, <1>7 DEF Place, Executing
<1>9. where' = where
  BY <1>8 DEF where
<1> QED BY <1>2, <1>3, <1>4, <1>5, <1>6, <1>9 DEF TInv, Bar!vars

\* So do the clients and the controller, and time.
LEMMA SilentStep ==
  ASSUME TInv, UNCHANGED tasksAndQueues, UNCHANGED <<wpc, late>>,
         ThreadsRun', DutyInHand'
  PROVE  TInv' /\ UNCHANGED Bar!vars
<1>1. UNCHANGED <<status, deadline, isExpired, myScheduler, front, pending,
                  heap, ready, readyQueue, current, pushing, wpc, late>>
  BY DEF tasksAndQueues
<1>2. OneSlot' /\ OneHand' /\ DeadlinesKept'
  BY <1>1 DEF TInv, OneSlot, OneHand, DeadlinesKept, Waits, InHand
<1>3. where' = where
  BY <1>1 DEF where, Place, Executing
<1> QED BY <1>1, <1>2, <1>3 DEF TInv, Bar!vars

-----------------------------------------------------------------------------
(* Steps that move one task.                                                *)

\* Every other task stays where it is.
OthersStay(t) ==
    \A u \in Tasks \ {t} :
        /\ u \in In(front') <=> u \in In(front)
        /\ u \in In(pending') <=> u \in In(pending)
        /\ u \in In(ready') \/ u \in In(readyQueue')
              <=> u \in In(ready) \/ u \in In(readyQueue)
        /\ myScheduler'[u] = myScheduler[u]
        /\ \A w \in Workers :
              /\ current'[w] = u <=> current[w] = u
              /\ current[w] = u => (wpc'[w] = "popped" <=> wpc[w] = "popped")

\* If all tasks but one stay where they are, only its place changes.
LEMMA OneMoves ==
  ASSUME TypeOK, TypeOK', TInv, TInv', NEW t \in Tasks, OthersStay(t)
  PROVE  where' = [where EXCEPT ![t] = where'[t]]
<1>1. PlacesAreTrue /\ PlacesAreTrue'
  BY PlaceFacts, PlaceFactsNext
<1>2. /\ where = [u \in Tasks |-> where[u]] /\ where' = [u \in Tasks |-> where'[u]]
      /\ where \in [Tasks -> {"outside", "front", "collected", "parked", "ready",
                              "executing"}]
  BY <1>1 DEF PlacesAreTrue
<1>3. ASSUME NEW u \in Tasks, u # t  PROVE where'[u] = where[u]
  <2>1. /\ Waits(u)' <=> Waits(u)
        /\ InHand(u)' <=> InHand(u)
        /\ myScheduler'[u] = myScheduler[u]
        /\ u \in In(front') <=> u \in In(front)
        /\ u \in In(pending') <=> u \in In(pending)
        /\ u \in In(ready') \/ u \in In(readyQueue')
              <=> u \in In(ready) \/ u \in In(readyQueue)
        /\ (\E w \in Workers : current'[w] = u /\ wpc'[w] = "popped")
              <=> \E w \in Workers : current[w] = u /\ wpc[w] = "popped"
        /\ (\E w \in Workers : current'[w] = u /\ wpc'[w] # "popped")
              <=> \E w \in Workers : current[w] = u /\ wpc[w] # "popped"
    BY <1>3 DEF OthersStay, Waits, InHand
  <2>2. CASE where[u] = "front"
    BY <1>1, <2>1, <2>2 DEF PlacesAreTrue
  <2>3. CASE where[u] = "collected"
    BY <1>1, <2>1, <2>3 DEF PlacesAreTrue
  <2>4. CASE where[u] = "ready"
    BY <1>1, <2>1, <2>4 DEF PlacesAreTrue
  <2>5. CASE where[u] = "executing"
    BY <1>1, <2>1, <2>5 DEF PlacesAreTrue
  <2>6. CASE where[u] = "outside"
    BY <1>1, <2>1, <2>6 DEF PlacesAreTrue
  <2>7. CASE where[u] = "parked"
    BY <1>1, <2>1, <2>7 DEF PlacesAreTrue
  <2> QED BY <1>2, <2>2, <2>3, <2>4, <2>5, <2>6, <2>7
<1> QED BY <1>2, <1>3

Simulated == TInv' /\ [Bar!Next]_(Bar!vars)

\* WorkerPop(): from the ready queue into a hand is no move, the task stays ready.
LEMMA WorkerPopSimulated ==
  ASSUME TypeOK, TypeOK', TInv, NEW w \in Workers, WorkerPop(w)
  PROVE  Simulated
<1>0. /\ wpc \in [Workers -> WorkerPCs]
      /\ current \in [Workers -> Tasks \cup {NoTask}]
      /\ readyQueue \in Seq(Tasks)
  BY DEF TypeOK
<1>1. wpc[w] = "pop" /\ current[w] = NoTask
  BY DEF WorkerPop, TInv, OneHand
<1>2. CASE readyQueue = <<>>
  <2>1. /\ wpc' = [wpc EXCEPT ![w] = "idle"]
        /\ UNCHANGED tasksAndQueues /\ UNCHANGED <<cpc, kpc, started, late>>
    BY <1>2 DEF WorkerPop, WorkerGoto, Set, tasksAndQueues, taskVars, clientVars,
                timeVars, controllerVars
  <2>2. "idle" \in WorkerPCs \ {"popped"}
    BY DEF WorkerPCs
  <2> QED BY <1>1, <2>1, <2>2, QuietStep DEF Simulated
<1>3. CASE readyQueue # <<>>
  <2> DEFINE t == Head(readyQueue)
  <2>1. /\ wpc' = [wpc EXCEPT ![w] = "popped"]
        /\ current' = [current EXCEPT ![w] = t]
        /\ readyQueue' = Tail(readyQueue)
        /\ UNCHANGED <<status, deadline, isExpired, myScheduler, front, pending,
                       heap, ready, late, pushing, cpc, kpc, started>>
    BY <1>3 DEF WorkerPop, WorkerGoto, Set, taskVars, clientVars, timeVars,
                controllerVars
  <2>2. /\ t \in Tasks
        /\ In(readyQueue) = {t} \cup In(readyQueue')
        /\ Distinct(readyQueue') /\ t \notin In(readyQueue')
    BY <1>0, <1>3, <2>1, HeadAndTail DEF TInv, OneSlot
  <2> HIDE DEF t
  <2>3. ~InHand(t) /\ myScheduler[t]
    BY <2>2 DEF TInv, OneSlot, Waits
  <2>4. /\ \A v \in Workers : current'[v] = IF v = w THEN t ELSE current[v]
        /\ \A v \in Workers : wpc'[v] = IF v = w THEN "popped" ELSE wpc[v]
    BY <1>0, <2>1
  <2>5. OneSlot'
    BY <1>1, <2>1, <2>2, <2>4 DEF TInv, OneSlot, Waits, InHand
  <2>6. OneHand'
    BY <2>1, <2>3, <2>4 DEF TInv, OneHand, InHand
  <2>7. ThreadsRun' /\ DeadlinesKept' /\ DutyInHand'
    BY <1>1, <2>1, <2>4 DEF TInv, ThreadsRun, DeadlinesKept, DutyInHand
  <2>8. TInv'
    BY <2>5, <2>6, <2>7 DEF TInv
  <2>9. OthersStay(t)
    BY <1>1, <2>1, <2>2, <2>4, SchedulerAssumption DEF OthersStay
  <2>10. where[t] = "ready" /\ where'[t] = "ready"
    BY <2>2, <2>4, <2>8, PlaceFacts, PlaceFactsNext DEF PlacesAreTrue
  <2>11. where' = where
    BY <2>2, <2>8, <2>9, <2>10, OneMoves, PlaceFacts DEF PlacesAreTrue
  <2> QED BY <2>1, <2>8, <2>11 DEF Simulated, Bar!vars
<1> QED BY <1>2, <1>3

\* PrivExecute(): the popped task begins to execute.
LEMMA WorkerExecuteSimulated ==
  ASSUME TypeOK, TypeOK', HandsAreFull, TInv, NEW w \in Workers, WorkerExecute(w)
  PROVE  Simulated
<1> DEFINE t == current[w]
<1>0. /\ wpc \in [Workers -> WorkerPCs]
      /\ deadline \in [Tasks -> {"none", "future", "passed", "never"}]
      /\ myScheduler \in [Tasks -> BOOLEAN]
  BY DEF TypeOK
<1>1. wpc[w] = "popped" /\ t \in Tasks
  BY DEF WorkerExecute, HandsAreFull, TypeOK
<1>2. /\ myScheduler' = [myScheduler EXCEPT ![t] = FALSE]
      /\ status' = [status EXCEPT ![t] = ExecutedStatus(status[t])]
      /\ deadline' = [deadline EXCEPT ![t] = "none"]
      /\ late' = late \ {t}
      /\ wpc' = [wpc EXCEPT ![w] = "callback"]
      /\ UNCHANGED <<isExpired, front, pending, heap, ready, readyQueue, current,
                     pushing, cpc, kpc, started>>
  BY DEF WorkerExecute, WorkerGoto, Set, queueVars, clientVars, controllerVars
<1>3. InHand(t) /\ \A v \in Workers : v # w => current[v] # t
  BY <1>1, SchedulerAssumption DEF TInv, OneHand, InHand
<1>4. /\ \A v \in Workers : wpc'[v] = IF v = w THEN "callback" ELSE wpc[v]
      /\ \A u \in Tasks : myScheduler'[u] = IF u = t THEN FALSE ELSE myScheduler[u]
      /\ \A u \in Tasks : deadline'[u] = IF u = t THEN "none" ELSE deadline[u]
  BY <1>0, <1>2
<1>5. OneSlot'
  BY <1>1, <1>2, <1>3, <1>4 DEF TInv, OneSlot, Waits, InHand
<1>6. OneHand'
  BY <1>1, <1>2, <1>3, <1>4 DEF TInv, OneHand, TypeOK
<1>7. ThreadsRun' /\ DeadlinesKept' /\ DutyInHand'
  BY <1>1, <1>2, <1>4 DEF TInv, ThreadsRun, DeadlinesKept, DutyInHand, TypeOK
<1>8. TInv'
  BY <1>5, <1>6, <1>7 DEF TInv
<1>9. OthersStay(t)
  BY <1>2, <1>3, <1>4 DEF OthersStay
<1>10. where[t] = "ready" /\ where'[t] = "executing"
  BY <1>1, <1>2, <1>4, <1>8, PlaceFacts, PlaceFactsNext DEF PlacesAreTrue
<1>11. where' = [where EXCEPT ![t] = "executing"]
  BY <1>1, <1>8, <1>9, <1>10, OneMoves
<1>12. Bar!Execute(t)
  BY <1>1, <1>2, <1>10, <1>11 DEF Bar!Execute, Bar!Set, ExecutedStatus, TypeOK
<1> QED BY <1>1, <1>8, <1>12 DEF Simulated, Bar!Next, Bar!SchedulerStep

\* The other steps of Run() move nothing.
LEMMA WorkerSimulated ==
  ASSUME TypeOK, TypeOK', HandsAreFull, TInv, NEW w \in Workers, WorkerStep(w)
  PROVE  Simulated
<1> USE DEF WorkerGoto, Set, tasksAndQueues, taskVars, queueVars, clientVars,
            timeVars, controllerVars, WorkerPCs, TInv, OneHand
<1>1. CASE WorkerLoop(w)
  BY <1>1, QuietStep DEF WorkerLoop, Simulated
<1>2. CASE WorkerExit(w)
  BY <1>2, QuietStep DEF WorkerExit, Simulated
<1>3. CASE WorkerIdle(w)
  BY <1>3, QuietStep DEF WorkerIdle, Simulated
<1>4. CASE WorkerWaitReady(w)
  BY <1>4, QuietStep DEF WorkerWaitReady, Simulated
<1>5. CASE WorkerPop(w) \/ WorkerExecute(w)
  BY <1>5, WorkerPopSimulated, WorkerExecuteSimulated
<1> QED BY <1>1, <1>2, <1>3, <1>4, <1>5 DEF WorkerStep

\* ReceiveSignal() in a callback.
LEMMA CallbackReceiveSignalSimulated ==
  ASSUME TypeOK, TypeOK', TInv, NEW w \in Workers, CallbackReceiveSignal(w)
  PROVE  Simulated
<1> DEFINE t == current[w]
<1>1. /\ wpc[w] = "callback" /\ t \in Tasks
      /\ status[t] = "SIGNALED"
      /\ status' = [status EXCEPT ![t] = "PENDING"]
  BY DEF CallbackReceiveSignal, Set, TypeOK
<1>2. UNCHANGED <<deadline, isExpired, myScheduler, front, pending, heap, ready,
                  readyQueue, current, wpc, late, pushing, cpc, kpc, started>>
  BY DEF CallbackReceiveSignal, queueVars, workerVars, timeVars, clientVars,
         controllerVars
<1>3. TInv'
  BY <1>2 DEF TInv, OneSlot, OneHand, ThreadsRun, DeadlinesKept, DutyInHand,
              Waits, InHand
<1>4. where[t] = "executing"
  BY <1>1, PlaceFacts DEF PlacesAreTrue
<1>5. where' = where
  BY <1>2 DEF where, Place, Executing
<1>6. Bar!ReceiveSignal(t)
  BY <1>1, <1>2, <1>4, <1>5 DEF Bar!ReceiveSignal, Bar!Set
<1> QED BY <1>1, <1>3, <1>6 DEF Simulated, Bar!Next, Bar!OwnerStep

\* A callback posts its task: it leaves the hand of the worker for the front queue.
LEMMA CallbackPostSimulated ==
  ASSUME TypeOK, TypeOK', TInv, NEW w \in Workers, NEW d \in PostDeadlines,
         CallbackPost(w, d)
  PROVE  Simulated
<1>0. /\ wpc \in [Workers -> WorkerPCs]
      /\ current \in [Workers -> Tasks \cup {NoTask}]
      /\ deadline \in [Tasks -> {"none", "future", "passed", "never"}]
      /\ myScheduler \in [Tasks -> BOOLEAN]
      /\ front \in Seq(Tasks)
  BY DEF TypeOK
<1>1. PICK t \in Tasks : wpc[w] = "callback" /\ current[w] = t /\ t # NoTask
  BY <1>0 DEF CallbackPost
<1>2. PICK l \in {"callback", "callback_send"} : wpc' = [wpc EXCEPT ![w] = l]
  BY DEF CallbackPost, WorkerGoto, Set
<1>3. /\ current' = [current EXCEPT ![w] = NoTask]
      /\ deadline' = [deadline EXCEPT ![t] = d]
      /\ myScheduler' = [myScheduler EXCEPT ![t] = TRUE]
      /\ front' = Append(front, t)
      /\ UNCHANGED <<status, isExpired, pending, heap, ready, readyQueue, late,
                     pushing, cpc, kpc, started>>
  BY <1>1 DEF CallbackPost, PushFront, Set, timeVars, clientVars, controllerVars
<1>4. ~myScheduler[t] /\ ~Waits(t) /\ \A v \in Workers : v # w => current[v] # t
  BY <1>1, SchedulerAssumption DEF TInv, OneHand, OneSlot
<1>5. Distinct(front') /\ In(front') = In(front) \cup {t}
  BY <1>0, <1>1, <1>3, <1>4, InAppend DEF TInv, OneSlot, Waits
<1>6. /\ \A v \in Workers : wpc'[v] = IF v = w THEN l ELSE wpc[v]
      /\ \A v \in Workers : current'[v] = IF v = w THEN NoTask ELSE current[v]
      /\ \A u \in Tasks : myScheduler'[u] = IF u = t THEN TRUE ELSE myScheduler[u]
      /\ \A u \in Tasks : deadline'[u] = IF u = t THEN d ELSE deadline[u]
  BY <1>0, <1>2, <1>3
<1>7. OneSlot'
  <2>1. /\ Distinct(front') /\ Distinct(pending')
        /\ Distinct(ready') /\ Distinct(readyQueue')
    BY <1>3, <1>5 DEF TInv, OneSlot
  <2>2. \A u \in Tasks : Waits(u)' => Waits(u) \/ u = t
    BY <1>3, <1>5 DEF Waits
  <2>3. \A u \in Tasks : InHand(u)' => InHand(u) /\ u # t
    BY <1>4, <1>6, SchedulerAssumption DEF InHand
  <2> QED BY <1>3, <1>4, <1>5, <1>6, <2>1, <2>2, <2>3 DEF TInv, OneSlot, Waits
<1>8. OneHand'
  <2>1. ASSUME NEW v \in Workers, v # w, current[v] # NoTask
        PROVE  /\ wpc'[v] = wpc[v] /\ current'[v] = current[v]
               /\ myScheduler'[current[v]] = myScheduler[current[v]]
    <3>1. current[v] \in Tasks /\ current[v] # t
      BY <1>0, <1>4, <2>1
    <3> QED BY <1>6, <2>1, <3>1
  <2> QED BY <1>6, <2>1 DEF TInv, OneHand
<1>9. ThreadsRun' /\ DeadlinesKept' /\ DutyInHand'
  BY <1>1, <1>3, <1>4, <1>6 DEF TInv, ThreadsRun, DeadlinesKept, DutyInHand, TypeOK
<1>10. TInv'
  BY <1>7, <1>8, <1>9 DEF TInv
<1>11. OthersStay(t)
  BY <1>1, <1>3, <1>4, <1>5, <1>6, SchedulerAssumption DEF OthersStay
<1>12. where[t] = "executing" /\ where'[t] = "front"
  BY <1>1, <1>5, <1>10, PlaceFacts, PlaceFactsNext DEF PlacesAreTrue
<1>13. where' = [where EXCEPT ![t] = "front"]
  BY <1>1, <1>10, <1>11, <1>12, OneMoves
<1>14. d \in {"none", "future", "never"}
  BY SchedulerAssumption
<1>15. Bar!Post(t, d)
  BY <1>3, <1>12, <1>13, <1>14 DEF Bar!Post, Bar!Set
<1> QED BY <1>1, <1>10, <1>14, <1>15
        DEF Simulated, Bar!Next, Bar!OwnerStep, Bar!Deadlines

\* A callback returns.  If it has not posted its task, the task is outside again.
LEMMA CallbackReturnSimulated ==
  ASSUME TypeOK, TypeOK', TInv, NEW w \in Workers, CallbackReturn(w)
  PROVE  Simulated
<1>0. /\ wpc \in [Workers -> WorkerPCs]
      /\ current \in [Workers -> Tasks \cup {NoTask}]
  BY DEF TypeOK
<1>1. wpc[w] = "callback"
  BY DEF CallbackReturn
<1>2. PICK l \in {"pop", "try_lock"} : wpc' = [wpc EXCEPT ![w] = l]
  BY DEF CallbackReturn, WorkerGoto, Set
<1>3. /\ current' = [current EXCEPT ![w] = NoTask]
      /\ UNCHANGED <<status, deadline, isExpired, myScheduler, front, pending,
                     heap, ready, readyQueue, late, pushing, cpc, kpc, started>>
  BY DEF CallbackReturn, Set, taskVars, queueVars, timeVars, clientVars,
         controllerVars
<1>4. CASE current[w] = NoTask
  <2>1. UNCHANGED tasksAndQueues
    BY <1>0, <1>3, <1>4 DEF tasksAndQueues
  <2>2. l \in WorkerPCs \ {"popped"}
    BY DEF WorkerPCs
  <2> QED BY <1>1, <1>2, <1>3, <1>4, <2>1, <2>2, QuietStep DEF Simulated
<1>5. CASE current[w] # NoTask
  <2>1. PICK t \in Tasks :
           /\ current[w] = t /\ ~myScheduler[t] /\ ~Waits(t)
           /\ \A v \in Workers : v # w => current[v] # t
    BY <1>0, <1>1, <1>5 DEF TInv, OneHand, OneSlot
  <2>2. /\ \A v \in Workers : wpc'[v] = IF v = w THEN l ELSE wpc[v]
        /\ \A v \in Workers : current'[v] = IF v = w THEN NoTask ELSE current[v]
    BY <1>0, <1>2, <1>3
  <2>3. OneSlot'
    <3>1. \A u \in Tasks : InHand(u)' => InHand(u)
      BY <2>2, SchedulerAssumption DEF InHand
    <3> QED BY <1>3, <3>1 DEF TInv, OneSlot, Waits
  <2>4. OneHand'
    BY <1>0, <1>3, <2>1, <2>2 DEF TInv, OneHand
  <2>5. ThreadsRun' /\ DeadlinesKept' /\ DutyInHand'
    BY <1>1, <1>3, <2>2 DEF TInv, ThreadsRun, DeadlinesKept, DutyInHand
  <2>6. TInv'
    BY <2>3, <2>4, <2>5 DEF TInv
  <2>7. OthersStay(t)
    BY <1>3, <2>1, <2>2, SchedulerAssumption DEF OthersStay
  <2>8. where[t] = "executing"
    BY <1>1, <2>1, PlaceFacts DEF PlacesAreTrue
  <2>9. ~Waits(t)' /\ ~InHand(t)' /\ ~myScheduler'[t]
    BY <1>3, <2>1, <2>2, SchedulerAssumption DEF Waits, InHand
  <2>10. where'[t] = "outside"
    BY <2>1, <2>6, <2>9, PlaceFactsNext DEF PlacesAreTrue
  <2>11. where' = [where EXCEPT ![t] = "outside"]
    BY <2>1, <2>6, <2>7, <2>10, OneMoves
  <2>12. Bar!Return(t)
    BY <1>3, <2>8, <2>11 DEF Bar!Return, Bar!Set
  <2> QED BY <2>1, <2>6, <2>12 DEF Simulated, Bar!Next, Bar!OwnerStep
<1> QED BY <1>4, <1>5

\* So every step of a callback is simulated.
LEMMA CallbackSimulated ==
  ASSUME TypeOK, TypeOK', TInv, NEW w \in Workers, CallbackStep(w)
  PROVE  Simulated
<1>1. CASE CallbackSend(w)
  BY <1>1, QuietStep
     DEF CallbackSend, Simulated, WorkerGoto, Set, tasksAndQueues, taskVars,
         queueVars, clientVars, timeVars, controllerVars, WorkerPCs, TInv, OneHand
<1> QED BY <1>1, CallbackReceiveSignalSimulated, CallbackPostSimulated,
           CallbackReturnSimulated DEF CallbackStep

\* A deadline passes.
LEMMA DeadlinePassesSimulated ==
  ASSUME TypeOK, TypeOK', TInv, NEW t \in Tasks, DeadlinePasses(t)
  PROVE  Simulated
<1>1. /\ deadline[t] = "future" /\ deadline' = [deadline EXCEPT ![t] = "passed"]
      /\ late' = late \cup {t}
      /\ UNCHANGED <<status, isExpired, myScheduler, front, pending, heap, ready,
                     readyQueue, current, wpc, pushing, cpc, kpc, started>>
  BY DEF DeadlinePasses, Set, queueVars, workerVars, clientVars, controllerVars
<1>2. /\ \A u \in Tasks : deadline'[u] = IF u = t THEN "passed" ELSE deadline[u]
      /\ late \subseteq Tasks
  BY <1>1 DEF TypeOK
<1>3. DeadlinesKept'
  BY <1>1, <1>2 DEF TInv, DeadlinesKept
<1>4. OneSlot' /\ OneHand' /\ ThreadsRun' /\ DutyInHand'
  BY <1>1 DEF TInv, OneSlot, OneHand, ThreadsRun, DutyInHand, Waits, InHand
<1>5. where' = where
  BY <1>1 DEF where, Place, Executing
<1>6. Bar!DeadlinePasses(t)
  BY <1>1, <1>5 DEF Bar!DeadlinePasses, Bar!Set
<1> QED BY <1>3, <1>4, <1>6 DEF Simulated, TInv, Bar!Next

\* Post() of an idle task: nobody has it in hand, and it is in no queue.
LEMMA ClientPostSimulated ==
  ASSUME TypeOK, TypeOK', TInv, NEW c \in Clients, NEW t \in Tasks,
         NEW d \in PostDeadlines, ClientPost(c, t, d)
  PROVE  Simulated
<1>0. /\ deadline \in [Tasks -> {"none", "future", "passed", "never"}]
      /\ myScheduler \in [Tasks -> BOOLEAN]
      /\ front \in Seq(Tasks)
      /\ cpc \in [Clients -> {"outside", "push", "send"}]
  BY DEF TypeOK
<1>1. /\ cpc[c] = "outside" /\ ~myScheduler[t] /\ ~InHand(t)
      /\ deadline' = [deadline EXCEPT ![t] = d]
      /\ myScheduler' = [myScheduler EXCEPT ![t] = TRUE]
      /\ front' = Append(front, t)
      /\ UNCHANGED <<status, isExpired, pending, heap, ready, readyQueue, late,
                     pushing, wpc, current, kpc, started>>
  BY DEF ClientPost, PushFront, Set, timeVars, workerVars, controllerVars, InHand
<1>2. PICK l \in {"send", "outside"} : cpc' = [cpc EXCEPT ![c] = l]
  BY DEF ClientPost, ClientGoto, Set
<1>3. ~Waits(t)
  BY <1>1 DEF TInv, OneSlot
<1>4. Distinct(front') /\ In(front') = In(front) \cup {t}
  BY <1>0, <1>1, <1>3, InAppend DEF TInv, OneSlot, Waits
<1>5. /\ \A u \in Tasks : myScheduler'[u] = IF u = t THEN TRUE ELSE myScheduler[u]
      /\ \A u \in Tasks : deadline'[u] = IF u = t THEN d ELSE deadline[u]
  BY <1>0, <1>1
<1>6. OneSlot'
  BY <1>1, <1>3, <1>4, <1>5 DEF TInv, OneSlot, Waits, InHand
<1>7. OneHand'
  <2>1. ASSUME NEW v \in Workers, current[v] # NoTask
        PROVE  myScheduler'[current[v]] = myScheduler[current[v]]
    <3>1. current[v] \in Tasks /\ current[v] # t
      BY <1>1, <2>1 DEF TypeOK, InHand
    <3> QED BY <1>5, <3>1
  <2> QED BY <1>1, <2>1 DEF TInv, OneHand
<1>8. ThreadsRun' /\ DeadlinesKept' /\ DutyInHand'
  BY <1>0, <1>1, <1>2, <1>5 DEF TInv, ThreadsRun, DeadlinesKept, DutyInHand, TypeOK
<1>9. TInv'
  BY <1>6, <1>7, <1>8 DEF TInv
<1>10. OthersStay(t)
  BY <1>1, <1>4, <1>5 DEF OthersStay
<1>11. where[t] = "outside" /\ where'[t] = "front"
  BY <1>1, <1>3, <1>4, <1>9, PlaceFacts, PlaceFactsNext DEF PlacesAreTrue
<1>12. where' = [where EXCEPT ![t] = "front"]
  BY <1>9, <1>10, <1>11, OneMoves
<1>13. d \in {"none", "future", "never"}
  BY SchedulerAssumption
<1>14. Bar!Post(t, d)
  BY <1>1, <1>11, <1>12, <1>13 DEF Bar!Post, Bar!Set
<1> QED BY <1>9, <1>13, <1>14
        DEF Simulated, Bar!Next, Bar!OwnerStep, Bar!Deadlines

\* PostWakeup() and PostSignal() up to the push.
LEMMA SetAwakeSimulated ==
  ASSUME TypeOK, TypeOK', TInv, NEW c \in Clients, NEW t \in Tasks,
         ClientWakeup(c, t) \/ ClientSignal(c, t)
  PROVE  Simulated
<1>0. /\ cpc \in [Clients -> {"outside", "push", "send"}]
      /\ pushing \in [Clients -> Tasks \cup {NoTask}]
      /\ \A e \in Clients : cpc[e] # "push" => pushing[e] = NoTask
  BY DEF TypeOK, TInv, DutyInHand
<1>1. PICK new \in {"READY", "SIGNALED"} :
         /\ SetAwake(c, t, new)
         /\ new = "READY" => ClientWakeup(c, t)
         /\ new = "SIGNALED" => ClientSignal(c, t)
  BY DEF ClientWakeup, ClientSignal
<1>2. /\ cpc[c] = "outside" /\ pushing[c] = NoTask
      /\ status' = [status EXCEPT ![t] = new]
      /\ UNCHANGED <<deadline, isExpired, myScheduler, front, pending, heap, ready,
                     readyQueue, current, wpc, late, kpc, started>>
  BY <1>0, <1>1 DEF SetAwake, Set, queueVars, workerVars, timeVars, controllerVars
<1>3. /\ DutyInHand'
      /\ pushing' = IF status[t] = "WAITING" THEN [pushing EXCEPT ![c] = t]
                                             ELSE pushing
  <2>1. CASE status[t] = "WAITING"
    <3>1. /\ pushing' = [pushing EXCEPT ![c] = t]
          /\ cpc' = [cpc EXCEPT ![c] = "push"]
      BY <1>1, <2>1 DEF SetAwake, Set, ClientGoto
    <3>2. DutyInHand'
      BY <1>0, <3>1 DEF DutyInHand
    <3> QED BY <2>1, <3>1, <3>2
  <2>2. CASE status[t] # "WAITING"
    BY <1>0, <1>1, <2>2 DEF SetAwake, clientVars, DutyInHand
  <2> QED BY <2>1, <2>2
<1>4. TInv'
  BY <1>2, <1>3 DEF TInv, OneSlot, OneHand, ThreadsRun, DeadlinesKept, Waits,
                    InHand
<1>5. where' = where
  BY <1>2 DEF where, Place, Executing
<1>6. Bar!Wakeup(c, t) \/ Bar!Signal(c, t)
  <2>1. CASE new = "READY"
    BY <1>1, <1>2, <1>3, <1>5, <2>1
       DEF ClientWakeup, Bar!Wakeup, Bar!TakesDuty, Bar!Set
  <2>2. CASE new = "SIGNALED"
    BY <1>1, <1>2, <1>3, <1>5, <2>2 DEF Bar!Signal, Bar!TakesDuty, Bar!Set
  <2> QED BY <2>1, <2>2
<1> QED BY <1>4, <1>6 DEF Simulated, Bar!Next, Bar!ClientStep

\* The push of a task that was WAITING: it is in no queue until then, although its
\* status may have been overwritten by another waker meanwhile.
LEMMA ClientPushSimulated ==
  ASSUME TypeOK, TypeOK', HandsAreFull, TInv, Bar!IInv, NEW c \in Clients,
         ClientPush(c)
  PROVE  Simulated
<1>0. /\ front \in Seq(Tasks)
      /\ cpc \in [Clients -> {"outside", "push", "send"}]
      /\ pushing \in [Clients -> Tasks \cup {NoTask}]
  BY DEF TypeOK
<1>1. cpc[c] = "push" /\ pushing[c] # NoTask
  BY DEF ClientPush, HandsAreFull
<1>2. PICK t \in Tasks :
         /\ pushing[c] = t /\ t # NoTask /\ myScheduler[t]
         /\ ~Waits(t) /\ ~InHand(t)
  BY <1>1, AsleepFacts
<1>3. /\ front' = Append(front, t)
      /\ pushing' = [pushing EXCEPT ![c] = NoTask]
      /\ UNCHANGED <<status, deadline, isExpired, myScheduler, pending, heap,
                     ready, readyQueue, late, wpc, current, kpc, started>>
  BY <1>2 DEF ClientPush, PushFront, Set, taskVars, timeVars, workerVars,
              controllerVars
<1>4. PICK l \in {"send", "outside"} : cpc' = [cpc EXCEPT ![c] = l]
  BY DEF ClientPush, ClientGoto, Set
<1>5. Distinct(front') /\ In(front') = In(front) \cup {t}
  BY <1>0, <1>2, <1>3, InAppend DEF TInv, OneSlot, Waits
<1>6. OneSlot'
  BY <1>2, <1>3, <1>5 DEF TInv, OneSlot, Waits, InHand
<1>7. OneHand' /\ ThreadsRun' /\ DeadlinesKept'
  BY <1>3 DEF TInv, OneHand, ThreadsRun, DeadlinesKept
<1>8. DutyInHand'
  BY <1>0, <1>3, <1>4 DEF TInv, DutyInHand
<1>9. TInv'
  BY <1>6, <1>7, <1>8 DEF TInv
<1>10. OthersStay(t)
  BY <1>3, <1>5 DEF OthersStay
<1>11. where'[t] = "front"
  BY <1>5, <1>9, PlaceFactsNext DEF PlacesAreTrue
<1>12. where' = [where EXCEPT ![t] = "front"]
  BY <1>9, <1>10, <1>11, OneMoves
<1>13. Bar!Push(c)
  BY <1>1, <1>2, <1>3, <1>12 DEF Bar!Push, Bar!Set
<1> QED BY <1>9, <1>13 DEF Simulated, Bar!Next, Bar!ClientStep

\* So every step of a client is simulated.
LEMMA ClientSimulated ==
  ASSUME TypeOK, TypeOK', HandsAreFull, TInv, Bar!IInv, NEW c \in Clients,
         ClientCall(c) \/ ClientStep(c)
  PROVE  Simulated
<1>1. CASE ClientSend(c)
  <2>1. /\ UNCHANGED tasksAndQueues /\ UNCHANGED <<wpc, late, kpc, started>>
        /\ cpc[c] = "send" /\ cpc' = [cpc EXCEPT ![c] = "outside"]
    BY <1>1 DEF ClientSend, ClientGoto, Set, tasksAndQueues, taskVars, queueVars,
                workerVars, timeVars, controllerVars
  <2>2. ThreadsRun' /\ DutyInHand'
    BY <2>1 DEF TInv, ThreadsRun, DutyInHand, TypeOK, tasksAndQueues
  <2> QED BY <2>1, <2>2, SilentStep DEF Simulated
<1> QED BY <1>1, ClientPostSimulated, SetAwakeSimulated, ClientPushSimulated
        DEF ClientCall, ClientStep

\* The loop over the waiting tasks: a task that somebody has woken up just now only
\* leaves the heap.
LEMMA SchedExpireSimulated ==
  ASSUME TypeOK, TypeOK', TInv, Bar!IInv, NEW w \in Workers, SchedExpire(w)
  PROVE  Simulated
<1>1. /\ heap \subseteq Tasks /\ ready \in Seq(Tasks)
  BY DEF TypeOK
<1>2. PICK t \in heap :
         /\ IsTop(t)
         /\ heap' = heap \ {t}
         /\ isExpired' = Set(isExpired, t, TRUE)
         /\ IF status[t] = "WAITING"
            THEN /\ status' = Set(status, t, "READY")
                 /\ ready' = Append(ready, t)
            ELSE UNCHANGED <<status, ready>>
  BY DEF SchedExpire
<1>3. t \in Tasks /\ deadline[t] = "passed"
  BY <1>1, <1>2 DEF IsTop, DueInHeap, Passed
<1>4. /\ isExpired' = [isExpired EXCEPT ![t] = TRUE]
      /\ UNCHANGED <<deadline, myScheduler, front, pending, readyQueue, late,
                     wpc, current, pushing, cpc, kpc, started>>
  BY <1>2 DEF SchedExpire, Set, timeVars, workerVars, clientVars, controllerVars
<1>5. OneHand' /\ ThreadsRun' /\ DeadlinesKept' /\ DutyInHand'
  BY <1>4 DEF TInv, OneHand, ThreadsRun, DeadlinesKept, DutyInHand
<1>6. CASE status[t] = "WAITING"
  <2>1. /\ status' = [status EXCEPT ![t] = "READY"]
        /\ ready' = Append(ready, t)
    BY <1>2, <1>6 DEF Set
  <2>2. myScheduler[t] /\ ~Waits(t) /\ ~InHand(t)
    BY <1>3, <1>6, AsleepFacts
  <2>3. Distinct(ready') /\ In(ready') = In(ready) \cup {t}
    BY <1>1, <1>3, <2>1, <2>2, InAppend DEF TInv, OneSlot, Waits
  <2>4. OneSlot'
    BY <1>4, <2>2, <2>3 DEF TInv, OneSlot, Waits, InHand
  <2>5. TInv'
    BY <1>5, <2>4 DEF TInv
  <2>6. OthersStay(t)
    BY <1>4, <2>3 DEF OthersStay
  <2>7. where'[t] = "ready"
    BY <1>3, <2>3, <2>5, PlaceFactsNext DEF PlacesAreTrue
  <2>8. where' = [where EXCEPT ![t] = "ready"]
    BY <1>3, <2>5, <2>6, <2>7, OneMoves
  <2>9. Bar!Expire(t)
    BY <1>2, <1>3, <1>4, <1>6, <2>1, <2>8 DEF Bar!Expire, Bar!Set
  <2> QED BY <1>3, <2>5, <2>9 DEF Simulated, Bar!Next, Bar!SchedulerStep
<1>7. CASE status[t] # "WAITING"
  <2>1. UNCHANGED <<status, ready>>
    BY <1>2, <1>7
  <2>2. TInv'
    BY <1>4, <1>5, <2>1 DEF TInv, OneSlot, Waits, InHand
  <2>3. where' = where
    BY <1>4, <2>1 DEF where, Place, Executing
  <2>4. Bar!Expire(t)
    BY <1>2, <1>3, <1>4, <1>7, <2>1, <2>3 DEF Bar!Expire, Bar!Set
  <2> QED BY <1>3, <2>2, <2>4 DEF Simulated, Bar!Next, Bar!SchedulerStep
<1> QED BY <1>6, <1>7

\* myQueueFront.PopAll() moves all the tasks of the front queue at once, or none.
LEMMA SchedCollectSimulated ==
  ASSUME TypeOK, TypeOK', TInv, NEW w \in Workers, SchedCollect(w)
  PROVE  Simulated
<1>0. /\ front \in Seq(Tasks) /\ pending \in Seq(Tasks)
      /\ wpc \in [Workers -> WorkerPCs]
  BY DEF TypeOK
<1>1. /\ wpc[w] = "sched_waiting" /\ wpc' = [wpc EXCEPT ![w] = "sched_front"]
      /\ pending' = pending \o front /\ front' = <<>>
      /\ UNCHANGED <<status, deadline, isExpired, myScheduler, heap, ready,
                     readyQueue, late, current, pushing, cpc, kpc, started>>
  BY DEF SchedCollect, WorkerGoto, Set, taskVars, timeVars, clientVars,
         controllerVars
<1>2. In(front) \subseteq Tasks /\ In(pending) \subseteq Tasks
  BY <1>0, InType
<1>3. /\ In(pending') = In(pending) \cup In(front) /\ Distinct(pending')
      /\ In(front') = {} /\ Distinct(front')
  <2>1. In(pending) \cap In(front) = {}
    BY <1>2 DEF TInv, OneSlot
  <2> QED BY <1>0, <1>1, <2>1, InConcat, DistinctConcat, InEmpty DEF TInv, OneSlot
<1>4. current[w] = NoTask
  BY <1>1 DEF TInv, OneHand
<1>5. \A v \in Workers : wpc'[v] = IF v = w THEN "sched_front" ELSE wpc[v]
  BY <1>0, <1>1
<1>6. OneSlot'
  BY <1>1, <1>3 DEF TInv, OneSlot, Waits, InHand
<1>7. OneHand' /\ ThreadsRun' /\ DeadlinesKept' /\ DutyInHand'
  BY <1>1, <1>4, <1>5 DEF TInv, OneHand, ThreadsRun, DeadlinesKept, DutyInHand
<1>8. TInv'
  BY <1>6, <1>7 DEF TInv
<1>9. PlacesAreTrue /\ PlacesAreTrue'
  BY <1>8, PlaceFacts, PlaceFactsNext
<1>10. ASSUME NEW t \in Tasks
       PROVE  where'[t] = IF where[t] = "front" THEN "collected" ELSE where[t]
  <2>1. /\ Waits(t)' <=> Waits(t)
        /\ InHand(t)' <=> InHand(t)
        /\ myScheduler'[t] = myScheduler[t]
        /\ \A v \in Workers : /\ current'[v] = current[v]
                              /\ current[v] = t => wpc'[v] = wpc[v]
    BY <1>1, <1>3, <1>4, <1>5, SchedulerAssumption DEF Waits, InHand
  <2>2. CASE where[t] = "front"
    BY <1>3, <1>9, <2>2 DEF PlacesAreTrue
  <2>3. CASE where[t] = "collected"
    BY <1>3, <1>9, <2>3 DEF PlacesAreTrue
  <2>4. CASE where[t] = "ready"
    BY <1>1, <1>9, <2>1, <2>4 DEF PlacesAreTrue
  <2>5. CASE where[t] = "executing"
    BY <1>9, <2>1, <2>5 DEF PlacesAreTrue
  <2>6. CASE where[t] = "outside"
    BY <1>9, <2>1, <2>6 DEF PlacesAreTrue
  <2>7. CASE where[t] = "parked"
    BY <1>9, <2>1, <2>7 DEF PlacesAreTrue
  <2> QED BY <1>9, <2>2, <2>3, <2>4, <2>5, <2>6, <2>7 DEF PlacesAreTrue
<1>11. /\ where' = [t \in Tasks |-> where'[t]]
       /\ where = [t \in Tasks |-> where[t]]
  BY DEF where
<1>12. CASE \E t \in Tasks : where[t] = "front"
  <2>1. where' = [t \in Tasks |->
                     IF where[t] = "front" THEN "collected" ELSE where[t]]
    BY <1>10, <1>11
  <2>2. Bar!Collect
    BY <1>1, <1>12, <2>1 DEF Bar!Collect
  <2> QED BY <1>8, <2>2 DEF Simulated, Bar!Next
<1>13. CASE ~\E t \in Tasks : where[t] = "front"
  <2>1. where' = where
    BY <1>10, <1>11, <1>13
  <2> QED BY <1>1, <1>8, <2>1 DEF Simulated, Bar!vars
<1> QED BY <1>12, <1>13

\* A pending task falls asleep.
LEMMA SchedParkSimulated ==
  ASSUME TypeOK, TypeOK', TInv, NEW w \in Workers, SchedPark(w)
  PROVE  Simulated
<1>0. pending \in Seq(Tasks) /\ pending # <<>>
  BY DEF TypeOK, SchedPark, NextPending
<1>1. PICK t \in Tasks : t = Head(pending)
  BY <1>0, HeadAndTail
<1>2. /\ In(pending) = {t} \cup In(pending')
      /\ Distinct(pending') /\ t \notin In(pending')
  BY <1>0, <1>1, HeadAndTail DEF TInv, OneSlot, SchedPark, NextPending
<1>3. /\ DeadlineAhead(t)
      /\ status[t] = "PENDING"
      /\ status' = [status EXCEPT ![t] = "WAITING"]
      /\ isExpired' = [isExpired EXCEPT ![t] = FALSE]
      /\ heap' = IF deadline[t] = "never" THEN heap ELSE heap \cup {t}
      /\ UNCHANGED <<deadline, myScheduler, front, ready, readyQueue, late, wpc,
                     current, pushing, cpc, kpc, started>>
  BY <1>1 DEF SchedPark, NextPending, Set, timeVars, workerVars, clientVars,
              controllerVars
<1>4. ~Waits(t)' /\ ~InHand(t)' /\ myScheduler'[t]
  BY <1>2, <1>3 DEF TInv, OneSlot, Waits, InHand
<1>5. OneSlot'
  BY <1>2, <1>3 DEF TInv, OneSlot, Waits, InHand
<1>6. OneHand' /\ ThreadsRun' /\ DeadlinesKept' /\ DutyInHand'
  BY <1>3 DEF TInv, OneHand, ThreadsRun, DeadlinesKept, DutyInHand
<1>7. TInv'
  BY <1>5, <1>6 DEF TInv
<1>8. OthersStay(t)
  BY <1>2, <1>3 DEF OthersStay
<1>9. where[t] = "collected" /\ where'[t] = "parked"
  BY <1>2, <1>4, <1>7, PlaceFacts, PlaceFactsNext DEF PlacesAreTrue
<1>10. where' = [where EXCEPT ![t] = "parked"]
  BY <1>7, <1>8, <1>9, OneMoves
<1>11. deadline[t] # "none"
  BY <1>3 DEF DeadlineAhead, TInv, DeadlinesKept
<1>12. Bar!Park(t)
  BY <1>3, <1>9, <1>10, <1>11 DEF Bar!Park, Bar!Set
<1> QED BY <1>7, <1>12 DEF Simulated, Bar!Next, Bar!SchedulerStep

\* A pending task becomes ready.
LEMMA SchedDispatchSimulated ==
  ASSUME TypeOK, TypeOK', TInv, NEW w \in Workers, SchedDispatch(w)
  PROVE  Simulated
<1>0. /\ pending \in Seq(Tasks) /\ pending # <<>> /\ ready \in Seq(Tasks)
      /\ deadline \in [Tasks -> {"none", "future", "passed", "never"}]
  BY DEF TypeOK, SchedDispatch, NextPending
<1>1. PICK t \in Tasks : t = Head(pending)
  BY <1>0, HeadAndTail
<1>2. /\ In(pending) = {t} \cup In(pending')
      /\ Distinct(pending') /\ t \notin In(pending')
  BY <1>0, <1>1, HeadAndTail DEF TInv, OneSlot, SchedDispatch, NextPending
<1>3. /\ ~DeadlineAhead(t) \/ status[t] # "PENDING"
      /\ status' = IF status[t] = "PENDING" THEN [status EXCEPT ![t] = "READY"]
                                            ELSE status
      /\ isExpired' = [isExpired EXCEPT ![t] = ~DeadlineAhead(t)]
      /\ heap' = heap \ {t}
      /\ ready' = Append(ready, t)
      /\ UNCHANGED <<deadline, myScheduler, front, readyQueue, late, wpc,
                     current, pushing, cpc, kpc, started>>
  BY <1>1 DEF SchedDispatch, NextPending, Set, timeVars, workerVars, clientVars,
              controllerVars
<1>4. t \notin In(ready) /\ t \notin In(readyQueue) /\ t \notin In(front)
  BY <1>2 DEF TInv, OneSlot
<1>5. Distinct(ready') /\ In(ready') = In(ready) \cup {t}
  BY <1>0, <1>3, <1>4, InAppend DEF TInv, OneSlot
<1>6. OneSlot'
  BY <1>2, <1>3, <1>4, <1>5 DEF TInv, OneSlot, Waits, InHand
<1>7. OneHand' /\ ThreadsRun' /\ DeadlinesKept' /\ DutyInHand'
  BY <1>3 DEF TInv, OneHand, ThreadsRun, DeadlinesKept, DutyInHand
<1>8. TInv'
  BY <1>6, <1>7 DEF TInv
<1>9. OthersStay(t)
  BY <1>2, <1>3, <1>5 DEF OthersStay
<1>10. where[t] = "collected" /\ where'[t] = "ready"
  BY <1>2, <1>5, <1>8, PlaceFacts, PlaceFactsNext DEF PlacesAreTrue
<1>11. where' = [where EXCEPT ![t] = "ready"]
  BY <1>8, <1>9, <1>10, OneMoves
<1>12. CASE DeadlineAhead(t)
  <2>1. deadline[t] # "none"
    BY <1>12 DEF DeadlineAhead, TInv, DeadlinesKept
  <2>2. Bar!DispatchWoken(t)
    BY <1>3, <1>10, <1>11, <1>12, <2>1
       DEF Bar!DispatchWoken, Bar!MakeReady, Bar!Set
  <2> QED BY <1>8, <2>2 DEF Simulated, Bar!Next, Bar!SchedulerStep
<1>13. CASE ~DeadlineAhead(t)
  <2>1. deadline[t] \in {"none", "passed"}
    BY <1>0, <1>13 DEF DeadlineAhead
  <2>2. Bar!DispatchExpired(t)
    BY <1>3, <1>10, <1>11, <1>13, <2>1
       DEF Bar!DispatchExpired, Bar!MakeReady, Bar!Set
  <2> QED BY <1>8, <2>2 DEF Simulated, Bar!Next, Bar!SchedulerStep
<1> QED BY <1>12, <1>13

\* FlushPending() makes a first part of the ready list visible.
LEMMA PublishSplits ==
  ASSUME TypeOK, NEW w \in Workers, SchedPublish(w)
  PROVE  \E a, b \in Seq(Tasks) :
            a \o b = ready /\ readyQueue' = readyQueue \o a /\ ready' = b
<1>1. ready \in Seq(Tasks)
  BY DEF TypeOK
<1>2. PICK n \in 1..Len(ready) :
         /\ readyQueue' = readyQueue \o SubSeq(ready, 1, n)
         /\ ready' = SubSeq(ready, n + 1, Len(ready))
  BY DEF SchedPublish
<1> DEFINE x == SubSeq(ready, 1, n)  y == SubSeq(ready, n + 1, Len(ready))
<1>3. /\ Len(ready) \in Nat /\ n \in Nat
      /\ \A i \in 1..Len(ready) : ready[i] \in Tasks
  BY <1>1, LenProperties, ElementOfSeq
<1>4. /\ \A i \in 1..n : ready[i] \in Tasks
      /\ \A i \in n + 1..Len(ready) : ready[i] \in Tasks
  BY <1>3
<1>5. x \in Seq(Tasks) /\ y \in Seq(Tasks)
  BY <1>3, <1>4, SubSeqProperties
<1>6. x \o y = SubSeq(ready, 1, Len(ready))
  BY <1>1, <1>3, ConcatAdjacentSubSeq
<1> QED BY <1>1, <1>2, <1>5, <1>6, SubSeqFull

\* That moves no task: the list and the queue are both "ready".
LEMMA SchedPublishSimulated ==
  ASSUME TypeOK, TypeOK', TInv, NEW w \in Workers, SchedPublish(w)
  PROVE  Simulated
<1>0. ready \in Seq(Tasks) /\ readyQueue \in Seq(Tasks)
  BY DEF TypeOK
<1>2. UNCHANGED <<status, deadline, isExpired, myScheduler, front, pending, heap,
                  late, wpc, current, pushing, cpc, kpc, started>>
  BY DEF SchedPublish, taskVars, timeVars, workerVars, clientVars, controllerVars
<1>3. PICK a \in Seq(Tasks), b \in Seq(Tasks) :
         a \o b = ready /\ readyQueue' = readyQueue \o a /\ ready' = b
  BY PublishSplits
<1>4. /\ In(ready) = In(a) \cup In(b)
      /\ Distinct(a) /\ Distinct(b) /\ In(a) \cap In(b) = {}
  <2>1. /\ In(a \o b) = In(a) \cup In(b)
        /\ Distinct(a \o b) <=> Distinct(a) /\ Distinct(b) /\ In(a) \cap In(b) = {}
    BY InConcat, DistinctConcat
  <2>2. Distinct(a \o b)
    BY <1>3 DEF TInv, OneSlot
  <2>3. In(ready) = In(a \o b)
    BY <1>3
  <2> QED BY <2>1, <2>2, <2>3
<1>5. In(a) \cap In(readyQueue) = {}
  BY <1>0, <1>4, InType DEF TInv, OneSlot
<1>6. /\ In(readyQueue') = In(readyQueue) \cup In(a) /\ Distinct(readyQueue')
      /\ In(ready') = In(b) /\ Distinct(ready')
  <2>1. /\ In(readyQueue \o a) = In(readyQueue) \cup In(a)
        /\ Distinct(readyQueue \o a)
              <=> Distinct(readyQueue) /\ Distinct(a)
                  /\ In(readyQueue) \cap In(a) = {}
    BY <1>0, InConcat, DistinctConcat
  <2> QED BY <1>3, <1>4, <1>5, <2>1 DEF TInv, OneSlot
<1>7. OneSlot'
  BY <1>2, <1>4, <1>6 DEF TInv, OneSlot, Waits, InHand
<1>8. TInv'
  BY <1>2, <1>7 DEF TInv, OneHand, ThreadsRun, DeadlinesKept, DutyInHand
<1>9. \A t \in Tasks : Place(t)' = Place(t)
  <2>1. In(ready') \cup In(readyQueue') = In(ready) \cup In(readyQueue)
    BY <1>4, <1>6
  <2> QED BY <1>2, <2>1 DEF Place, Executing
<1>10. where' = where
  BY <1>9 DEF where
<1> QED BY <1>2, <1>8, <1>10 DEF Simulated, Bar!vars

\* So every step of PrivSchedule() is simulated.
LEMMA SchedSimulated ==
  ASSUME TypeOK, TypeOK', TInv, Bar!IInv, NEW w \in Workers,
         SchedStep(w) \/ SchedTimeout(w)
  PROVE  Simulated
<1>1. CASE SchedTryLock(w)
  <2>1. PICK l \in {"sched_waiting", "pop"} : wpc' = [wpc EXCEPT ![w] = l]
    BY <1>1 DEF SchedTryLock, WorkerGoto, Set
  <2>2. /\ wpc[w] = "try_lock" /\ late' \subseteq late
        /\ UNCHANGED tasksAndQueues /\ UNCHANGED <<cpc, kpc, started>>
    BY <1>1 DEF SchedTryLock, tasksAndQueues, taskVars, queueVars, clientVars,
                controllerVars
  <2> QED BY <2>1, <2>2, QuietStep
          DEF Simulated, WorkerPCs, SchedPCs, TInv, OneHand
<1>2. CASE SchedDecide(w)
  <2>1. PICK l \in {"sched_unlock", "sched_sleep", "sched_sleep_timed"} :
           wpc' = [wpc EXCEPT ![w] = l]
    <3>1. CASE ~NothingToDo
      BY <1>2, <3>1 DEF SchedDecide, WorkerGoto, Set
    <3>2. CASE NothingToDo /\ heap = {}
      BY <1>2, <3>2 DEF SchedDecide, WorkerGoto, Set
    <3>3. CASE NothingToDo /\ heap # {}
      BY <1>2, <3>3 DEF SchedDecide, WorkerGoto, Set
    <3> QED BY <3>1, <3>2, <3>3
  <2>2. /\ wpc[w] = "sched_front"
        /\ UNCHANGED tasksAndQueues /\ UNCHANGED <<cpc, kpc, started, late>>
    BY <1>2 DEF SchedDecide, tasksAndQueues, taskVars, queueVars, clientVars,
                timeVars, controllerVars
  <2> QED BY <2>1, <2>2, QuietStep
          DEF Simulated, WorkerPCs, SchedPCs, TInv, OneHand
<1>3. CASE \/ SchedReceiveFront(w) \/ SchedTimeout(w)
           \/ SchedUnlock(w) \/ SchedSignal(w)
  <2> USE DEF SchedReceiveFront, SchedTimeout, SchedUnlock, SchedSignal,
              WorkerGoto, Set
  <2>1. PICK l \in {"sched_unlock", "sched_signal", "pop"} :
           wpc' = [wpc EXCEPT ![w] = l]
    <3>1. CASE SchedReceiveFront(w)
      BY <3>1
    <3>2. CASE SchedTimeout(w)
      BY <3>2
    <3>3. CASE SchedUnlock(w)
      BY <3>3
    <3>4. CASE SchedSignal(w)
      BY <3>4
    <3> QED BY <1>3, <3>1, <3>2, <3>3, <3>4
  <2>2. wpc[w] \in {"sched_sleep", "sched_sleep_timed", "sched_unlock",
                    "sched_signal"}
    BY <1>3
  <2>3. UNCHANGED tasksAndQueues /\ UNCHANGED <<cpc, kpc, started, late>>
    BY <1>3 DEF tasksAndQueues, taskVars, queueVars, clientVars, timeVars,
                controllerVars, workerVars
  <2> QED BY <2>1, <2>2, <2>3, QuietStep
          DEF Simulated, WorkerPCs, SchedPCs, TInv, OneHand
<1> QED BY <1>1, <1>2, <1>3, SchedExpireSimulated, SchedCollectSimulated,
           SchedParkSimulated, SchedDispatchSimulated, SchedPublishSimulated
        DEF SchedStep

\* Start(), IsEmpty() and Stop() move no task: the threads are created and have left
\* with empty hands.
LEMMA ControllerSimulated ==
  ASSUME TypeOK, TypeOK', TInv, ControllerCall \/ ControllerStep
  PROVE  Simulated
<1>0. /\ kpc \in ControllerPCs /\ started \in BOOLEAN
      /\ wpc \in [Workers -> WorkerPCs]
      /\ current \in [Workers -> Tasks \cup {NoTask}]
  BY DEF TypeOK
<1> USE DEF ControllerGoto, LockPCs, ControllerPCs
<1>1. CASE StartThreads
  <2>1. ~started
    BY <1>1 DEF StartThreads, TInv, ThreadsRun
  <2>2. \A w \in Workers : wpc[w] = "none" /\ current[w] = NoTask
    BY <2>1 DEF TInv, ThreadsRun, OneHand
  <2>3. /\ UNCHANGED <<status, deadline, isExpired, myScheduler, front, pending,
                       heap, ready, readyQueue, late, current, pushing, cpc>>
        /\ kpc' = "unlock" /\ started' = TRUE
    BY <1>1 DEF StartThreads, taskVars, queueVars, timeVars, clientVars
  <2>4. TInv'
    BY <2>2, <2>3 DEF TInv, OneSlot, OneHand, ThreadsRun, DeadlinesKept,
                      DutyInHand, Waits, InHand
  <2>5. \A t \in Tasks : Place(t)' = Place(t)
    BY <2>2, <2>3, SchedulerAssumption DEF Place, Executing
  <2>6. where' = where
    BY <2>5 DEF where
  <2> QED BY <2>3, <2>4, <2>6 DEF Simulated, Bar!vars
<1>2. CASE StopJoin
  <2>1. \A w \in Workers : wpc[w] = "exited" /\ current[w] = NoTask
    BY <1>2 DEF StopJoin, TInv, OneHand
  <2>2. /\ UNCHANGED <<status, deadline, isExpired, myScheduler, front, pending,
                       heap, ready, readyQueue, late, current, pushing, cpc>>
        /\ kpc' = "unlock" /\ started' = FALSE
        /\ wpc' = [w \in Workers |-> "none"]
    BY <1>2 DEF StopJoin, taskVars, queueVars, timeVars, clientVars
  <2>3. TInv'
    BY <2>1, <2>2 DEF TInv, OneSlot, OneHand, ThreadsRun, DeadlinesKept,
                      DutyInHand, Waits, InHand
  <2>4. \A t \in Tasks : Place(t)' = Place(t)
    BY <2>1, <2>2, SchedulerAssumption DEF Place, Executing
  <2>5. where' = where
    BY <2>4 DEF where
  <2> QED BY <2>2, <2>3, <2>5 DEF Simulated, Bar!vars
<1>3. CASE ControllerCall \/ (ControllerStep /\ ~StartThreads /\ ~StopJoin)
  <2>1. UNCHANGED tasksAndQueues /\ UNCHANGED <<wpc, late, started, cpc>>
    <3> USE DEF tasksAndQueues, taskVars, queueVars, timeVars, workerVars,
                clientVars, controllerVars
    <3>1. CASE ControllerCall
      BY <3>1 DEF ControllerCall
    <3>2. CASE \/ ControllerLock \/ ControllerInterrupt \/ ControllerLocked
               \/ EmptyVisitFront \/ EmptyVisitReady
      BY <3>2 DEF ControllerLock, ControllerInterrupt, ControllerLocked,
                  EmptyVisitFront, EmptyVisitReady
    <3>3. CASE \/ StopBegin \/ StopSignal \/ ControllerUnlock
               \/ ControllerSignal
      BY <3>3 DEF StopBegin, StopSignal, ControllerUnlock, ControllerSignal
    <3>4. CASE \E w \in Workers : EmptyVisitWorker(w) \/ StopThread(w)
      BY <3>4 DEF EmptyVisitWorker, StopThread
    <3> QED BY <1>3, <3>1, <3>2, <3>3, <3>4 DEF ControllerStep
  <2>2. kpc' \in {"start_lock", "start"} =>
           kpc \in {"start_lock", "start"} \/ ~started
    <3>1. CASE ControllerCall
      BY <3>1 DEF ControllerCall
    <3>2. CASE ControllerLocked
      <4>1. kpc \in LockPCs /\ kpc' = AfterLock(kpc)
        BY <3>2 DEF ControllerLocked
      <4>2. CASE kpc = "empty_lock"
        BY <4>1, <4>2 DEF AfterLock
      <4>3. CASE kpc = "stop_lock"
        BY <4>1, <4>3 DEF AfterLock
      <4> QED BY <4>1, <4>2, <4>3
    <3>3. CASE \/ ControllerLock \/ ControllerInterrupt \/ EmptyVisitFront
               \/ EmptyVisitReady
      BY <3>3 DEF ControllerLock, ControllerInterrupt, EmptyVisitFront,
                  EmptyVisitReady, controllerVars
    <3>4. CASE \/ StopBegin \/ StopSignal \/ ControllerUnlock
               \/ ControllerSignal
      BY <3>4 DEF StopBegin, StopSignal, ControllerUnlock, ControllerSignal
    <3>5. CASE \E w \in Workers : EmptyVisitWorker(w) \/ StopThread(w)
      BY <3>5 DEF EmptyVisitWorker, StopThread
    <3> QED BY <1>3, <3>1, <3>2, <3>3, <3>4, <3>5 DEF ControllerStep
  <2>3. ThreadsRun'
    BY <2>1, <2>2 DEF TInv, ThreadsRun
  <2>4. DutyInHand'
    BY <2>1 DEF TInv, DutyInHand, tasksAndQueues
  <2> QED BY <2>1, <2>3, <2>4, SilentStep DEF Simulated
<1> QED BY <1>1, <1>2, <1>3

-----------------------------------------------------------------------------
(* The theorems.                                                            *)

\* A new scheduler has the invariant and every task is outside.
LEMMA InitSimulated == Init => TInv /\ Bar!Init /\ Bar!IInv
<1> SUFFICES ASSUME Init  PROVE TInv /\ Bar!Init /\ Bar!IInv
  OBVIOUS
<1>1. In(<<>>) = {} /\ Distinct(<<>>)
  BY InEmpty
<1>2. TInv
  BY <1>1 DEF Init, TInv, OneSlot, OneHand, ThreadsRun, DeadlinesKept, DutyInHand,
              Waits, InHand
<1>3. \A t \in Tasks : Place(t) = "outside"
  <2>1. \A t \in Tasks : ~Executing(t) /\ ~myScheduler[t]
    BY SchedulerAssumption DEF Init, Executing
  <2> QED BY <1>1, <2>1 DEF Init, Place
<1>4. Bar!Init
  BY <1>3 DEF Init, Bar!Init, where
<1>5. NoTask \notin Tasks
  BY SchedulerAssumption
<1>6. Bar!IInv
  BY <1>4, <1>5, Bar!InitInvariant
<1> QED BY <1>2, <1>4, <1>6

\* Every step of the threads is a step of the tasks or moves none of them.
LEMMA StepSimulated ==
  ASSUME IInv, TInv, Bar!IInv, [Next]_vars
  PROVE  Simulated /\ Bar!IInv'
<1>1. IInv' /\ TypeOK /\ TypeOK' /\ HandsAreFull
  BY StepPreserves DEF IInv
<1>2. Simulated
  <2>1. ASSUME NEW t \in Tasks, DeadlinePasses(t)  PROVE Simulated
    BY <1>1, <2>1, DeadlinePassesSimulated
  <2>2. ASSUME NEW c \in Clients, ClientCall(c) \/ ClientStep(c)  PROVE Simulated
    BY <1>1, <2>2, ClientSimulated
  <2>3. ASSUME NEW w \in Workers,
               \/ WorkerStep(w) \/ CallbackStep(w)
               \/ SchedStep(w) \/ SchedTimeout(w)
        PROVE  Simulated
    BY <1>1, <2>3, WorkerSimulated, CallbackSimulated, SchedSimulated
  <2>4. CASE ControllerCall \/ ControllerStep
    BY <1>1, <2>4, ControllerSimulated
  <2>5. CASE UNCHANGED vars
    <3>1. UNCHANGED tasksAndQueues
          /\ UNCHANGED <<wpc, late, kpc, started, cpc>>
      BY <2>5 DEF vars, tasksAndQueues, taskVars, queueVars, timeVars,
                  workerVars, clientVars, controllerVars
    <3>2. ThreadsRun' /\ DutyInHand'
      BY <3>1 DEF TInv, ThreadsRun, DutyInHand, tasksAndQueues
    <3> QED BY <3>1, <3>2, SilentStep DEF Simulated
  <2> QED BY <2>1, <2>2, <2>3, <2>4, <2>5 DEF Next
<1>3. NoTask \notin Tasks
  BY SchedulerAssumption
<1>4. Bar!IInv'
  BY <1>2, <1>3, Bar!StepPreserves DEF Simulated
<1> QED BY <1>2, <1>4

\* The invariant holds, and so does that of the journey under the refinement mapping.
THEOREM TasksInvariance == Spec => [](TInv /\ Bar!IInv) /\ Bar!Spec
<1>1. Init => TInv /\ Bar!Init /\ Bar!IInv
  BY InitSimulated
<1>2. IInv /\ (TInv /\ Bar!IInv) /\ [Next]_vars
        => (TInv /\ Bar!IInv)' /\ [Bar!Next]_(Bar!vars)
  BY StepSimulated DEF Simulated
<1> QED BY <1>1, <1>2, Invariance, PTL DEF Spec, Bar!Spec

\* Whatever the threads do, each task lives the life TaskLifecycle describes: Post(),
\* PrivSchedule(), PrivExecute(), PostWakeup() and PostSignal() move it as its atomic
\* status allows and in no other way, for any number of threads and tasks.
THEOREM Implements == Spec => Lifecycle!Spec
<1>1. Bar!Init => Lifecycle!Init
  BY DEF Bar!Init, Lifecycle!Init, where
<1>2. [Bar!Next]_(Bar!vars) => [Lifecycle!Next]_(Lifecycle!vars)
  BY DEF where, Bar!Next, Lifecycle!Next, Bar!Collect, Lifecycle!Collect,
         Bar!OwnerStep, Lifecycle!OwnerStep, Bar!SchedulerStep,
         Lifecycle!SchedulerStep, Bar!ClientStep, Lifecycle!ClientStep,
         Bar!Post, Lifecycle!Post, Bar!ReceiveSignal,
         Lifecycle!ReceiveSignal, Bar!Return, Lifecycle!Return, Bar!Park,
         Lifecycle!Park, Bar!DispatchWoken, Lifecycle!DispatchWoken,
         Bar!DispatchExpired, Lifecycle!DispatchExpired, Bar!MakeReady,
         Lifecycle!MakeReady, Bar!Expire, Lifecycle!Expire, Bar!Execute,
         Lifecycle!Execute, Bar!Push, Lifecycle!Push, Bar!Wakeup,
         Lifecycle!Wakeup, Bar!Signal, Lifecycle!Signal, Bar!TakesDuty,
         Lifecycle!TakesDuty, Bar!DeadlinePasses, Lifecycle!DeadlinePasses,
         Bar!Set, Lifecycle!Set, Bar!Deadlines, Lifecycle!Deadlines,
         Bar!vars, Lifecycle!vars
<1> QED BY <1>1, <1>2, TasksInvariance, PTL DEF Bar!Spec, Lifecycle!Spec

\* So what is proved of the journey holds for the tasks of the threads: exactly one
\* waker pushes a sleeping task, no task is in two queues, who is executed is READY
\* or SIGNALED, IsExpired() is true, and no wakeup and no signal is lost.
THEOREM JourneyIsSafe ==
    Spec => /\ [](/\ Lifecycle!OneWakerPushes /\ Lifecycle!OneQueue
                  /\ Lifecycle!ReadyToExecute /\ Lifecycle!ExpiredIsTruthful)
            /\ Lifecycle!WakeupNotLost
<1>1. Bar!IInv => /\ Lifecycle!OneWakerPushes /\ Lifecycle!OneQueue
                  /\ Lifecycle!ReadyToExecute /\ Lifecycle!ExpiredIsTruthful
  BY DEF Bar!IInv, Bar!OneWakerPushes, Bar!OneQueue, Bar!ReadyToExecute,
         Bar!ExpiredIsTruthful, Lifecycle!OneWakerPushes, Lifecycle!OneQueue,
         Lifecycle!ReadyToExecute, Lifecycle!ExpiredIsTruthful, where
<1>2. NoTask \notin Tasks
  BY SchedulerAssumption
<1>3. Bar!Spec => Bar!WakeupNotLost
  BY <1>2, Bar!WakeupsAreKept
<1>4. Bar!WakeupNotLost => Lifecycle!WakeupNotLost
  BY DEF Bar!WakeupNotLost, Lifecycle!WakeupNotLost, where, Bar!vars,
         Lifecycle!vars
<1> QED BY <1>1, <1>3, <1>4, TasksInvariance, PTL

\* Queued is the four lists one after the other.
QueuedIsTheQueues ==
    /\ Queued \in Seq(Tasks) /\ Distinct(Queued)
    /\ In(Queued) = In(readyQueue) \cup In(ready) \cup In(pending) \cup In(front)

\* A queued task is in exactly one of the four lists, once.
LEMMA QueuedFacts == TypeOK /\ OneSlot => QueuedIsTheQueues
<1> SUFFICES ASSUME TypeOK, OneSlot  PROVE QueuedIsTheQueues
  OBVIOUS
<1>0. /\ readyQueue \in Seq(Tasks) /\ ready \in Seq(Tasks)
      /\ pending \in Seq(Tasks) /\ front \in Seq(Tasks)
  BY DEF TypeOK
<1>1. /\ In(readyQueue) \subseteq Tasks /\ In(ready) \subseteq Tasks
      /\ In(pending) \subseteq Tasks /\ In(front) \subseteq Tasks
  BY <1>0, InType
<1> DEFINE a == readyQueue \o ready  b == a \o pending
<1>2. a \in Seq(Tasks) /\ In(a) = In(readyQueue) \cup In(ready)
  BY <1>0, InConcat, ConcatProperties
<1>3. Distinct(a)
  <2>1. In(readyQueue) \cap In(ready) = {}
    BY <1>1 DEF OneSlot
  <2> QED BY <1>0, <2>1, DistinctConcat DEF OneSlot
<1> HIDE DEF a
<1>4. b \in Seq(Tasks) /\ In(b) = In(a) \cup In(pending)
  BY <1>0, <1>2, InConcat, ConcatProperties
<1>5. Distinct(b)
  <2>1. In(a) \cap In(pending) = {}
    BY <1>1, <1>2 DEF OneSlot
  <2> QED BY <1>0, <1>2, <1>3, <2>1, DistinctConcat DEF OneSlot
<1> HIDE DEF b
<1>6. b \o front \in Seq(Tasks) /\ In(b \o front) = In(b) \cup In(front)
  BY <1>0, <1>4, InConcat, ConcatProperties
<1>7. Distinct(b \o front)
  <2>1. In(b) \cap In(front) = {}
    BY <1>1, <1>2, <1>4 DEF OneSlot
  <2> QED BY <1>0, <1>4, <1>5, <2>1, DistinctConcat DEF OneSlot
<1>8. Queued = b \o front
  BY DEF Queued, a, b
<1>9. In(b) = In(readyQueue) \cup In(ready) \cup In(pending)
  BY <1>2, <1>4
<1> QED BY <1>6, <1>7, <1>8, <1>9 DEF QueuedIsTheQueues

\* "A task never should be in two queues simultaneously": no task is twice in the
\* lists of the scheduler, in a list and in a worker's hands, or in the hands of two
\* workers; one that sleeps in the heap is nowhere else until it is woken up, is out
\* of the heap when it is ready or executed, and a client that is about to push a
\* task is the only one, and the task in none of the places but the heap.
THEOREM TasksAreUnique ==
    Spec => [](NoDuplicates /\ Lifecycle!OneQueue /\ Lifecycle!OneWakerPushes)
<1>1. TypeOK /\ TInv => NoDuplicates
  <2> SUFFICES ASSUME TypeOK, TInv  PROVE NoDuplicates
    OBVIOUS
  <2>1. /\ Distinct(Queued)
        /\ In(Queued) = In(readyQueue) \cup In(ready) \cup In(pending)
                           \cup In(front)
    BY QueuedFacts DEF TInv, QueuedIsTheQueues
  <2>2. \A t \in Tasks : t \in In(Queued) => myScheduler[t] /\ ~InHand(t)
    BY <2>1 DEF TInv, OneSlot, Waits
  <2>3. \A w \in Workers : current[w] # NoTask => current[w] \in Tasks
    BY DEF TypeOK
  <2>4. \A w \in Workers : current[w] # NoTask => current[w] \notin In(Queued)
    BY <2>2, <2>3 DEF InHand
  <2> QED BY <2>1, <2>2, <2>4 DEF NoDuplicates, Distinct, TInv, OneHand
<1>2. Spec => [](Lifecycle!OneQueue /\ Lifecycle!OneWakerPushes)
  <2> DEFINE Journey == /\ Lifecycle!OneWakerPushes /\ Lifecycle!OneQueue
                        /\ Lifecycle!ReadyToExecute /\ Lifecycle!ExpiredIsTruthful
             Unique == Lifecycle!OneQueue /\ Lifecycle!OneWakerPushes
  <2>1. Spec => []Journey
    BY JourneyIsSafe
  <2>2. Journey => Unique
    OBVIOUS
  <2> HIDE DEF Journey, Unique
  <2>3. Spec => []Unique
    BY <2>1, <2>2, PTL
  <2> QED BY <2>3 DEF Unique
<1> QED BY <1>1, <1>2, TypeCorrect, TasksInvariance, PTL

-----------------------------------------------------------------------------
(* The order of the queued tasks.                                           *)

\* The same relation as Ahead, of any list.
Before(q, s, t) == \E i, j \in DOMAIN q : i < j /\ q[i] = s /\ q[j] = t

\* Who is before whom in two lists put together.
LEMMA BeforeConcat ==
  ASSUME NEW S, NEW a \in Seq(S), NEW b \in Seq(S), NEW s, NEW t
  PROVE  Before(a \o b, s, t) <=> \/ Before(a, s, t) \/ Before(b, s, t)
                                  \/ s \in In(a) /\ t \in In(b)
<1> DEFINE c == a \o b
<1>1. /\ Len(a) \in Nat /\ Len(b) \in Nat
      /\ DOMAIN a = 1 .. Len(a) /\ DOMAIN b = 1 .. Len(b)
      /\ DOMAIN c = 1 .. (Len(a) + Len(b))
  BY ConcatProperties, LenProperties
<1>2. /\ \A i \in DOMAIN a : i \in DOMAIN c /\ c[i] = a[i]
      /\ \A j \in DOMAIN b : Len(a) + j \in DOMAIN c /\ c[Len(a) + j] = b[j]
  BY <1>1, ConcatProperties
<1>3. \A k \in DOMAIN c : \/ k \in DOMAIN a
                          \/ k - Len(a) \in DOMAIN b /\ k = Len(a) + (k - Len(a))
  BY <1>1
<1> HIDE DEF c
<1>4. ASSUME Before(c, s, t)
      PROVE  \/ Before(a, s, t) \/ Before(b, s, t)
             \/ s \in In(a) /\ t \in In(b)
  <2>1. PICK i \in DOMAIN c, j \in DOMAIN c : i < j /\ c[i] = s /\ c[j] = t
    BY <1>4 DEF Before
  <2>2. CASE i \in DOMAIN a /\ j \in DOMAIN a
    BY <1>2, <2>1, <2>2 DEF Before
  <2>3. CASE i \in DOMAIN a /\ j \notin DOMAIN a
    <3>1. a[i] = s /\ b[j - Len(a)] = t /\ j - Len(a) \in DOMAIN b
      BY <1>2, <1>3, <2>1, <2>3
    <3> QED BY <2>3, <3>1 DEF In
  <2>4. CASE i \notin DOMAIN a
    <3>1. j \notin DOMAIN a
      BY <1>1, <2>1, <2>4
    <3>2. /\ i - Len(a) \in DOMAIN b /\ j - Len(a) \in DOMAIN b
          /\ b[i - Len(a)] = s /\ b[j - Len(a)] = t
      BY <1>2, <1>3, <2>1, <2>4, <3>1
    <3>3. i - Len(a) < j - Len(a)
      BY <1>1, <2>1
    <3> QED BY <3>2, <3>3 DEF Before
  <2> QED BY <2>2, <2>3, <2>4
<1>5. Before(a, s, t) => Before(c, s, t)
  BY <1>2 DEF Before
<1>6. ASSUME Before(b, s, t)  PROVE Before(c, s, t)
  <2>1. PICK i \in DOMAIN b, j \in DOMAIN b : i < j /\ b[i] = s /\ b[j] = t
    BY <1>6 DEF Before
  <2>2. /\ Len(a) + i \in DOMAIN c /\ Len(a) + j \in DOMAIN c
        /\ c[Len(a) + i] = s /\ c[Len(a) + j] = t
    BY <1>2, <2>1
  <2>3. Len(a) + i < Len(a) + j
    BY <1>1, <2>1
  <2> QED BY <2>2, <2>3 DEF Before
<1>7. ASSUME s \in In(a), t \in In(b)  PROVE Before(c, s, t)
  <2>1. PICK i \in DOMAIN a : a[i] = s
    BY <1>7 DEF In
  <2>2. PICK j \in DOMAIN b : b[j] = t
    BY <1>7 DEF In
  <2>3. /\ i \in DOMAIN c /\ Len(a) + j \in DOMAIN c
        /\ c[i] = s /\ c[Len(a) + j] = t
    BY <1>2, <2>1, <2>2
  <2>4. i < Len(a) + j
    BY <1>1, <2>1, <2>2
  <2> QED BY <2>3, <2>4 DEF Before
<1> QED BY <1>4, <1>5, <1>6, <1>7 DEF c

\* Nobody is before anybody in a list of one.
LEMMA BeforeOne == \A x, s, t : ~Before(<<x>>, s, t) /\ ~Before(<<>>, s, t)
  BY DEF Before

\* Who is ahead of whom, by the queues the two are in.
AheadByQueues ==
    \A s, t \in Tasks : Ahead(s, t) <=>
        \/ Before(readyQueue, s, t) \/ Before(ready, s, t)
        \/ Before(pending, s, t) \/ Before(front, s, t)
        \/ /\ s \in In(readyQueue)
           /\ t \in In(ready) \cup In(pending) \cup In(front)
        \/ s \in In(ready) /\ t \in In(pending) \cup In(front)
        \/ s \in In(pending) /\ t \in In(front)

\* Queued is a concatenation, so Ahead is made of the orders in its parts.
LEMMA AheadFacts == TypeOK => AheadByQueues
<1> SUFFICES ASSUME TypeOK, NEW s \in Tasks, NEW t \in Tasks
             PROVE  AheadByQueues!(s, t)
  BY DEF AheadByQueues
<1>0. /\ readyQueue \in Seq(Tasks) /\ ready \in Seq(Tasks)
      /\ pending \in Seq(Tasks) /\ front \in Seq(Tasks)
  BY DEF TypeOK
<1>1. PICK a \in Seq(Tasks) : a = readyQueue \o ready
  BY <1>0, ConcatProperties
<1>2. PICK b \in Seq(Tasks) : b = a \o pending
  BY <1>0, ConcatProperties
<1>3. In(a) = In(readyQueue) \cup In(ready) /\ In(b) = In(a) \cup In(pending)
  <2>1. In(readyQueue \o ready) = In(readyQueue) \cup In(ready)
    BY <1>0, InConcat
  <2>2. In(a \o pending) = In(a) \cup In(pending)
    BY <1>0, InConcat
  <2> QED BY <1>1, <1>2, <2>1, <2>2
<1>4. Before(a, s, t) <=> \/ Before(readyQueue, s, t) \/ Before(ready, s, t)
                          \/ s \in In(readyQueue) /\ t \in In(ready)
  BY <1>0, <1>1, BeforeConcat
<1>5. Before(b, s, t) <=> \/ Before(a, s, t) \/ Before(pending, s, t)
                          \/ s \in In(a) /\ t \in In(pending)
  BY <1>0, <1>2, BeforeConcat
<1>6. Before(b \o front, s, t) <=> \/ Before(b, s, t) \/ Before(front, s, t)
                                   \/ s \in In(b) /\ t \in In(front)
  BY <1>0, BeforeConcat
<1>7. Queued = b \o front
  BY <1>1, <1>2 DEF Queued
<1>8. Ahead(s, t) <=> Before(b \o front, s, t)
  BY <1>7 DEF Ahead, Before
<1> QED BY <1>3, <1>4, <1>5, <1>6, <1>8

\* The same in the next state.
LEMMA AheadFactsNext ==
  ASSUME TypeOK'
  PROVE  AheadByQueues'
  BY AheadFacts, PTL

\* The same in the next state.
LEMMA QueuedFactsNext ==
  ASSUME TypeOK', OneSlot'
  PROVE  QueuedIsTheQueues'
  BY QueuedFacts, PTL

\* A push puts the new one behind all the others.
LEMMA BeforeAppend ==
  ASSUME NEW S, NEW q \in Seq(S), NEW x \in S, NEW s, NEW t
  PROVE  Before(Append(q, x), s, t) <=> Before(q, s, t) \/ (s \in In(q) /\ t = x)
<1>0. <<x>> \in Seq(S) /\ Append(q, x) = q \o <<x>>
  BY AppendIsConcat
<1>1. PICK u \in Seq(S) : u = <<x>> /\ Append(q, x) = q \o u
  BY <1>0
<1>2. In(u) = {x} /\ ~Before(u, s, t)
  BY <1>1, InOne, BeforeOne
<1>3. Before(q \o u, s, t) <=>
         Before(q, s, t) \/ Before(u, s, t) \/ (s \in In(q) /\ t \in In(u))
  BY BeforeConcat
<1> QED BY <1>1, <1>2, <1>3

\* Only the first one was before the others and is not any more after a pop.
LEMMA BeforeHead ==
  ASSUME NEW S, NEW q \in Seq(S), q # <<>>, NEW s, NEW t
  PROVE  Before(q, s, t) <=>
            Before(Tail(q), s, t) \/ (s = Head(q) /\ t \in In(Tail(q)))
<1>1. /\ Head(q) \in S /\ Tail(q) \in Seq(S)
      /\ q = <<Head(q)>> \o Tail(q)
  BY HeadAndTail
<1>2. PICK u \in Seq(S), v \in Seq(S) :
         u = <<Head(q)>> /\ v = Tail(q) /\ q = u \o v
  <2>1. <<Head(q)>> \in Seq(S)
    BY <1>1
  <2> QED BY <1>1, <2>1, Zenon
<1>3. In(u) = {Head(q)} /\ ~Before(u, s, t)
  BY <1>2, InOne, BeforeOne
<1>4. Before(u \o v, s, t) <=>
         Before(u, s, t) \/ Before(v, s, t) \/ (s \in In(u) /\ t \in In(v))
  BY BeforeConcat
<1> QED BY <1>2, <1>3, <1>4

\* The two halves of FairOrder, of one step.
KeepsOrder ==
    /\ \A s, t \in Tasks :
          Ahead(s, t) =>
             \/ Ahead(s, t)'
             \/ s \notin In(Queued)'
             \/ t \notin In(Queued)' /\ status'[t] = "WAITING"
    /\ \A s, t \in Tasks :
          s \in In(Queued) \cap In(Queued)' /\ t \in In(Queued)' \ In(Queued) =>
             Ahead(s, t)' \/ t \in heap \ heap'

\* Steps that do not touch the lists.
LEMMA SameQueuesKeepOrder ==
  ASSUME UNCHANGED <<front, pending, ready, readyQueue>>
  PROVE  KeepsOrder
<1>1. Queued' = Queued
  BY DEF Queued
<1> QED BY <1>1 DEF KeepsOrder, Ahead

\* A push to the front queue: behind everybody.
LEMMA PostKeepsOrder ==
  ASSUME TypeOK, TypeOK', OneSlot, OneSlot',
         NEW x \in Tasks, ~Waits(x), PushFront(x),
         UNCHANGED <<pending, ready, readyQueue>>
  PROVE  KeepsOrder
<1>0. front \in Seq(Tasks)
  BY DEF TypeOK
<1>1. /\ AheadByQueues /\ AheadByQueues'
      /\ QueuedIsTheQueues /\ QueuedIsTheQueues'
  BY AheadFacts, AheadFactsNext, QueuedFacts, QueuedFactsNext
<1>2. In(front') = In(front) \cup {x}
  BY <1>0, InAppend DEF PushFront
<1>3. \A s, t \in Tasks : Before(front, s, t) => Before(front', s, t)
  BY <1>0, BeforeAppend DEF PushFront
<1>4. ASSUME NEW s \in Tasks, NEW t \in Tasks, Ahead(s, t)  PROVE Ahead(s, t)'
  BY <1>1, <1>2, <1>3, <1>4 DEF AheadByQueues
<1>5. ASSUME NEW s \in Tasks, NEW t \in Tasks, s \in In(Queued),
             t \in In(Queued)' \ In(Queued)
      PROVE  Ahead(s, t)'
  <2>1. t = x
    BY <1>1, <1>2, <1>5 DEF QueuedIsTheQueues
  <2>2. s \in In(front) => Before(front', s, t)
    BY <1>0, <2>1, BeforeAppend DEF PushFront
  <2> QED BY <1>1, <1>2, <1>5, <2>1, <2>2 DEF AheadByQueues, QueuedIsTheQueues
<1> QED BY <1>4, <1>5 DEF KeepsOrder

\* A pop of the ready queue: only the first one goes.
LEMMA PopKeepsOrder ==
  ASSUME TypeOK, TypeOK', OneSlot, OneSlot',
         readyQueue # <<>>, readyQueue' = Tail(readyQueue),
         UNCHANGED <<front, pending, ready>>
  PROVE  KeepsOrder
<1>0. readyQueue \in Seq(Tasks)
  BY DEF TypeOK
<1>1. /\ AheadByQueues /\ AheadByQueues'
      /\ QueuedIsTheQueues /\ QueuedIsTheQueues'
  BY AheadFacts, AheadFactsNext, QueuedFacts, QueuedFactsNext
<1>2. PICK h \in Tasks : h = Head(readyQueue)
  BY <1>0, HeadAndTail
<1>3. In(readyQueue) = {h} \cup In(readyQueue') /\ h \notin In(readyQueue')
  BY <1>0, <1>2, HeadAndTail DEF OneSlot
<1>4. h \notin In(Queued)'
  BY <1>1, <1>3 DEF QueuedIsTheQueues, OneSlot
<1>5. \A s, t \in Tasks : Before(readyQueue, s, t) =>
         Before(readyQueue', s, t) \/ s = h
  BY <1>0, <1>2, BeforeHead
<1>6. ASSUME NEW s \in Tasks, NEW t \in Tasks, Ahead(s, t), s # h
      PROVE  Ahead(s, t)'
  BY <1>1, <1>3, <1>5, <1>6 DEF AheadByQueues
<1>7. In(Queued)' \subseteq In(Queued)
  BY <1>1, <1>3 DEF QueuedIsTheQueues
<1> QED BY <1>4, <1>6, <1>7 DEF KeepsOrder

\* PopAll() hands the front queue over to the end of the pending list, in its order.
LEMMA CollectKeepsOrder ==
  ASSUME TypeOK, TypeOK', OneSlot, OneSlot',
         pending' = pending \o front, front' = <<>>,
         UNCHANGED <<ready, readyQueue>>
  PROVE  KeepsOrder
<1>0. front \in Seq(Tasks) /\ pending \in Seq(Tasks)
  BY DEF TypeOK
<1>1. /\ AheadByQueues /\ AheadByQueues'
      /\ QueuedIsTheQueues /\ QueuedIsTheQueues'
  BY AheadFacts, AheadFactsNext, QueuedFacts, QueuedFactsNext
<1>2. In(pending') = In(pending) \cup In(front) /\ In(front') = {}
  BY <1>0, InConcat, InEmpty
<1>3. \A s, t \in Tasks :
         \/ Before(pending, s, t) \/ Before(front, s, t)
         \/ s \in In(pending) /\ t \in In(front)
         => Before(pending', s, t)
  BY <1>0, BeforeConcat
<1>4. ASSUME NEW s \in Tasks, NEW t \in Tasks, Ahead(s, t)  PROVE Ahead(s, t)'
  BY <1>1, <1>2, <1>3, <1>4 DEF AheadByQueues
<1>5. In(Queued)' = In(Queued)
  BY <1>1, <1>2 DEF QueuedIsTheQueues
<1> QED BY <1>4, <1>5 DEF KeepsOrder

\* The first of the pending tasks falls asleep: those behind it move up.
LEMMA ParkKeepsOrder ==
  ASSUME TypeOK, TypeOK', OneSlot, OneSlot',
         pending # <<>>, pending' = Tail(pending),
         status'[Head(pending)] = "WAITING",
         UNCHANGED <<front, ready, readyQueue>>
  PROVE  KeepsOrder
<1>0. pending \in Seq(Tasks)
  BY DEF TypeOK
<1>1. /\ AheadByQueues /\ AheadByQueues'
      /\ QueuedIsTheQueues /\ QueuedIsTheQueues'
  BY AheadFacts, AheadFactsNext, QueuedFacts, QueuedFactsNext
<1>2. PICK h \in Tasks : h = Head(pending)
  BY <1>0, HeadAndTail
<1>3. In(pending) = {h} \cup In(pending') /\ h \notin In(pending')
  BY <1>0, <1>2, HeadAndTail DEF OneSlot
<1>4. h \notin In(Queued)'
  BY <1>1, <1>3 DEF QueuedIsTheQueues, OneSlot
<1>5. \A s, t \in Tasks : Before(pending, s, t) =>
         Before(pending', s, t) \/ s = h
  BY <1>0, <1>2, BeforeHead
<1>6. ASSUME NEW s \in Tasks, NEW t \in Tasks, Ahead(s, t), s # h, t # h
      PROVE  Ahead(s, t)'
  BY <1>1, <1>3, <1>5, <1>6 DEF AheadByQueues
<1>7. In(Queued)' \subseteq In(Queued)
  BY <1>1, <1>3 DEF QueuedIsTheQueues
<1> QED BY <1>2, <1>4, <1>6, <1>7 DEF KeepsOrder

\* The first of the pending tasks becomes the last of the ready ones: it was just
\* behind all of them.
LEMMA DispatchKeepsOrder ==
  ASSUME TypeOK, TypeOK', OneSlot, OneSlot',
         pending # <<>>, pending' = Tail(pending),
         ready' = Append(ready, Head(pending)),
         UNCHANGED <<front, readyQueue>>
  PROVE  KeepsOrder
<1>0. pending \in Seq(Tasks) /\ ready \in Seq(Tasks)
  BY DEF TypeOK
<1>1. /\ AheadByQueues /\ AheadByQueues'
      /\ QueuedIsTheQueues /\ QueuedIsTheQueues'
  BY AheadFacts, AheadFactsNext, QueuedFacts, QueuedFactsNext
<1>2. PICK h \in Tasks : h = Head(pending)
  BY <1>0, HeadAndTail
<1>3. In(pending) = {h} \cup In(pending')
  BY <1>0, <1>2, HeadAndTail
<1>4. In(ready') = In(ready) \cup {h}
  BY <1>0, <1>2, InAppend
<1>5. \A s, t \in Tasks : Before(pending, s, t) =>
         Before(pending', s, t) \/ (s = h /\ t \in In(pending'))
  BY <1>0, <1>2, BeforeHead
<1>6. \A s, t \in Tasks : Before(ready, s, t) \/ (s \in In(ready) /\ t = h)
         => Before(ready', s, t)
  BY <1>0, <1>2, BeforeAppend
<1>7. ASSUME NEW s \in Tasks, NEW t \in Tasks, Ahead(s, t)  PROVE Ahead(s, t)'
  BY <1>1, <1>3, <1>4, <1>5, <1>6, <1>7 DEF AheadByQueues
<1>8. In(Queued)' = In(Queued)
  BY <1>1, <1>3, <1>4 DEF QueuedIsTheQueues
<1> QED BY <1>7, <1>8 DEF KeepsOrder

\* It does not matter to which side of the border a part of the list belongs.
LEMMA Reassociated ==
  \A r, a, b \in Seq(Tasks) : (r \o a) \o b = r \o (a \o b)
  BY ConcatAssociative

\* A first part of the ready list goes to the end of the ready queue.
LEMMA PublishKeepsOrder ==
  ASSUME TypeOK, TypeOK', OneSlot, OneSlot',
         NEW a \in Seq(Tasks), NEW b \in Seq(Tasks),
         a \o b = ready, readyQueue' = readyQueue \o a, ready' = b,
         UNCHANGED <<front, pending>>
  PROVE  KeepsOrder
<1>1. readyQueue \in Seq(Tasks)
  BY DEF TypeOK
<1>2. Queued' = Queued
  BY <1>1, Reassociated DEF Queued
<1> QED BY <1>2 DEF KeepsOrder, Ahead

\* A task from the heap goes in front of the pending ones, behind the ready ones.
LEMMA ExpireKeepsOrder ==
  ASSUME TypeOK, TypeOK', OneSlot, OneSlot',
         NEW x \in Tasks, ready' = Append(ready, x),
         x \in heap, heap' = heap \ {x},
         UNCHANGED <<front, pending, readyQueue>>
  PROVE  KeepsOrder
<1>0. ready \in Seq(Tasks)
  BY DEF TypeOK
<1>1. /\ AheadByQueues /\ AheadByQueues'
      /\ QueuedIsTheQueues /\ QueuedIsTheQueues'
  BY AheadFacts, AheadFactsNext, QueuedFacts, QueuedFactsNext
<1>2. In(ready') = In(ready) \cup {x}
  BY <1>0, InAppend
<1>3. \A s, t \in Tasks : Before(ready, s, t) => Before(ready', s, t)
  BY <1>0, BeforeAppend
<1>4. ASSUME NEW s \in Tasks, NEW t \in Tasks, Ahead(s, t)  PROVE Ahead(s, t)'
  BY <1>1, <1>2, <1>3, <1>4 DEF AheadByQueues
<1>5. In(Queued)' = In(Queued) \cup {x}
  BY <1>1, <1>2 DEF QueuedIsTheQueues
<1> QED BY <1>4, <1>5 DEF KeepsOrder

\* Every step of every thread keeps the order.
LEMMA StepKeepsOrder ==
  ASSUME IInv, IInv', TInv, TInv', Bar!IInv, [Next]_vars
  PROVE  KeepsOrder
<1>0. TypeOK /\ TypeOK' /\ OneSlot /\ OneSlot'
  BY DEF IInv, TInv
<1>1. ASSUME NEW t \in Tasks, DeadlinePasses(t)  PROVE KeepsOrder
  BY <1>1, SameQueuesKeepOrder DEF DeadlinePasses, queueVars
<1>2. ASSUME NEW c \in Clients, ClientCall(c) \/ ClientStep(c)  PROVE KeepsOrder
  <2>1. ASSUME NEW t \in Tasks, NEW d \in PostDeadlines, ClientPost(c, t, d)
        PROVE  KeepsOrder
    <3>1. ~Waits(t)
      BY <2>1 DEF ClientPost, TInv, OneSlot
    <3> QED BY <1>0, <2>1, <3>1, PostKeepsOrder DEF ClientPost
  <2>2. CASE ClientPush(c)
    <3>1. PICK t \in Tasks : t = pushing[c] /\ ~Waits(t)
      <4>1. pushing[c] # NoTask
        BY <2>2 DEF ClientPush, IInv, HandsAreFull
      <4> QED BY <1>0, <4>1, AsleepFacts
    <3> QED BY <1>0, <2>2, <3>1, PostKeepsOrder DEF ClientPush
  <2>3. ASSUME NEW t \in Tasks, ClientWakeup(c, t) \/ ClientSignal(c, t)
        PROVE  KeepsOrder
    BY <2>3, SameQueuesKeepOrder
       DEF ClientWakeup, ClientSignal, SetAwake, queueVars
  <2>4. CASE ClientSend(c)
    BY <2>4, SameQueuesKeepOrder DEF ClientSend, queueVars
  <2> QED BY <1>2, <2>1, <2>2, <2>3, <2>4 DEF ClientCall, ClientStep
<1>3. ASSUME NEW w \in Workers, WorkerStep(w)  PROVE KeepsOrder
  <2>1. CASE WorkerPop(w)
    <3>1. CASE readyQueue = <<>>
      BY <2>1, <3>1, SameQueuesKeepOrder DEF WorkerPop
    <3>2. CASE readyQueue # <<>>
      BY <1>0, <2>1, <3>2, PopKeepsOrder DEF WorkerPop
    <3> QED BY <3>1, <3>2
  <2>2. CASE WorkerStep(w) /\ ~WorkerPop(w)
    BY <2>2, SameQueuesKeepOrder
       DEF WorkerStep, WorkerLoop, WorkerExit, WorkerExecute, WorkerIdle,
           WorkerWaitReady, queueVars
  <2> QED BY <1>3, <2>1, <2>2
<1>4. ASSUME NEW w \in Workers, CallbackStep(w)  PROVE KeepsOrder
  <2>1. ASSUME NEW d \in PostDeadlines, CallbackPost(w, d)  PROVE KeepsOrder
    <3>1. PICK t \in Tasks : t = current[w] /\ ~Waits(t)
      <4>1. current[w] \in Tasks
        BY <1>0, <2>1 DEF CallbackPost, TypeOK
      <4> QED BY <4>1 DEF TInv, OneSlot, InHand
    <3> QED BY <1>0, <2>1, <3>1, PostKeepsOrder DEF CallbackPost
  <2>2. CASE \/ CallbackReceiveSignal(w) \/ CallbackSend(w) \/ CallbackReturn(w)
    BY <2>2, SameQueuesKeepOrder
       DEF CallbackReceiveSignal, CallbackSend, CallbackReturn, queueVars
  <2> QED BY <1>4, <2>1, <2>2 DEF CallbackStep
<1>5. ASSUME NEW w \in Workers, SchedStep(w) \/ SchedTimeout(w)  PROVE KeepsOrder
  <2>1. CASE SchedExpire(w)
    <3>1. PICK t \in heap :
             /\ heap' = heap \ {t}
             /\ IF status[t] = "WAITING" THEN ready' = Append(ready, t)
                                         ELSE UNCHANGED ready
      BY <2>1 DEF SchedExpire
    <3>2. t \in Tasks /\ UNCHANGED <<front, pending, readyQueue>>
      BY <1>0, <2>1 DEF SchedExpire, TypeOK
    <3>3. CASE status[t] = "WAITING"
      BY <1>0, <3>1, <3>2, <3>3, ExpireKeepsOrder
    <3>4. CASE status[t] # "WAITING"
      BY <3>1, <3>2, <3>4, SameQueuesKeepOrder
    <3> QED BY <3>3, <3>4
  <2>2. CASE SchedCollect(w)
    BY <1>0, <2>2, CollectKeepsOrder DEF SchedCollect
  <2>3. CASE SchedPark(w)
    <3>1. Head(pending) \in Tasks
      BY <1>0, <2>3, HeadAndTail DEF TypeOK, SchedPark, NextPending
    <3>2. status'[Head(pending)] = "WAITING"
      BY <1>0, <2>3, <3>1 DEF TypeOK, SchedPark, Set
    <3> QED BY <1>0, <2>3, <3>2, ParkKeepsOrder DEF SchedPark, NextPending
  <2>4. CASE SchedDispatch(w)
    BY <1>0, <2>4, DispatchKeepsOrder DEF SchedDispatch, NextPending
  <2>5. CASE SchedPublish(w)
    <3>1. \E a, b \in Seq(Tasks) :
             a \o b = ready /\ readyQueue' = readyQueue \o a /\ ready' = b
      BY <1>0, <2>5, PublishSplits
    <3> QED BY <1>0, <2>5, <3>1, PublishKeepsOrder DEF SchedPublish
  <2>6. CASE \/ SchedTryLock(w) \/ SchedDecide(w) \/ SchedReceiveFront(w)
             \/ SchedUnlock(w) \/ SchedSignal(w) \/ SchedTimeout(w)
    BY <2>6, SameQueuesKeepOrder
       DEF SchedTryLock, SchedDecide, SchedReceiveFront, SchedUnlock, SchedSignal,
           SchedTimeout, queueVars
  <2> QED BY <1>5, <2>1, <2>2, <2>3, <2>4, <2>5, <2>6 DEF SchedStep
<1>6. CASE ControllerCall \/ ControllerStep
  <2>1. CASE \/ ControllerCall \/ ControllerLock \/ ControllerInterrupt
             \/ ControllerLocked \/ StartThreads \/ EmptyVisitFront
    BY <2>1, SameQueuesKeepOrder
       DEF ControllerCall, ControllerLock, ControllerInterrupt,
           ControllerLocked, StartThreads, EmptyVisitFront, queueVars
  <2>2. CASE \/ EmptyVisitReady \/ StopBegin \/ StopSignal \/ StopJoin
             \/ ControllerUnlock \/ ControllerSignal
    BY <2>2, SameQueuesKeepOrder
       DEF EmptyVisitReady, StopBegin, StopSignal, StopJoin, ControllerUnlock,
           ControllerSignal, queueVars
  <2>3. CASE \E w \in Workers : EmptyVisitWorker(w) \/ StopThread(w)
    BY <2>3, SameQueuesKeepOrder DEF EmptyVisitWorker, StopThread, queueVars
  <2> QED BY <1>6, <2>1, <2>2, <2>3 DEF ControllerStep
<1>7. CASE UNCHANGED vars
  BY <1>7, SameQueuesKeepOrder DEF vars, queueVars
<1> QED BY <1>1, <1>2, <1>3, <1>4, <1>5, <1>6, <1>7 DEF Next

\* "The tasks start execution in worker threads in the same order as were posted": no
\* batch limit, no re-posting of a woken task and no change of the sched-thread makes
\* a queued task overtake another one.
THEOREM OrderIsFair == Spec => FairOrder
<1>1. IInv /\ IInv' /\ (TInv /\ Bar!IInv) /\ (TInv /\ Bar!IInv)' /\ [Next]_vars
        => [KeepsOrder]_vars
  BY StepKeepsOrder
<1>2. Spec => [][KeepsOrder]_vars
  BY <1>1, Invariance, TasksInvariance, PTL DEF Spec
<1>3. [KeepsOrder]_vars =>
        /\ [\A s, t \in Tasks :
               Ahead(s, t) =>
                  \/ Ahead(s, t)'
                  \/ s \notin In(Queued)'
                  \/ t \notin In(Queued)' /\ status'[t] = "WAITING"]_vars
        /\ [\A s, t \in Tasks :
               s \in In(Queued) \cap In(Queued)'
               /\ t \in In(Queued)' \ In(Queued) =>
                  Ahead(s, t)' \/ t \in heap \ heap']_vars
  BY DEF KeepsOrder
<1> QED BY <1>2, <1>3, PTL DEF FairOrder

=============================================================================
