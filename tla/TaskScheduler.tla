--------------------------- MODULE TaskScheduler ---------------------------
(***************************************************************************)
(* mg::sch::TaskScheduler (src/mg/sch/TaskScheduler.{h,cpp}, Task.cpp):    *)
(* the worker threads, the scheduler role that migrates between them, the  *)
(* queues a task goes through, the two signals the workers sleep on, the   *)
(* clients that post, wake up and signal tasks, and a controller thread    *)
(* that calls Start(), IsEmpty() and Stop().                               *)
(*                                                                         *)
(* The parts the scheduler is built from appear as what they promise:      *)
(*   - myQueueFront: a sequence; Push() and PopAll() are atomic;           *)
(*   - myQueueReady: a sequence with atomic Pop(); its Count() still       *)
(*     counts a popped task until the consumer has decremented it;         *)
(*   - mySignalFront, mySignalReady: one-bit flags (module Signal);        *)
(*   - mySchedulerMutex: an owner and a waiter (module InterruptibleMutex).*)
(* Everything else that two threads can interleave is a step of its own.   *)
(* What only the holder of the mutex can see is merged with its next step. *)
(*                                                                         *)
(* Time: a deadline is absent, ahead, passed or infinite.  `earlier` keeps *)
(* the order in which deadlines have passed, which is the order the heap   *)
(* pops their tasks in; `late` holds the tasks whose deadlines have passed *)
(* since the sched-thread has read the clock.                              *)
(***************************************************************************)
EXTENDS Naturals, Sequences, FiniteSets

CONSTANTS
    Workers, Tasks, Clients,
    Controller,     \* the thread that starts, inspects and stops
    NoTask, NoThread,
    ExecBatch,      \* myExecBatchSize
    Calls,          \* what the controller calls, out of "start", "empty", "stop"
    ClientCalls,    \* what the clients call, out of "post", "wakeup", "signal"
    PostDeadlines   \* the deadlines tasks are posted with

ASSUME SchedulerAssumption ==
    /\ IsFiniteSet(Workers) /\ Workers # {}
    /\ ExecBatch \in Nat \ {0}
    /\ NoTask \notin Tasks
    /\ Controller \notin Workers
    /\ NoThread \notin Workers \cup {Controller}
    /\ Calls \subseteq {"start", "empty", "stop"}
    /\ ClientCalls \subseteq {"post", "wakeup", "signal"}
    /\ PostDeadlines \subseteq {"none", "future", "never"}

VARIABLES
    \* tasks
    status, deadline, isExpired, myScheduler,
    \* queues
    front, pending, heap, ready, readyQueue,
    \* signals and the scheduler mutex
    signalFront, signalReady, owner, waiting,
    \* time
    earlier, late,
    \* the sched-thread
    schedBatchSize, schedBatch,
    \* workers
    wpc, current, execBatch, workerState, stopRequested,
    \* clients
    cpc, pushing,
    \* controller
    kpc, started, toVisit, isEmpty

taskVars == <<status, deadline, isExpired, myScheduler>>
queueVars == <<front, pending, heap, ready, readyQueue>>
mutexVars == <<owner, waiting>>
timeVars == <<earlier, late>>
schedVars == <<schedBatchSize, schedBatch>>
workerVars == <<wpc, current, execBatch, workerState, stopRequested>>
clientVars == <<cpc, pushing>>
controllerVars == <<kpc, started, toVisit, isEmpty>>

vars == <<taskVars, queueVars, signalFront, signalReady, mutexVars, timeVars,
          schedVars, workerVars, clientVars, controllerVars>>

Set(f, x, v) == [f EXCEPT ![x] = v]

\* The tasks of a sequence.
In(s) == {s[i] : i \in DOMAIN s}

Passed == {t \in Tasks : deadline[t] = "passed"}

WorkerGoto(w, label) == wpc' = Set(wpc, w, label)
ClientGoto(c, label) == cpc' = Set(cpc, c, label)

Init ==
    /\ status = [t \in Tasks |-> "PENDING"]
    /\ deadline = [t \in Tasks |-> "none"]
    /\ isExpired = [t \in Tasks |-> FALSE]
    /\ myScheduler = [t \in Tasks |-> FALSE]
    /\ front = <<>> /\ pending = <<>> /\ heap = {} /\ ready = <<>>
    /\ readyQueue = <<>>
    /\ signalFront = FALSE /\ signalReady = FALSE
    /\ owner = NoThread /\ waiting = FALSE
    /\ earlier = {} /\ late = {}
    /\ schedBatchSize = ExecBatch /\ schedBatch = 0
    /\ wpc = [w \in Workers |-> "none"]
    /\ current = [w \in Workers |-> NoTask]
    /\ execBatch = [w \in Workers |-> 0]
    /\ workerState = [w \in Workers |-> "IDLE"]
    /\ stopRequested = [w \in Workers |-> FALSE]
    /\ cpc = [c \in Clients |-> "outside"]
    /\ pushing = [c \in Clients |-> NoTask]
    /\ kpc = "outside" /\ started = FALSE /\ toVisit = {} /\ isEmpty = FALSE

-----------------------------------------------------------------------------
(* Time.                                                                    *)

DeadlinePasses(t) ==
    /\ deadline[t] = "future"
    /\ deadline' = Set(deadline, t, "passed")
    /\ earlier' = earlier \cup (Passed \X {t})
    /\ late' = late \cup {t}
    /\ UNCHANGED <<status, isExpired, myScheduler, queueVars,
                   signalFront, signalReady, mutexVars, schedVars, workerVars,
                   clientVars, controllerVars>>

\* timestamp < deadline, with the time the sched-thread has read.
DeadlineAhead(t) == deadline[t] \in {"future", "never"} \/ t \in late

-----------------------------------------------------------------------------
(* Post(), PostWakeup(), PostSignal().                                      *)

\* A front queue that is served last-in first-out.
PushFrontReversed(t) == front' = <<t>> \o front

\* PrivPost(): who makes the front queue non-empty owes it the front signal, and
\* goes on to send it.
PushFront(t) == front' = Append(front, t)

OwesSignal == front = <<>>

\* The new owner of an idle task gives it a deadline and posts it.
ClientPost(c, t, d) ==
    /\ cpc[c] = "outside"
    /\ ~myScheduler[t] /\ \A w \in Workers : current[w] # t
    /\ deadline' = Set(deadline, t, d)
    /\ myScheduler' = Set(myScheduler, t, TRUE)
    /\ PushFront(t)
    /\ ClientGoto(c, IF OwesSignal THEN "send" ELSE "outside")
    /\ UNCHANGED <<status, isExpired, pending, heap, ready, readyQueue,
                   signalFront, signalReady, mutexVars, timeVars, schedVars,
                   workerVars, pushing, controllerVars>>

\* A waker that pushes the task whatever its old status was.
SetAwakeAndPush(c, t, new) ==
    /\ cpc[c] = "outside"
    /\ status' = Set(status, t, new)
    /\ pushing' = Set(pushing, c, t)
    /\ ClientGoto(c, "push")
    /\ UNCHANGED <<deadline, isExpired, myScheduler, queueVars, signalFront,
                   signalReady, mutexVars, timeVars, schedVars, workerVars,
                   controllerVars>>

\* The compare-and-exchange of PostWakeup(), the exchange of PostSignal().
SetAwake(c, t, new) ==
    /\ cpc[c] = "outside"
    /\ status' = Set(status, t, new)
    /\ IF status[t] = "WAITING"
       THEN /\ pushing' = Set(pushing, c, t)
            /\ ClientGoto(c, "push")
       ELSE UNCHANGED clientVars
    /\ UNCHANGED <<deadline, isExpired, myScheduler, queueVars, signalFront,
                   signalReady, mutexVars, timeVars, schedVars, workerVars,
                   controllerVars>>

\* A wakeup of a READY or SIGNALED task returns early.
ClientWakeup(c, t) ==
    /\ status[t] \in {"PENDING", "WAITING"}
    /\ SetAwake(c, t, "READY")

ClientSignal(c, t) == SetAwake(c, t, "SIGNALED")

ClientPush(c) ==
    /\ cpc[c] = "push"
    /\ PushFront(pushing[c])
    /\ pushing' = Set(pushing, c, NoTask)
    /\ ClientGoto(c, IF OwesSignal THEN "send" ELSE "outside")
    /\ UNCHANGED <<taskVars, pending, heap, ready, readyQueue, signalFront,
                   signalReady, mutexVars, timeVars, schedVars, workerVars,
                   controllerVars>>

ClientSend(c) ==
    /\ cpc[c] = "send"
    /\ signalFront' = TRUE
    /\ ClientGoto(c, "outside")
    /\ UNCHANGED <<taskVars, queueVars, signalReady, mutexVars, timeVars,
                   schedVars, workerVars, pushing, controllerVars>>

-----------------------------------------------------------------------------
(* TaskSchedulerThread::Run().                                              *)

\* while (!StopRequested()): the state becomes RUNNING.
WorkerLoop(w) ==
    /\ wpc[w] = "loop"
    /\ ~stopRequested[w]
    /\ workerState' = Set(workerState, w, "RUNNING")
    /\ WorkerGoto(w, "try_lock")
    /\ UNCHANGED <<taskVars, queueVars, signalFront, signalReady, mutexVars,
                   timeVars, schedVars, current, execBatch, stopRequested,
                   clientVars, controllerVars>>

\* The last worker leaves without the signal that lets the next one leave.
WorkerExitSilent(w) ==
    /\ wpc[w] = "loop"
    /\ stopRequested[w]
    /\ workerState' = Set(workerState, w, "IDLE")
    /\ WorkerGoto(w, "exited")
    /\ UNCHANGED <<taskVars, queueVars, signalFront, signalReady, mutexVars,
                   timeVars, schedVars, current, execBatch, stopRequested,
                   clientVars, controllerVars>>

\* A stopped worker passes the ready-signal on to the next one.
WorkerExit(w) ==
    /\ wpc[w] = "loop"
    /\ stopRequested[w]
    /\ workerState' = Set(workerState, w, "IDLE")
    /\ signalReady' = TRUE
    /\ WorkerGoto(w, "exited")
    /\ UNCHANGED <<taskVars, queueVars, signalFront, mutexVars, timeVars,
                   schedVars, current, execBatch, stopRequested, clientVars,
                   controllerVars>>

\* myConsumer.Pop().
WorkerPop(w) ==
    /\ wpc[w] = "pop"
    /\ IF readyQueue = <<>>
       THEN /\ WorkerGoto(w, "idle")
            /\ execBatch' = Set(execBatch, w, 0)
            /\ UNCHANGED <<readyQueue, current>>
       ELSE /\ current' = Set(current, w, Head(readyQueue))
            /\ readyQueue' = Tail(readyQueue)
            /\ WorkerGoto(w, "popped")
            /\ UNCHANGED execBatch
    /\ UNCHANGED <<taskVars, front, pending, heap, ready, signalFront,
                   signalReady, mutexVars, timeVars, schedVars, workerState,
                   stopRequested, clientVars, controllerVars>>

ExecutedStatus(s) == IF s = "READY" THEN "PENDING" ELSE s

\* PrivExecute() and Task::PrivExecute() up to the callback.
WorkerExecute(w) ==
    /\ wpc[w] = "popped"
    /\ LET t == current[w]
       IN  /\ myScheduler' = Set(myScheduler, t, FALSE)
           /\ status' = Set(status, t, ExecutedStatus(status[t]))
           /\ deadline' = Set(deadline, t, "none")
           /\ earlier' = {p \in earlier : t \notin {p[1], p[2]}}
           /\ late' = late \ {t}
    /\ WorkerGoto(w, "callback")
    /\ UNCHANGED <<isExpired, queueVars, signalFront, signalReady, mutexVars,
                   schedVars, current, execBatch, workerState, stopRequested,
                   clientVars, controllerVars>>

\* The task may call ReceiveSignal() ...
CallbackReceiveSignal(w) ==
    /\ wpc[w] = "callback"
    /\ current[w] # NoTask
    /\ status[current[w]] = "SIGNALED"
    /\ status' = Set(status, current[w], "PENDING")
    /\ UNCHANGED <<deadline, isExpired, myScheduler, queueVars, signalFront,
                   signalReady, mutexVars, timeVars, schedVars, workerVars,
                   clientVars, controllerVars>>

\* ... and post itself again, after which the callback leaves it alone.
CallbackPost(w, d) ==
    /\ wpc[w] = "callback"
    /\ current[w] # NoTask
    /\ deadline' = Set(deadline, current[w], d)
    /\ myScheduler' = Set(myScheduler, current[w], TRUE)
    /\ PushFront(current[w])
    /\ current' = Set(current, w, NoTask)
    /\ WorkerGoto(w, IF OwesSignal THEN "callback_send" ELSE "callback")
    /\ UNCHANGED <<status, isExpired, pending, heap, ready, readyQueue,
                   signalFront, signalReady, mutexVars, timeVars, schedVars,
                   execBatch, workerState, stopRequested, clientVars,
                   controllerVars>>

CallbackSend(w) ==
    /\ wpc[w] = "callback_send"
    /\ signalFront' = TRUE
    /\ WorkerGoto(w, "callback")
    /\ UNCHANGED <<taskVars, queueVars, signalReady, mutexVars, timeVars,
                   schedVars, current, execBatch, workerState, stopRequested,
                   clientVars, controllerVars>>

\* ++batch < maxBatch: pop one more, or take care of the scheduling.
CallbackReturn(w) ==
    /\ wpc[w] = "callback"
    /\ current' = Set(current, w, NoTask)
    /\ IF execBatch[w] + 1 < ExecBatch
       THEN /\ execBatch' = Set(execBatch, w, execBatch[w] + 1)
            /\ WorkerGoto(w, "pop")
       ELSE /\ execBatch' = Set(execBatch, w, 0)
            /\ WorkerGoto(w, "try_lock")
    /\ UNCHANGED <<taskVars, queueVars, signalFront, signalReady, mutexVars,
                   timeVars, schedVars, workerState, stopRequested, clientVars,
                   controllerVars>>

WorkerIdle(w) ==
    /\ wpc[w] = "idle"
    /\ workerState' = Set(workerState, w, "IDLE")
    /\ WorkerGoto(w, "wait_ready")
    /\ UNCHANGED <<taskVars, queueVars, signalFront, signalReady, mutexVars,
                   timeVars, schedVars, current, execBatch, stopRequested,
                   clientVars, controllerVars>>

\* PrivWaitReady().
WorkerWaitReady(w) ==
    /\ wpc[w] = "wait_ready"
    /\ signalReady
    /\ signalReady' = FALSE
    /\ WorkerGoto(w, "loop")
    /\ UNCHANGED <<taskVars, queueVars, signalFront, mutexVars, timeVars,
                   schedVars, current, execBatch, workerState, stopRequested,
                   clientVars, controllerVars>>

-----------------------------------------------------------------------------
(* PrivSchedule().                                                          *)

MutexFree == owner = NoThread

\* PrivSchedulerTryLock() and the reading of the clock.
SchedTryLock(w) ==
    /\ wpc[w] = "try_lock"
    /\ IF MutexFree
       THEN /\ owner' = w
            /\ late' = {}
            /\ schedBatch' = 0
            /\ WorkerGoto(w, "sched_waiting")
       ELSE /\ WorkerGoto(w, "pop")
            /\ UNCHANGED <<owner, late, schedBatch>>
    /\ UNCHANGED <<taskVars, queueVars, signalFront, signalReady, waiting,
                   earlier, schedBatchSize, current, execBatch, workerState,
                   stopRequested, clientVars, controllerVars>>

BatchHasRoom == schedBatch + 1 < schedBatchSize

\* The tasks in the heap that are due, and the one on top of the heap.
DueInHeap == (heap \cap Passed) \ late

IsTop(t) == t \in DueInHeap /\ \A u \in DueInHeap : <<u, t>> \notin earlier

\* One pass of the loop over the waiting tasks.
SchedExpire(w) ==
    /\ wpc[w] = "sched_waiting"
    /\ BatchHasRoom
    /\ \E t \in heap :
          /\ IsTop(t)
          /\ heap' = heap \ {t}
          /\ isExpired' = Set(isExpired, t, TRUE)
          /\ IF status[t] = "WAITING"
             THEN /\ status' = Set(status, t, "READY")
                  /\ ready' = Append(ready, t)
             ELSE UNCHANGED <<status, ready>>
    /\ schedBatch' = schedBatch + 1
    /\ UNCHANGED <<deadline, myScheduler, front, pending, readyQueue,
                   signalFront, signalReady, mutexVars, timeVars,
                   schedBatchSize, workerVars, clientVars, controllerVars>>

\* The end of that loop and myQueueFront.PopAll().
SchedCollect(w) ==
    /\ wpc[w] = "sched_waiting"
    /\ ~BatchHasRoom \/ DueInHeap = {}
    /\ pending' = pending \o front
    /\ front' = <<>>
    /\ schedBatch' = 0
    /\ WorkerGoto(w, "sched_front")
    /\ UNCHANGED <<taskVars, heap, ready, readyQueue, signalFront, signalReady,
                   mutexVars, timeVars, schedBatchSize, current, execBatch,
                   workerState, stopRequested, clientVars, controllerVars>>

\* The loop over the pending tasks takes the next one.
NextPending(w) ==
    /\ wpc[w] = "sched_front"
    /\ BatchHasRoom /\ pending # <<>>
    /\ pending' = Tail(pending)
    /\ schedBatch' = schedBatch + 1
    /\ UNCHANGED <<deadline, myScheduler, front, readyQueue,
                   signalFront, signalReady, mutexVars, timeVars,
                   schedBatchSize, workerVars, clientVars, controllerVars>>

\* The status is stored, not compared and exchanged: a wakeup is overwritten.
SchedParkByStore(w) ==
    /\ NextPending(w)
    /\ LET t == Head(pending)
       IN  /\ DeadlineAhead(t)
           /\ status' = Set(status, t, "WAITING")
           /\ isExpired' = Set(isExpired, t, FALSE)
           /\ heap' = IF deadline[t] = "never" THEN heap ELSE heap \cup {t}
    /\ UNCHANGED ready

SchedPark(w) ==
    /\ NextPending(w)
    /\ LET t == Head(pending)
       IN  /\ DeadlineAhead(t)
           /\ status[t] = "PENDING"
           /\ status' = Set(status, t, "WAITING")
           /\ isExpired' = Set(isExpired, t, FALSE)
           /\ heap' = IF deadline[t] = "never" THEN heap ELSE heap \cup {t}
    /\ UNCHANGED ready

SchedDispatch(w) ==
    /\ NextPending(w)
    /\ LET t == Head(pending)
       IN  /\ \/ ~DeadlineAhead(t)
              \/ status[t] # "PENDING"
           /\ status' = IF status[t] = "PENDING" THEN Set(status, t, "READY")
                                                 ELSE status
           /\ isExpired' = Set(isExpired, t, ~DeadlineAhead(t))
           /\ heap' = heap \ {t}
           /\ ready' = Append(ready, t)

\* PushPending() and FlushPending(): some first part of the list becomes
\* visible at a time, when a sub-queue is full and at the flush.
SchedPublish(w) ==
    /\ wpc[w] = "sched_front"
    /\ ~BatchHasRoom \/ pending = <<>>
    /\ ready # <<>>
    /\ \E n \in 1..Len(ready) :
          /\ readyQueue' = readyQueue \o SubSeq(ready, 1, n)
          /\ ready' = SubSeq(ready, n + 1, Len(ready))
    /\ UNCHANGED <<taskVars, front, pending, heap, signalFront, signalReady,
                   mutexVars, timeVars, schedVars, workerVars, clientVars,
                   controllerVars>>

\* myQueueReady.Count(): a popped task counts until its consumer says so.
ReadyCount == Len(readyQueue) + Cardinality({w \in Workers : wpc[w] = "popped"})

\* A sched-thread that forgets what its full batch has left behind.
SleepsOnPending == ReadyCount = 0

\* No ready and no pending tasks: sleep, unless a deadline has passed.
NothingToDo == ReadyCount = 0 /\ pending = <<>>

SchedDecide(w) ==
    /\ wpc[w] = "sched_front"
    /\ ~BatchHasRoom \/ pending = <<>>
    /\ ready = <<>>
    /\ WorkerGoto(w,
          CASE ~NothingToDo -> "sched_unlock"
            [] NothingToDo /\ heap = {} -> "sched_sleep"
            [] NothingToDo /\ heap # {} ->
                  IF heap \cap Passed = {} THEN "sched_sleep_timed"
                                               ELSE "sched_unlock")
    /\ UNCHANGED <<taskVars, queueVars, signalFront, signalReady, mutexVars,
                   timeVars, schedVars, current, execBatch, workerState,
                   stopRequested, clientVars, controllerVars>>

\* mySignalFront.ReceiveBlocking() or ReceiveTimed() gets the signal.
SchedReceiveFront(w) ==
    /\ wpc[w] \in {"sched_sleep", "sched_sleep_timed"}
    /\ signalFront
    /\ signalFront' = FALSE
    /\ WorkerGoto(w, "sched_unlock")
    /\ UNCHANGED <<taskVars, queueVars, signalReady, mutexVars, timeVars,
                   schedVars, current, execBatch, workerState, stopRequested,
                   clientVars, controllerVars>>

\* ReceiveTimed() ends without the signal: at the deadline, or any time before.
SchedTimeout(w) ==
    /\ wpc[w] = "sched_sleep_timed"
    /\ ~signalFront
    /\ WorkerGoto(w, "sched_unlock")
    /\ UNCHANGED <<taskVars, queueVars, signalFront, signalReady, mutexVars,
                   timeVars, schedVars, current, execBatch, workerState,
                   stopRequested, clientVars, controllerVars>>

\* mySchedulerMutex.Unlock(): the ownership goes to the one who waits for it.
HandOver ==
    /\ owner' = IF waiting THEN Controller ELSE NoThread
    /\ waiting' = FALSE

SchedUnlock(w) ==
    /\ wpc[w] = "sched_unlock"
    /\ HandOver
    /\ WorkerGoto(w, "sched_signal")
    /\ UNCHANGED <<taskVars, queueVars, signalFront, signalReady, timeVars,
                   schedVars, current, execBatch, workerState, stopRequested,
                   clientVars, controllerVars>>

\* An unlock whose ready-signal is sent for visible tasks only.
SchedSignalTasks(w) ==
    /\ wpc[w] = "sched_signal"
    /\ signalReady' = (signalReady \/ readyQueue # <<>>)
    /\ WorkerGoto(w, "pop")
    /\ UNCHANGED <<taskVars, queueVars, signalFront, mutexVars, timeVars,
                   schedVars, current, execBatch, workerState, stopRequested,
                   clientVars, controllerVars>>

\* "The signal is absolutely vital to have exactly here."
SchedSignal(w) ==
    /\ wpc[w] = "sched_signal"
    /\ signalReady' = TRUE
    /\ WorkerGoto(w, "pop")
    /\ UNCHANGED <<taskVars, queueVars, signalFront, mutexVars, timeVars,
                   schedVars, current, execBatch, workerState, stopRequested,
                   clientVars, controllerVars>>

-----------------------------------------------------------------------------
(* Start(), IsEmpty(), Stop().                                              *)

ControllerGoto(label) == kpc' = label

\* Where the controller waits for the mutex, and what it does once it owns it.
LockPCs == {"start_lock", "empty_lock", "stop_lock"}

AfterLock(label) == CASE label = "start_lock" -> "start"
                      [] label = "empty_lock" -> "empty_workers"
                      [] label = "stop_lock" -> "stop"

\* Start() must not be called twice.
ControllerCall ==
    /\ kpc = "outside"
    /\ \/ "start" \in Calls /\ ~started /\ ControllerGoto("start_lock")
       \/ "empty" \in Calls /\ ControllerGoto("empty_lock")
       \/ "stop" \in Calls /\ ControllerGoto("stop_lock")
    /\ UNCHANGED <<taskVars, queueVars, signalFront, signalReady, mutexVars,
                   timeVars, schedVars, workerVars, clientVars, started,
                   toVisit, isEmpty>>

\* PrivSchedulerLock(): take the free mutex, or interrupt the sched-thread and
\* wait for the ownership.
ControllerLock ==
    /\ kpc \in LockPCs
    /\ owner = NoThread
    /\ owner' = Controller
    /\ UNCHANGED <<taskVars, queueVars, signalFront, signalReady, waiting,
                   timeVars, schedVars, workerVars, clientVars, controllerVars>>

ControllerInterrupt ==
    /\ kpc \in LockPCs
    /\ owner \in Workers /\ ~waiting
    /\ waiting' = TRUE
    /\ signalFront' = TRUE
    /\ UNCHANGED <<taskVars, queueVars, signalReady, owner, timeVars, schedVars,
                   workerVars, clientVars, controllerVars>>

ControllerLocked ==
    /\ kpc \in LockPCs
    /\ owner = Controller
    /\ ControllerGoto(AfterLock(kpc))
    /\ toVisit' = IF started THEN Workers ELSE {}
    /\ UNCHANGED <<taskVars, queueVars, signalFront, signalReady, mutexVars,
                   timeVars, schedVars, workerVars, clientVars, started,
                   isEmpty>>

\* The threads are created; each begins with its own stop flag down.
StartThreads ==
    /\ kpc = "start"
    /\ schedBatchSize' = ExecBatch * Cardinality(Workers)
    /\ started' = TRUE
    /\ wpc' = [w \in Workers |-> "loop"]
    /\ stopRequested' = [w \in Workers |-> FALSE]
    /\ workerState' = [w \in Workers |-> "IDLE"]
    /\ toVisit' = {}
    /\ ControllerGoto("unlock")
    /\ UNCHANGED <<taskVars, queueVars, signalFront, signalReady, mutexVars,
                   timeVars, schedBatch, current, execBatch, clientVars,
                   isEmpty>>

\* IsEmpty() looks at the workers one by one ...
EmptyVisitWorker(w) ==
    /\ kpc = "empty_workers"
    /\ w \in toVisit
    /\ IF workerState[w] = "IDLE"
       THEN /\ toVisit' = toVisit \ {w}
            /\ UNCHANGED kpc
       ELSE /\ toVisit' = {}
            /\ ControllerGoto("unlock")
    /\ UNCHANGED <<taskVars, queueVars, signalFront, signalReady, mutexVars,
                   timeVars, schedVars, workerVars, clientVars, started,
                   isEmpty>>

\* ... then at the front queue, the heap and the pending tasks, of which only
\* the first can change meanwhile ...
EmptyVisitFront ==
    /\ kpc = "empty_workers"
    /\ toVisit = {}
    /\ ControllerGoto(IF front = <<>> /\ heap = {} /\ pending = <<>>
                      THEN "empty_ready" ELSE "unlock")
    /\ UNCHANGED <<taskVars, queueVars, signalFront, signalReady, mutexVars,
                   timeVars, schedVars, workerVars, clientVars, started,
                   toVisit, isEmpty>>

\* ... and at the ready queue.
EmptyVisitReady ==
    /\ kpc = "empty_ready"
    /\ isEmpty' = (ReadyCount = 0)
    /\ ControllerGoto("unlock")
    /\ UNCHANGED <<taskVars, queueVars, signalFront, signalReady, mutexVars,
                   timeVars, schedVars, workerVars, clientVars, started,
                   toVisit>>

StopBegin ==
    /\ kpc = "stop"
    /\ IF started
       THEN /\ schedBatchSize' = ExecBatch
            /\ ControllerGoto("stop_threads")
       ELSE /\ ControllerGoto("unlock")
            /\ UNCHANGED schedBatchSize
    /\ UNCHANGED <<taskVars, queueVars, signalFront, signalReady, mutexVars,
                   timeVars, schedBatch, workerVars, clientVars, started,
                   toVisit, isEmpty>>

StopThread(w) ==
    /\ kpc = "stop_threads"
    /\ w \in toVisit
    /\ stopRequested' = Set(stopRequested, w, TRUE)
    /\ toVisit' = toVisit \ {w}
    /\ UNCHANGED <<taskVars, queueVars, signalFront, signalReady, mutexVars,
                   timeVars, schedVars, wpc, current, execBatch, workerState,
                   clientVars, kpc, started, isEmpty>>

\* The ready-signal wakes one worker; each that leaves wakes the next.
StopSignal ==
    /\ kpc = "stop_threads"
    /\ toVisit = {}
    /\ signalReady' = TRUE
    /\ ControllerGoto("stop_join")
    /\ UNCHANGED <<taskVars, queueVars, signalFront, mutexVars, timeVars,
                   schedVars, workerVars, clientVars, started, toVisit,
                   isEmpty>>

\* StopAndDelete() of every thread: wait until it has left Run().
StopJoin ==
    /\ kpc = "stop_join"
    /\ \A w \in Workers : wpc[w] = "exited"
    /\ wpc' = [w \in Workers |-> "none"]
    /\ started' = FALSE
    /\ ControllerGoto("unlock")
    /\ UNCHANGED <<taskVars, queueVars, signalFront, signalReady, mutexVars,
                   timeVars, schedVars, current, execBatch, workerState,
                   stopRequested, clientVars, toVisit, isEmpty>>

\* PrivSchedulerUnlock() is the mutex first, the ready-signal second.
ControllerUnlock ==
    /\ kpc = "unlock"
    /\ HandOver
    /\ ControllerGoto("signal")
    /\ isEmpty' = FALSE
    /\ UNCHANGED <<taskVars, queueVars, signalFront, signalReady, timeVars,
                   schedVars, workerVars, clientVars, started, toVisit>>

ControllerSignal ==
    /\ kpc = "signal"
    /\ signalReady' = TRUE
    /\ ControllerGoto("outside")
    /\ UNCHANGED <<taskVars, queueVars, signalFront, mutexVars, timeVars,
                   schedVars, workerVars, clientVars, started, toVisit,
                   isEmpty>>

-----------------------------------------------------------------------------
\* What a client begins on its own will, and what it then has to finish.
ClientCall(c) ==
    \E t \in Tasks :
        \/ "post" \in ClientCalls /\ \E d \in PostDeadlines : ClientPost(c, t, d)
        \/ "wakeup" \in ClientCalls /\ ClientWakeup(c, t)
        \/ "signal" \in ClientCalls /\ ClientSignal(c, t)

ClientStep(c) == ClientPush(c) \/ ClientSend(c)

SchedStep(w) ==
    \/ SchedTryLock(w) \/ SchedExpire(w) \/ SchedCollect(w) \/ SchedPark(w)
    \/ SchedDispatch(w) \/ SchedPublish(w) \/ SchedDecide(w)
    \/ SchedReceiveFront(w) \/ SchedUnlock(w) \/ SchedSignal(w)

CallbackStep(w) ==
    \/ CallbackReceiveSignal(w)
    \/ \E d \in PostDeadlines : CallbackPost(w, d)
    \/ CallbackSend(w)
    \/ CallbackReturn(w)

WorkerStep(w) ==
    \/ WorkerLoop(w) \/ WorkerExit(w) \/ WorkerPop(w) \/ WorkerExecute(w)
    \/ WorkerIdle(w) \/ WorkerWaitReady(w)

ControllerStep ==
    \/ ControllerLock \/ ControllerInterrupt \/ ControllerLocked
    \/ StartThreads
    \/ \E w \in Workers : EmptyVisitWorker(w) \/ StopThread(w)
    \/ EmptyVisitFront \/ EmptyVisitReady
    \/ StopBegin \/ StopSignal \/ StopJoin
    \/ ControllerUnlock \/ ControllerSignal

Next ==
    \/ \E t \in Tasks : DeadlinePasses(t)
    \/ \E c \in Clients : ClientCall(c) \/ ClientStep(c)
    \/ \E w \in Workers :
          WorkerStep(w) \/ CallbackStep(w) \/ SchedStep(w) \/ SchedTimeout(w)
    \/ ControllerCall \/ ControllerStep

Spec == Init /\ [][Next]_vars

(***************************************************************************)
(* Fairness.  Threads inside the scheduler's code keep running and task    *)
(* callbacks return.  A timed wait ends once a deadline has passed.  The   *)
(* controller finishes the call it is in and starts the scheduler; nobody  *)
(* has to post, wake up or signal, and no deadline has to come.            *)
(***************************************************************************)
TimedOut(w) == heap \cap Passed # {} /\ SchedTimeout(w)

Fairness ==
    /\ \A w \in Workers :
          /\ WF_vars(WorkerStep(w)) /\ WF_vars(SchedStep(w))
          /\ WF_vars(CallbackSend(w) \/ CallbackReturn(w))
          /\ WF_vars(TimedOut(w))
    /\ \A c \in Clients : WF_vars(ClientStep(c))
    /\ WF_vars(ControllerStep)
    /\ WF_vars(ControllerCall /\ kpc' = "start_lock")

FairSpec == Spec /\ Fairness

-----------------------------------------------------------------------------
(* Properties                                                               *)

SchedPCs == {"sched_waiting", "sched_front", "sched_sleep",
             "sched_sleep_timed", "sched_unlock"}
WorkerPCs == SchedPCs \cup {"none", "loop", "try_lock", "sched_signal", "pop",
             "popped", "callback", "callback_send", "idle", "wait_ready",
             "exited"}
ControllerPCs == LockPCs \cup {"outside", "start", "empty_workers",
             "empty_ready", "stop", "stop_threads", "stop_join", "unlock",
             "signal"}

\* Every variable stays in its range.
TypeOK ==
    /\ status \in [Tasks -> {"PENDING", "WAITING", "READY", "SIGNALED"}]
    /\ deadline \in [Tasks -> {"none", "future", "passed", "never"}]
    /\ isExpired \in [Tasks -> BOOLEAN]
    /\ myScheduler \in [Tasks -> BOOLEAN]
    /\ front \in Seq(Tasks) /\ pending \in Seq(Tasks)
    /\ ready \in Seq(Tasks) /\ readyQueue \in Seq(Tasks)
    /\ heap \subseteq Tasks
    /\ signalFront \in BOOLEAN /\ signalReady \in BOOLEAN
    /\ owner \in Workers \cup {Controller, NoThread} /\ waiting \in BOOLEAN
    /\ earlier \subseteq Tasks \X Tasks /\ late \subseteq Tasks
    /\ schedBatchSize \in Nat /\ schedBatch \in Nat
    /\ wpc \in [Workers -> WorkerPCs]
    /\ current \in [Workers -> Tasks \cup {NoTask}]
    /\ execBatch \in [Workers -> Nat]
    /\ workerState \in [Workers -> {"RUNNING", "IDLE"}]
    /\ stopRequested \in [Workers -> BOOLEAN]
    /\ cpc \in [Clients -> {"outside", "push", "send"}]
    /\ pushing \in [Clients -> Tasks \cup {NoTask}]
    /\ kpc \in ControllerPCs /\ started \in BOOLEAN /\ isEmpty \in BOOLEAN
    /\ toVisit \subseteq Workers

\* The place of a task, as module TaskLifecycle understands it.
Executing(t) ==
    \E w \in Workers : current[w] = t /\ wpc[w] # "popped"

Place(t) ==
    CASE t \in In(front) -> "front"
      [] t \in In(pending) -> "collected"
      [] t \in In(ready) \cup In(readyQueue) -> "ready"
      [] Executing(t) -> "executing"
      [] ~myScheduler[t] /\ ~Executing(t) -> "outside"
      [] \E w \in Workers : current[w] = t /\ wpc[w] = "popped" -> "ready"
      [] OTHER -> "parked"

Lifecycle == INSTANCE TaskLifecycle WITH where <- [t \in Tasks |-> Place(t)]

\* Whatever the threads do, each task lives the life TaskLifecycle describes.
\* And it keeps moving: if in the end the scheduler is left running, with no call
\* of Start(), IsEmpty() or Stop() any more, a task that is woken up, is signalled
\* or has no deadline ahead is executed.
LeftRunning == <>[](started /\ kpc = "outside")

ImplementsFairTaskLifecycle == Lifecycle!Spec /\ (LeftRunning => Lifecycle!Fairness)

\* No task is twice in the queues, and none is in them and in a worker's hands.
Queued == readyQueue \o ready \o pending \o front

NoDuplicates ==
    /\ \A i, j \in DOMAIN Queued : Queued[i] = Queued[j] => i = j
    /\ \A w \in Workers : current[w] # NoTask => current[w] \notin In(Queued)
    /\ \A v, w \in Workers : current[v] = current[w] /\ v # w
          => current[v] = NoTask
    /\ \A t \in Tasks : t \in In(Queued) => myScheduler[t]

\* Only the owner of the mutex is inside PrivSchedule(), Start(), IsEmpty() or
\* Stop(), and somebody is there whenever the mutex is taken.
OneScheduler ==
    /\ \A w \in Workers : wpc[w] \in SchedPCs <=> owner = w
    /\ owner = Controller => kpc \notin {"outside", "signal"}
    /\ kpc \notin LockPCs \cup {"outside", "signal"}
          => owner = Controller
    /\ waiting => owner \in Workers /\ kpc \in LockPCs

\* The sched-thread does not sleep on tasks it has left behind when its batch was
\* full, nor through a push or an interruption: if there is something for it, the
\* front signal is there or on the way.
SleeperIsCalled ==
    owner \in Workers /\ wpc[owner] \in {"sched_sleep", "sched_sleep_timed"} =>
       /\ pending = <<>> /\ ready = <<>>
       /\ front # <<>> \/ waiting =>
             \/ signalFront
             \/ \E c \in Clients : cpc[c] = "send"
             \/ \E w \in Workers : wpc[w] = "callback_send"

\* "If the signal would not be emitted here, all the workers could block on
\* ready tasks in their loops": when every worker waits for ready tasks, the
\* ready-signal is there, or whoever has the mutex is going to send it.
SomebodySchedules ==
    started /\ (\A w \in Workers : wpc[w] = "wait_ready")
       => signalReady \/ kpc \in ControllerPCs \ {"outside"}

\* "The tasks start execution in worker threads in the same order as were
\* posted": two queued tasks keep their order until one of them is popped or put
\* to sleep, and a task that comes later stands behind all the queued ones,
\* unless its deadline has passed and it comes from the heap.
Ahead(s, t) == \E i, j \in DOMAIN Queued :
                  i < j /\ Queued[i] = s /\ Queued[j] = t

FairOrder ==
    [][\A s, t \in Tasks :
          Ahead(s, t) =>
             \/ Ahead(s, t)'
             \/ s \notin In(Queued)'
             \/ t \notin In(Queued)' /\ status'[t] = "WAITING"]_vars /\
    [][\A s, t \in Tasks :
          s \in In(Queued) \cap In(Queued)' /\ t \in In(Queued)' \ In(Queued) =>
             Ahead(s, t)' \/ t \in heap \ heap']_vars

\* Start(), IsEmpty() and Stop() return, although the sched-thread may sleep for
\* ever and Stop() holds the mutex while it waits for the workers.
CallReturns == kpc # "outside" ~> kpc = "outside"

\* "Even if all the queues are empty, it doesn't mean there are no tasks and
\* won't be new ones. Because the currently running tasks might produce new
\* tasks, and then the scheduler isn't empty": IsEmpty() is true only when no
\* worker runs a task.
EmptyMeansNoTaskRuns ==
    kpc = "unlock" /\ isEmpty => \A w \in Workers : current[w] = NoTask

\* "Wakeup guarantees that the task will be executed again without a delay".
Runnable(t) ==
    /\ myScheduler[t]
    /\ status[t] \in {"READY", "SIGNALED"} \/ deadline[t] \in {"none", "passed"}

RunnableTaskExecutes == \A t \in Tasks : Runnable(t) ~> Executing(t)
=============================================================================
