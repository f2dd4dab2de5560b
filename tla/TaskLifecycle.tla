--------------------------- MODULE TaskLifecycle ---------------------------
(***************************************************************************)
(* The journey of a task through the scheduler, as the tasks' atomic       *)
(* statuses define it (src/mg/sch/Task.cpp, the comments and compare-and-  *)
(* exchanges of TaskScheduler::PrivSchedule() and PrivExecute()).          *)
(*                                                                         *)
(* There are no workers, batches, locks or sleeping here, and the queues   *)
(* have no order: only where each task is, who may move it, and what the   *)
(* threads that wake it up or signal it do meanwhile.  TaskScheduler       *)
(* implements this specification with worker threads and real queues.      *)
(*                                                                         *)
(* Time is what the scheduler can tell about a deadline: there is none     *)
(* (0, the past), it is in the future, it has passed, or it is infinite.   *)
(***************************************************************************)
CONSTANTS
    Tasks,
    Clients,    \* threads that call PostWakeup() and PostSignal()
    NoTask

ASSUME NoTaskAssumption == NoTask \notin Tasks

VARIABLES
    status,     \* Task::myStatus
    where,      \* the place the task is at
    heap,       \* the tasks in myQueueWaiting (myIndex >= 0)
    deadline,   \* Task::myDeadline
    isExpired,  \* Task::myIsExpired
    pushing     \* the task a client has to push to the front queue

vars == <<status, where, heap, deadline, isExpired, pushing>>

Statuses == {"PENDING", "WAITING", "READY", "SIGNALED"}
Deadlines == {"none", "future", "passed", "never"}

\* "outside" and "executing": the task is its owner's, myScheduler is null.
\* "front" and "collected": in myQueueFront and in myQueuePending.  "parked":
\* asleep, in no list, perhaps in the heap.  "ready": in the scheduler's list
\* of ready tasks, in myQueueReady or just popped from it.
Places == {"outside", "front", "collected", "parked", "ready", "executing"}

Set(f, t, v) == [f EXCEPT ![t] = v]

Init ==
    /\ status = [t \in Tasks |-> "PENDING"]
    /\ where = [t \in Tasks |-> "outside"]
    /\ heap = {}
    /\ deadline = [t \in Tasks |-> "none"]
    /\ isExpired = [t \in Tasks |-> FALSE]
    /\ pushing = [c \in Clients |-> NoTask]

-----------------------------------------------------------------------------
(* The owner of the task: whoever posts it, then its own callback.          *)

\* SetDeadline()/SetDelay()/SetWait() and Post().
Post(t, d) ==
    /\ where[t] \in {"outside", "executing"}
    /\ d \in {"none", "future", "never"}
    /\ deadline' = Set(deadline, t, d)
    /\ where' = Set(where, t, "front")
    /\ UNCHANGED <<status, heap, isExpired, pushing>>

\* PrivExecute(): a woken task may be woken up again, a signal stays.
Execute(t) ==
    /\ where[t] = "ready"
    /\ where' = Set(where, t, "executing")
    /\ status' = IF status[t] = "READY" THEN Set(status, t, "PENDING")
                                        ELSE status
    /\ deadline' = Set(deadline, t, "none")
    /\ UNCHANGED <<heap, isExpired, pushing>>

ReceiveSignal(t) ==
    /\ where[t] = "executing"
    /\ status[t] = "SIGNALED"
    /\ status' = Set(status, t, "PENDING")
    /\ UNCHANGED <<where, heap, deadline, isExpired, pushing>>

\* The callback returns and has not posted the task.
Return(t) ==
    /\ where[t] = "executing"
    /\ where' = Set(where, t, "outside")
    /\ UNCHANGED <<status, heap, deadline, isExpired, pushing>>

-----------------------------------------------------------------------------
(* The clients.                                                             *)

\* A client that finds the task asleep takes on the duty to push it.
TakesDuty(c, t) ==
    pushing' = IF status[t] = "WAITING" THEN Set(pushing, c, t) ELSE pushing

\* PostWakeup() that re-pushes the task whatever its old status was.
WakeupAlwaysPushes(c, t) ==
    /\ pushing[c] = NoTask
    /\ status[t] \in {"PENDING", "WAITING"}
    /\ status' = Set(status, t, "READY")
    /\ pushing' = Set(pushing, c, t)
    /\ UNCHANGED <<where, heap, deadline, isExpired>>

\* PostWakeup(); on READY and SIGNALED it changes nothing.
Wakeup(c, t) ==
    /\ pushing[c] = NoTask
    /\ status[t] \in {"PENDING", "WAITING"}
    /\ status' = Set(status, t, "READY")
    /\ TakesDuty(c, t)
    /\ UNCHANGED <<where, heap, deadline, isExpired>>

\* PostSignal().
Signal(c, t) ==
    /\ pushing[c] = NoTask
    /\ status' = Set(status, t, "SIGNALED")
    /\ TakesDuty(c, t)
    /\ UNCHANGED <<where, heap, deadline, isExpired>>

\* PrivPost() by the client.
Push(c) ==
    /\ pushing[c] # NoTask
    /\ where' = Set(where, pushing[c], "front")
    /\ pushing' = Set(pushing, c, NoTask)
    /\ UNCHANGED <<status, heap, deadline, isExpired>>

-----------------------------------------------------------------------------
(* The scheduler.                                                           *)

DeadlinePasses(t) ==
    /\ deadline[t] = "future"
    /\ deadline' = Set(deadline, t, "passed")
    /\ UNCHANGED <<status, where, heap, isExpired, pushing>>

\* The front queue is popped as a whole.
Collect ==
    /\ \E t \in Tasks : where[t] = "front"
    /\ where' = [t \in Tasks |->
                    IF where[t] = "front" THEN "collected" ELSE where[t]]
    /\ UNCHANGED <<status, heap, deadline, isExpired, pushing>>

\* A collected task put to sleep by a store, not by a compare-and-exchange.
ParkByStore(t) ==
    /\ where[t] = "collected"
    /\ deadline[t] # "none"
    /\ status' = Set(status, t, "WAITING")
    /\ isExpired' = Set(isExpired, t, FALSE)
    /\ where' = Set(where, t, "parked")
    /\ heap' = IF deadline[t] = "never" THEN heap ELSE heap \cup {t}
    /\ UNCHANGED <<deadline, pushing>>

\* A collected task with a deadline ahead falls asleep.  The scheduler goes by
\* the time it has read, so the deadline may have passed by now.
Park(t) ==
    /\ where[t] = "collected"
    /\ deadline[t] # "none"
    /\ status[t] = "PENDING"
    /\ status' = Set(status, t, "WAITING")
    /\ isExpired' = Set(isExpired, t, FALSE)
    /\ where' = Set(where, t, "parked")
    /\ heap' = IF deadline[t] = "never" THEN heap ELSE heap \cup {t}
    /\ UNCHANGED <<deadline, pushing>>

\* What the scheduler does to a collected task that has to run.
MakeReady(t, expired) ==
    /\ isExpired' = Set(isExpired, t, expired)
    /\ where' = Set(where, t, "ready")
    /\ heap' = heap \ {t}
    /\ UNCHANGED <<deadline, pushing>>

\* A deadline ahead, but the task has been woken up or signalled.
DispatchWoken(t) ==
    /\ where[t] = "collected"
    /\ deadline[t] # "none"
    /\ status[t] # "PENDING"
    /\ MakeReady(t, FALSE)
    /\ UNCHANGED status

\* No deadline, or one that has passed.
DispatchExpired(t) ==
    /\ where[t] = "collected"
    /\ deadline[t] \in {"none", "passed"}
    /\ status' = IF status[t] = "PENDING" THEN Set(status, t, "READY")
                                          ELSE status
    /\ MakeReady(t, TRUE)

\* The deadline of a task in the heap has passed.  If somebody has woken it up
\* just now, the task is on its way to the front queue: only the heap forgets
\* it.
Expire(t) ==
    /\ t \in heap
    /\ deadline[t] = "passed"
    /\ heap' = heap \ {t}
    /\ isExpired' = Set(isExpired, t, TRUE)
    /\ IF status[t] = "WAITING"
       THEN /\ status' = Set(status, t, "READY")
            /\ where' = Set(where, t, "ready")
       ELSE UNCHANGED <<status, where>>
    /\ UNCHANGED <<deadline, pushing>>

-----------------------------------------------------------------------------
OwnerStep(t) ==
    \/ \E d \in Deadlines : Post(t, d)
    \/ ReceiveSignal(t)
    \/ Return(t)

SchedulerStep(t) ==
    Park(t) \/ DispatchWoken(t) \/ DispatchExpired(t) \/ Expire(t) \/ Execute(t)

ClientStep(c) == Push(c) \/ \E t \in Tasks : Wakeup(c, t) \/ Signal(c, t)

Next ==
    \/ Collect
    \/ \E t \in Tasks : OwnerStep(t) \/ SchedulerStep(t) \/ DeadlinePasses(t)
    \/ \E c \in Clients : ClientStep(c)

Spec == Init /\ [][Next]_vars

(***************************************************************************)
(* Fairness: the scheduler handles every task it has, a client finishes    *)
(* the call it is in.  No deadline has to come, no task has to be woken.   *)
(***************************************************************************)
Fairness ==
    /\ WF_vars(Collect)
    /\ \A t \in Tasks : WF_vars(SchedulerStep(t))
    /\ \A c \in Clients : WF_vars(Push(c))

FairSpec == Spec /\ Fairness

-----------------------------------------------------------------------------
(* Properties                                                               *)

\* Every variable stays in its range.
TypeOK ==
    /\ status \in [Tasks -> Statuses]
    /\ where \in [Tasks -> Places]
    /\ heap \subseteq Tasks
    /\ deadline \in [Tasks -> Deadlines]
    /\ isExpired \in [Tasks -> BOOLEAN]
    /\ pushing \in [Clients -> Tasks \cup {NoTask}]

\* A task that sleeps is WAITING; once it is not, exactly one client has the
\* duty to push it, and nobody pushes a task that is somewhere else ("Protocol
\* for wakers in that case is to push the task to the front queue").
OneWakerPushes ==
    /\ \A t \in Tasks :
          where[t] = "parked" /\ status[t] # "WAITING"
             => \E c \in Clients : pushing[c] = t
    /\ \A t \in Tasks : status[t] = "WAITING" => where[t] = "parked"
    /\ \A c \in Clients : pushing[c] # NoTask =>
          where[pushing[c]] = "parked" /\ status[pushing[c]] # "WAITING"
    /\ \A c, d \in Clients : pushing[c] = pushing[d] /\ c # d
          => pushing[c] = NoTask

\* "A task never should be in two queues simultaneously": a task in the heap is
\* asleep, or is awake and on its way to the scheduler, which then takes it off
\* the heap.  A task out of the scheduler is in no queue, and no client that
\* works on a wakeup or a signal will touch it any more ("the signal sender
\* does not use the task anymore. It can be safely deleted").
OneQueue ==
    \A t \in Tasks :
        /\ t \in heap => \/ where[t] = "parked"
                         \/ /\ where[t] \in {"front", "collected"}
                            /\ status[t] \in {"READY", "SIGNALED"}
        /\ t \in heap => deadline[t] \in {"future", "passed"}
        /\ where[t] \in {"outside", "executing", "ready"} =>
              t \notin heap /\ \A c \in Clients : pushing[c] # t

\* The assertion of PrivExecute(): who gets to the ready queue has been made
\* READY or SIGNALED exactly once on the way.
ReadyToExecute ==
    \A t \in Tasks : where[t] = "ready" => status[t] \in {"READY", "SIGNALED"}

\* IsExpired() tells a task "if it was woken up naturally, by a deadline": never
\* before the deadline, and "always true for tasks not having any deadline".
ExpiredIsTruthful ==
    \A t \in Tasks : where[t] = "ready" =>
        IF isExpired[t] THEN deadline[t] \in {"none", "passed"}
                        ELSE deadline[t] # "none"

\* A wakeup or a signal is not lost: a task READY or SIGNALED in the scheduler,
\* or READY in its callback, does not fall asleep before it has been executed,
\* and the wait for a signal ends only with its receipt.
WakeupNotLost ==
    [][\A t \in Tasks :
          /\ status[t] = "READY" /\ status'[t] # "READY" =>
                \/ status'[t] = "SIGNALED"
                \/ where[t] = "ready" /\ where'[t] = "executing"
          /\ status[t] = "SIGNALED" /\ status'[t] # "SIGNALED" =>
                where[t] = "executing"]_vars

\* "The task will be executed again without a delay, at least once": a task in
\* the scheduler that is woken up, is signalled or has no deadline ahead gets
\* executed, even if no other deadline ever comes.
Runnable(t) ==
    /\ where[t] \notin {"outside", "executing"}
    /\ \/ status[t] \in {"READY", "SIGNALED"}
       \/ deadline[t] \in {"none", "passed"}

RunnableTaskExecutes ==
    \A t \in Tasks : Runnable(t) ~> where[t] = "executing"
=============================================================================
