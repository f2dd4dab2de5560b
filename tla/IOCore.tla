------------------------------- MODULE IOCore -------------------------------
(***************************************************************************)
(* IOCore and IOTask (src/mg/aio): a scheduler of tasks that own sockets.  *)
(* A task is posted to the front queue; the worker that is the sched-      *)
(* thread puts it to sleep, or gives it to the ready queue when it has     *)
(* kernel events, a passed deadline, a wakeup or a close; a worker takes   *)
(* it from there, calls its subscription's OnEvent() and posts it back.    *)
(*                                                                         *)
(* This module has what the four kernel backends share: the status of a    *)
(* task and those who race for it, the queues, the workers, Start() and    *)
(* Stop().  IOCoreEpoll, IOCoreKqueue, IOCoreUring and IOCoreIocp add the  *)
(* rounds of PrivScheduleDo() and the I/O operations; IOCoreBackends puts  *)
(* them together and the initial state chooses the backend.                *)
(*                                                                         *)
(* The front queue, the ready queue and the signal are atomic here: see    *)
(* MultiProducerQueue, MultiConsumerQueue and Signal for what they hide.   *)
(* Time is a clock of MaxTime ticks; a deadline beyond it never passes.    *)
(***************************************************************************)
EXTENDS Integers, Sequences, FiniteSets

CONSTANTS
    Tasks, Workers, Clients, NoTask,
    Scenarios,  \* records: backend, crew, side, deadlines, stops, breaks
    ExecBatch,  \* myExecBatchSize
    MaxTime,
    KernelBatch,\* how many completions one round takes
    RingSize    \* the submission queue of io_uring

ASSUME NoTaskAssumption == NoTask \notin Tasks

ASSUME ScenariosAssumption ==
    Scenarios \subseteq
       [backend : {"epoll", "kqueue", "iouring", "iocp"}, crew : SUBSET Workers,
        side : [Tasks -> {"none", "recv", "accept", "send", "timer"}],
        deadlines : SUBSET Nat, stops : BOOLEAN, breaks : BOOLEAN]

ASSUME ThreadsAssumption == Workers \cap Clients = {} /\ IsFiniteSet(Workers)

ASSUME TasksAssumption == IsFiniteSet(Tasks)

ASSUME BoundsAssumption ==
    /\ ExecBatch \in Nat \ {0} /\ KernelBatch \in Nat \ {0} /\ RingSize \in Nat \ {0}
    /\ MaxTime \in Nat

VARIABLES
    scenario,
    task,       \* the fields of every IOTask
    count,      \* myDescriptorCount
    queue,      \* the front, pending, waiting and ready queues
    scheduling, \* myIsSchedulerWorking
    round,      \* the locals of PrivScheduleDo()
    signal,     \* myReadySignal and a wakeup for the kernel's queue
    kernel,
    core,       \* the state of Start() and Stop()
    clock,
    thread

vars == <<scenario, task, count, queue, scheduling, round, signal, kernel, core,
          clock, thread>>

Threads == Workers \cup Clients
Infinite == MaxTime + 2
\* What the owner of a task does: it reads, accepts, connects and writes, or
\* just sets deadlines.
Side(t) == scenario.side[t]
Flag(t) == IF Side(t) = "send" THEN "out" ELSE "in"
ComesWithSocket(t) == Side(t) \in {"recv", "accept"}
backend == scenario.backend

\* The constructor.  pending and ready are the events of the platform: flags or
\* finished operations.  locked are the IOEvents that are in progress.
NewTask == [status |-> "PENDING", guard |-> FALSE, deadline |-> Infinite,
            isClosed |-> FALSE, inQueues |-> FALSE, isExpired |-> FALSE,
            sub |-> FALSE, socket |-> FALSE, pending |-> {}, ready |-> {},
            locked |-> {}, operations |-> 0, toSubmit |-> <<>>]

NewThread(pc) == [pc |-> pc, task |-> NoTask, batch |-> 0, final |-> FALSE]
Idle(p) == IF p \in Clients THEN "idle" ELSE "done"

NewRound == [timestamp |-> 0, harvest |-> {}, batch |-> 0, didWait |-> FALSE, full |-> FALSE]

Init ==
    /\ scenario \in Scenarios
    /\ task = [t \in Tasks |-> NewTask]
    /\ count = 0
    /\ queue = [front |-> <<>>, pending |-> <<>>, waiting |-> {}, list |-> <<>>,
                ready |-> <<>>]
    /\ scheduling = FALSE
    /\ round = NewRound
    /\ signal = [ready |-> FALSE, wake |-> FALSE]
    /\ kernel = [data |-> {}, reported |-> [t \in Tasks |-> {}], inside |-> {},
                 done |-> {}, cancelled |-> {}, poll |-> FALSE,
                 toSubmit |-> IF backend = "iouring" THEN <<<<NoTask, "signal">>>>
                                                     ELSE <<>>]
    /\ core = [state |-> "STOPPED", crew |-> {}, stop |-> FALSE]
    /\ clock = 0
    /\ thread = [p \in Threads |-> NewThread(Idle(p))]

At(p, pc) == thread[p].pc = pc
Of(p) == thread[p].task
Goto(p, pc) == [thread EXCEPT ![p].pc = pc]
Rest(p, pc) == [thread EXCEPT ![p] = NewThread(pc)]
SchedBatch == ExecBatch * Cardinality(core.crew)

-----------------------------------------------------------------------------
(* The calls of IOTask, from any thread.                                    *)

\* A worker is done with a task of its batch.
NextTask(w) ==
    LET n == thread[w].batch + 1 IN
    IF n < ExecBatch THEN [Rest(w, "pop") EXCEPT ![w].batch = n] ELSE Rest(w, "elect")

\* A task is out of p's hands.
Onwards(p) == IF p \in Clients THEN Rest(p, "idle")
              ELSE IF thread[p].final THEN Goto(p, "release") ELSE NextTask(p)

\* PrivRePost(): the first push into an empty queue signals the kernel.
Pushed(p, t) ==
    /\ queue' = [queue EXCEPT !.front = Append(@, t)]
    /\ thread' = IF queue.front = <<>> THEN Goto(p, "signal") ELSE Onwards(p)

\* PrivAttach() of a new task and PrivPostStart() up to the push.
Post(c, t) ==
    /\ At(c, "idle")
    /\ Side(t) # "none" /\ ~task[t].sub /\ ~task[t].isClosed
    /\ task' = [task EXCEPT ![t].sub = TRUE, ![t].inQueues = TRUE,
                            ![t].socket = ComesWithSocket(t)]
    /\ count' = count + 1
    /\ thread' = [thread EXCEPT ![c].pc = "push", ![c].task = t]
    /\ UNCHANGED <<scenario, queue, scheduling, round, signal, kernel, core, clock>>

\* PostClose() of a task: only the first call gets past the guard.
Closing(r) == IF r.guard THEN r ELSE [r EXCEPT !.guard = TRUE, !.status = "CLOSING"]

\* A mutant: the close pushes the task wherever it is.
PostClosePushes(p, t) ==
    /\ \/ p \in Clients /\ At(p, "idle") /\ Side(t) # "none"
       \/ p \in Workers /\ At(p, "callback") /\ t = Of(p)
    /\ ~task[t].guard
    /\ task' = [task EXCEPT ![t] = Closing(@)]
    /\ thread' = [thread EXCEPT ![p].pc = "push", ![p].task = t]
    /\ UNCHANGED <<scenario, count, queue, scheduling, round, signal, kernel, core, clock>>

PostClose(p, t) ==
    /\ \/ p \in Clients /\ At(p, "idle") /\ Side(t) # "none"
       \/ p \in Workers /\ At(p, "callback") /\ t = Of(p)
    /\ ~task[t].guard
    /\ task' = [task EXCEPT ![t] = Closing(@)]
    /\ thread' = IF task[t].status = "WAITING"
                 THEN [thread EXCEPT ![p].pc = "push", ![p].task = t] ELSE thread
    /\ UNCHANGED <<scenario, count, queue, scheduling, round, signal, kernel, core, clock>>

\* PostWakeup(): compares and exchanges until the task is awake.
PostWakeup(c, t) ==
    /\ At(c, "idle") /\ Side(t) # "none"
    /\ task[t].status \in {"WAITING", "PENDING"}
    /\ task' = [task EXCEPT ![t].status = "READY"]
    /\ thread' = IF task[t].status = "WAITING"
                 THEN [thread EXCEPT ![c].pc = "push", ![c].task = t] ELSE thread
    /\ UNCHANGED <<scenario, count, queue, scheduling, round, signal, kernel, core, clock>>

Push(p) ==
    /\ At(p, "push")
    /\ Pushed(p, Of(p))
    /\ UNCHANGED <<scenario, task, count, scheduling, round, signal, kernel, core, clock>>

PlatformSignal(p) ==
    /\ At(p, "signal")
    /\ signal' = [signal EXCEPT !.wake = TRUE]
    /\ thread' = Onwards(p)
    /\ UNCHANGED <<scenario, task, count, queue, scheduling, round, kernel, core, clock>>

-----------------------------------------------------------------------------
(* The worker: IOCoreWorker::Run().                                         *)

\* A worker that comes from its sleep looks at the stop request first.
ScheduleStart(w) ==
    /\ At(w, "elect")
    /\ scheduling' = TRUE
    /\ thread' = Rest(w, IF scheduling THEN "pop" ELSE "harvest")
    /\ UNCHANGED <<scenario, task, count, queue, round, signal, kernel, core, clock>>

\* After PrivScheduleDo() has returned false: once more, unless it is time to
\* stop.
Again == IF core.stop THEN "leave" ELSE "harvest"

ScheduleEnd(w) ==
    /\ \/ At(w, "finish") /\ thread' = Goto(w, "announce")
       \/ At(w, "leave") /\ thread' = Goto(w, "abandon")
    /\ scheduling' = FALSE
    /\ round' = NewRound
    /\ UNCHANGED <<scenario, task, count, queue, signal, kernel, core, clock>>

\* A mutant: a worker that leaves does not wake the next one.
SignalReadyOnce(w) ==
    /\ \/ At(w, "announce") /\ thread' = Goto(w, "pop")
       \/ At(w, "abandon") /\ thread' = Goto(w, "domino")
       \/ At(w, "exit") /\ thread' = Goto(w, "domino")
    /\ signal' = [signal EXCEPT !.ready = @ \/ ~At(w, "exit")]
    /\ UNCHANGED <<scenario, task, count, queue, scheduling, round, kernel, core, clock>>

\* The signal at the end of PrivScheduleEnd(), and the one before the exit.
SignalReady(w) ==
    /\ \/ At(w, "announce") /\ thread' = Goto(w, "pop")
       \/ At(w, "abandon") /\ thread' = Goto(w, "domino")
       \/ At(w, "exit") /\ thread' = Goto(w, "domino")
    /\ signal' = [signal EXCEPT !.ready = TRUE]
    /\ UNCHANGED <<scenario, task, count, queue, scheduling, round, kernel, core, clock>>

WorkerExit(w) ==
    /\ At(w, "domino")
    /\ signal' = [signal EXCEPT !.wake = TRUE]
    /\ thread' = Rest(w, "done")
    /\ UNCHANGED <<scenario, task, count, queue, scheduling, round, kernel, core, clock>>

Pop(w) ==
    /\ At(w, "pop")
    /\ IF queue.ready = <<>>
       THEN thread' = Rest(w, "wait") /\ queue' = queue
       ELSE /\ thread' = [thread EXCEPT ![w].pc = "execute", ![w].task = Head(queue.ready)]
            /\ queue' = [queue EXCEPT !.ready = Tail(@)]
    /\ UNCHANGED <<scenario, task, count, scheduling, round, signal, kernel, core, clock>>

WaitReady(w) ==
    /\ At(w, "wait")
    /\ signal.ready
    /\ signal' = [signal EXCEPT !.ready = FALSE]
    /\ thread' = Rest(w, IF core.stop THEN "exit" ELSE "elect")
    /\ UNCHANGED <<scenario, task, count, queue, scheduling, round, kernel, core, clock>>

\* A mutant: the status is stored, not compared and exchanged.
StartedAnyway(t) == [task[t] EXCEPT !.inQueues = FALSE, !.deadline = Infinite,
                                    !.status = "PENDING"]

\* PrivExecute(): the task leaves the queues; what OnEvent() has made of it is
\* in r, and k is what it has done to the kernel.
Started(t) == [task[t] EXCEPT !.inQueues = FALSE, !.deadline = Infinite,
                              !.status = IF @ = "READY" THEN "PENDING" ELSE @]

Execute(w, r, k) ==
    /\ At(w, "execute") /\ ~task[Of(w)].isClosed
    /\ task' = [task EXCEPT ![Of(w)] = r]
    /\ kernel' = k
    /\ thread' = Goto(w, "callback")
    /\ UNCHANGED <<scenario, count, queue, scheduling, round, signal, core, clock>>

\* The callback returns: PrivPost().
Return(w) ==
    /\ At(w, "callback")
    /\ task' = [task EXCEPT ![Of(w)].inQueues = TRUE]
    /\ Pushed(w, Of(w))
    /\ UNCHANGED <<scenario, count, scheduling, round, signal, kernel, core, clock>>

\* The last execution pops the subscription; r is what the platform's
\* PrivCloseEnd() makes of the task.
LastExecute(w, r) ==
    /\ At(w, "execute") /\ task[Of(w)].isClosed
    /\ task' = [task EXCEPT ![Of(w)] = [r EXCEPT !.sub = FALSE]]
    /\ thread' = [thread EXCEPT ![w].pc = "closed", ![w].final = TRUE]
    /\ UNCHANGED <<scenario, count, queue, scheduling, round, signal, kernel, core, clock>>

\* A mutant: the guard is cleared before the status.
ReattachUnguarded(w) ==
    /\ At(w, "closed")
    /\ task' = [task EXCEPT ![Of(w)].guard = FALSE]
    /\ thread' = Goto(w, "attach")
    /\ UNCHANGED <<scenario, count, queue, scheduling, round, signal, kernel, core, clock>>

\* The owner may reuse a closed task: PrivAttach() makes it PENDING first...
Reattach(w) ==
    /\ At(w, "closed")
    /\ task' = [task EXCEPT ![Of(w)].status = "PENDING"]
    /\ thread' = Goto(w, "attach")
    /\ UNCHANGED <<scenario, count, queue, scheduling, round, signal, kernel, core, clock>>

\* A mutant: a task that comes back is not counted.
RepostUncounted(w) ==
    LET t == Of(w) IN
    /\ At(w, "attach")
    /\ task' = [task EXCEPT ![t] = [@ EXCEPT
                    !.isClosed = FALSE, !.guard = FALSE, !.sub = TRUE,
                    !.socket = ComesWithSocket(t), !.inQueues = TRUE]]
    /\ Pushed(w, t)
    /\ UNCHANGED <<scenario, count, scheduling, round, signal, kernel, core, clock>>

\* ... and clears the guard when only the subscription and the socket are left.
Repost(w) ==
    LET t == Of(w) IN
    /\ At(w, "attach")
    /\ task' = [task EXCEPT ![t] = [@ EXCEPT
                    !.isClosed = FALSE, !.guard = FALSE, !.sub = TRUE,
                    !.socket = ComesWithSocket(t), !.inQueues = TRUE]]
    /\ count' = count + 1
    /\ Pushed(w, t)
    /\ UNCHANGED <<scenario, scheduling, round, signal, kernel, core, clock>>

\* PrivExecute() of the core has got false.
Release(w) ==
    /\ At(w, "closed") \/ At(w, "release")
    /\ count' = count - 1
    /\ thread' = NextTask(w)
    /\ UNCHANGED <<scenario, task, queue, scheduling, round, signal, kernel, core, clock>>

-----------------------------------------------------------------------------
(* Parts of PrivScheduleDo() that all backends repeat.  Each of its loops   *)
(* begins when the one before it is over.                                   *)

Top == CHOOSE t \in queue.waiting :
          \A u \in queue.waiting : task[t].deadline <= task[u].deadline

DeadlineIsNear(now) == queue.waiting # {} /\ now >= task[Top].deadline
IsExpired(t) == round.timestamp >= task[t].deadline

\* The task t becomes r and goes to the list of the round's ready tasks.
ToReady(t, r, pending) ==
    /\ task' = [task EXCEPT ![t] = r]
    /\ queue' = [queue EXCEPT !.list = Append(@, t), !.waiting = @ \ {t},
                              !.pending = pending]

\* PopAll() of the front queue, after the kernel's events are in the harvest.
Collect(w) ==
    /\ At(w, "collect")
    /\ queue' = [queue EXCEPT !.pending = @ \o queue.front, !.front = <<>>]
    /\ thread' = Goto(w, "kernel")
    /\ UNCHANGED <<scenario, task, count, scheduling, round, signal, kernel, core, clock>>

\* The front queue: its next task, unless the batch is over.
AtFront(w) == At(w, "front") \/ (At(w, "kernel") /\ round.harvest = {})
InFrontLoop(w) == AtFront(w) /\ queue.pending # <<>> /\ round.batch + 1 < SchedBatch

NextPending(w) ==
    /\ InFrontLoop(w)
    /\ round' = [round EXCEPT !.batch = @ + 1]
    /\ thread' = Goto(w, "front")
    /\ UNCHANGED <<scenario, count, scheduling, signal, core, clock>>

Sleeps(t) == task[t].status = "PENDING" /\ task[t].pending = {} /\ ~IsExpired(t)
Awake(status) == IF status = "PENDING" THEN "READY" ELSE status

\* The compare-and-exchange of PENDING to WAITING succeeds.
ToSleep(t, r) ==
    /\ Sleeps(t)
    /\ task' = [task EXCEPT ![t] = [r EXCEPT !.status = "WAITING"]]
    /\ queue' = [queue EXCEPT
           !.pending = Tail(@),
           !.waiting = IF r.deadline # Infinite THEN @ \cup {t} ELSE @]

\* The waiting queue: its top, as long as it is expired.
AtWaiting(w) == At(w, "expired") \/ (AtFront(w) /\ ~InFrontLoop(w))
ExpiredBatch(w) == IF At(w, "expired") THEN round.batch ELSE 0
InWaitingLoop(w) == /\ AtWaiting(w) /\ DeadlineIsNear(round.timestamp)
                    /\ ExpiredBatch(w) + 1 < SchedBatch

ExpireTop(w) ==
    /\ InWaitingLoop(w)
    /\ round' = [round EXCEPT !.batch = ExpiredBatch(w) + 1]
    /\ thread' = Goto(w, "expired")
    /\ IF task[Top].status = "WAITING"
       THEN ToReady(Top, [task[Top] EXCEPT !.status = "READY", !.isExpired = TRUE],
                    queue.pending)
       ELSE queue' = [queue EXCEPT !.waiting = @ \ {Top}] /\ task' = task
    /\ UNCHANGED <<scenario, count, scheduling, signal, kernel, core, clock>>

Publish(w, to) ==
    /\ AtWaiting(w) /\ ~InWaitingLoop(w)
    /\ queue' = [queue EXCEPT !.ready = @ \o queue.list, !.list = <<>>]
    /\ round' = [round EXCEPT !.batch = 0]
    /\ thread' = Goto(w, to)
    /\ UNCHANGED <<scenario, task, count, scheduling, signal, kernel, core, clock>>

\* A mutant: what has not been submitted is not looked at.
MoreToDoSubmitted == queue.ready # <<>> \/ queue.pending # <<>>

\* A task counts as ready until the consumer that has popped it says so.
MoreToDo == queue.ready # <<>> \/ queue.pending # <<>> \/ kernel.toSubmit # <<>>
MaySeeMore == MoreToDo \/ \E w \in Workers : At(w, "execute")
\* The sched-thread is about to sleep: it may not, if a deadline has passed or
\* if the core is stopping and no deadline is there to end the sleep.
MayPoll == IF queue.waiting # {} THEN ~DeadlineIsNear(clock)
                                 ELSE core.state = "RUNNING"

Decide(w, sleep, passed) ==
    /\ At(w, "decide")
    /\ thread' \in {Goto(w, to) : to \in
           (IF MaySeeMore THEN {"finish"} ELSE {}) \cup
           (IF MoreToDo THEN {} ELSE IF MayPoll THEN {sleep}
            ELSE IF queue.waiting # {} THEN {passed} ELSE {Again})}
    /\ UNCHANGED <<scenario, task, count, queue, scheduling, round, signal, kernel,
                   core, clock>>

-----------------------------------------------------------------------------
(* Start() and Stop(), under the core's mutex, and the time.                *)

\* The workers are all alike: a crew is the first so many of them.
Start(ws) ==
    /\ core.state = "STOPPED" /\ core' = [state |-> "RUNNING", crew |-> ws, stop |-> FALSE]
    /\ thread' = [p \in Threads |-> IF p \in ws THEN NewThread("elect") ELSE thread[p]]
    /\ UNCHANGED <<scenario, task, count, queue, scheduling, round, signal, kernel, clock>>

Stop ==
    /\ scenario.stops
    /\ core.state = "RUNNING" /\ core' = [core EXCEPT !.state = "STOPPING"]
    /\ UNCHANGED <<scenario, task, count, queue, scheduling, round, signal, kernel,
                   clock, thread>>

\* The workers' stop flags, then the signals for those who sleep.
StopWorkers ==
    /\ core.state = "STOPPING" /\ core' = [core EXCEPT !.state = "JOIN", !.stop = TRUE]
    /\ signal' = [ready |-> TRUE, wake |-> TRUE]
    /\ UNCHANGED <<scenario, task, count, queue, scheduling, round, kernel, clock, thread>>

StopJoin ==
    /\ core.state = "JOIN" /\ \A w \in core.crew : At(w, "done")
    /\ core' = [state |-> "STOPPED", crew |-> {}, stop |-> FALSE]
    /\ UNCHANGED <<scenario, task, count, queue, scheduling, round, signal, kernel,
                   clock, thread>>

Tick ==
    /\ clock < MaxTime /\ scenario.deadlines # {}
    /\ clock' = clock + 1
    /\ UNCHANGED <<scenario, task, count, queue, scheduling, round, signal, kernel,
                   core, thread>>

-----------------------------------------------------------------------------
ClientCall(c, t) == Post(c, t) \/ PostClose(c, t) \/ PostWakeup(c, t)

ThreadStep(p) == Push(p) \/ PlatformSignal(p)

WorkerStep(w) ==
    \/ ScheduleStart(w) \/ ScheduleEnd(w)
    \/ SignalReady(w) \/ WorkerExit(w) \/ Pop(w) \/ WaitReady(w)
    \/ Return(w) \/ PostClose(w, Of(w))
    \/ Reattach(w) \/ Repost(w) \/ Release(w)
    \/ Collect(w) \/ ThreadStep(w)

StopStart == Start(scenario.crew) \/ Stop
StopNext == StopWorkers \/ StopJoin

CommonNext ==
    \/ \E c \in Clients, t \in Tasks : ClientCall(c, t)
    \/ \E c \in Clients : ThreadStep(c)
    \/ \E w \in Workers : WorkerStep(w)
    \/ StopStart \/ StopNext \/ Tick
=============================================================================
