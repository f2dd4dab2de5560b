---------------------------- MODULE IOCoreProofs ----------------------------
(***************************************************************************)
(* Proofs about the IOCore for any numbers of workers, clients and tasks,  *)
(* with every backend: its types, that one worker at a time is the         *)
(* sched-thread and alone has what it took from the kernel, and that it    *)
(* sleeps with empty queues and within reach of whatever comes next.       *)
(*                                                                         *)
(* A step is looked at by its part of the loop, not by its backend: epoll  *)
(* and kqueue tell of flags, io_uring and IOCP of operations, and the rest *)
(* of PrivScheduleDo() is the same for all of them.                        *)
(***************************************************************************)
EXTENDS IOCoreBackends, SequenceTheorems, FiniteSetTheorems, WellFoundedInduction, TLAPS

\* The tasks in a queue.
In(s) == {s[i] : i \in DOMAIN s}

-----------------------------------------------------------------------------
(* Types.                                                                   *)

Statuses == {"PENDING", "WAITING", "READY", "CLOSING", "CLOSED"}

\* What a task is told of, what it waits for, and what the kernel may have of it:
\* flags of its socket, or operations.
Kinds == {"io", "fail", "cancel"}
Reports == IF Flagged THEN {"in", "out", "err"} ELSE Kinds
Locks == IF Flagged THEN {"in", "out"} ELSE {"io", "cancel"}
Operations == IF backend = "iouring" THEN (Tasks \X Kinds) \cup {SignalRead}
                                     ELSE Tasks \X Kinds
Harvests == IF Flagged THEN Tasks \X {"in", "out", "err"} ELSE Operations

TaskType ==
    [status : Statuses, guard : BOOLEAN, deadline : Nat, isClosed : BOOLEAN,
     inQueues : BOOLEAN, isExpired : BOOLEAN, sub : BOOLEAN, socket : BOOLEAN,
     pending : SUBSET Reports, ready : SUBSET Reports, locked : SUBSET Locks,
     operations : Int, toSubmit : Seq(Tasks \X {"io"})]

QueueType ==
    [front : Seq(Tasks), pending : Seq(Tasks), list : Seq(Tasks),
     ready : Seq(Tasks), waiting : SUBSET Tasks]

\* Where a thread is: in PrivScheduleDo(), with a task, or elsewhere.
SchedPCs == {"harvest", "collect", "kernel", "front", "expired", "submit",
             "decide", "poll", "finish", "leave"}
HandPCs == {"push", "execute", "callback", "closed", "attach"}
OtherPCs == {"idle", "done", "signal", "elect", "pop", "announce", "abandon",
             "domino", "exit", "wait", "release"}

PCs == SchedPCs \cup HandPCs \cup OtherPCs
ThreadType == [pc : PCs, task : Tasks \cup {NoTask}, batch : Nat,
               final : BOOLEAN]

RoundType == [timestamp : Nat, harvest : SUBSET Harvests, batch : Nat,
              didWait : BOOLEAN, full : BOOLEAN]

KernelType ==
    [data : SUBSET Tasks, reported : [Tasks -> SUBSET {"in", "out", "err"}],
     inside : SUBSET Operations, done : SUBSET Operations,
     cancelled : SUBSET Operations, poll : BOOLEAN, toSubmit : Seq(Operations)]

CoreType == [state : {"STOPPED", "RUNNING", "STOPPING", "JOIN"},
             crew : SUBSET Workers, stop : BOOLEAN]

TypeOK ==
    /\ scenario \in Scenarios
    /\ task \in [Tasks -> TaskType]
    /\ count \in Int
    /\ queue \in QueueType
    /\ scheduling \in BOOLEAN
    /\ round \in RoundType
    /\ signal \in [ready : BOOLEAN, wake : BOOLEAN]
    /\ kernel \in KernelType
    /\ core \in CoreType
    /\ clock \in Nat
    /\ thread \in [Threads -> ThreadType]

\* Who works on a task has one.
HandsAreFull ==
    /\ \A p \in Threads : thread[p].pc \in HandPCs => thread[p].task \in Tasks
    /\ \A c \in Clients : thread[c].pc \in {"idle", "push", "signal"}
    /\ \A w \in Workers : thread[w].pc # "idle"

-----------------------------------------------------------------------------
(* The parts of a step that all actions share.                              *)

\* The types depend on the scenario alone, which no step changes.
LEMMA SameTypes ==
    ASSUME TypeOK, scenario' = scenario,
           task' \in [Tasks -> TaskType], count' \in Int, queue' \in QueueType,
           scheduling' \in BOOLEAN, round' \in RoundType,
           signal' \in [ready : BOOLEAN, wake : BOOLEAN],
           kernel' \in KernelType, core' \in CoreType, clock' \in Nat,
           thread' \in [Threads -> ThreadType]
    PROVE  TypeOK'
<1>1. TaskType' = TaskType /\ RoundType' = RoundType /\ KernelType' = KernelType
  BY DEF TaskType, RoundType, KernelType, Reports, Locks, Harvests, Operations, Flagged, backend
<1> QED BY <1>1 DEF TypeOK, QueueType, CoreType, ThreadType

\* A thread goes on to another point, or rests there with no task.
LEMMA ThreadUpdates ==
    ASSUME thread \in [Threads -> ThreadType], NEW p \in Threads, NEW pc \in PCs
    PROVE  /\ Goto(p, pc) \in [Threads -> ThreadType]
           /\ Goto(p, pc)[p].pc = pc /\ Goto(p, pc)[p].task = thread[p].task
           /\ Goto(p, pc)[p].final <=> thread[p].final
           /\ \A q \in Threads : q # p => Goto(p, pc)[q] = thread[q]
           /\ Rest(p, pc) \in [Threads -> ThreadType]
           /\ Rest(p, pc)[p] = NewThread(pc)
           /\ \A q \in Threads : q # p => Rest(p, pc)[q] = thread[q]
           /\ NewThread(pc).pc = pc /\ NewThread(pc).task = NoTask
           /\ ~NewThread(pc).final
<1>1. thread[p] \in ThreadType
  OBVIOUS
<1>2. [thread[p] EXCEPT !.pc = pc] \in ThreadType
  BY <1>1 DEF ThreadType
<1>3. NewThread(pc) \in ThreadType
  BY DEF ThreadType, NewThread
<1> QED BY <1>1, <1>2, <1>3 DEF Goto, Rest, NewThread, ThreadType

\* A thread takes a task.
Taking(p, t, pc) == [thread EXCEPT ![p].pc = pc, ![p].task = t]

\* A thread takes a task into its hands.
LEMMA TakingUpdates ==
    ASSUME thread \in [Threads -> ThreadType], NEW p \in Threads, NEW pc \in PCs,
           NEW t \in Tasks
    PROVE  /\ Taking(p, t, pc) \in [Threads -> ThreadType]
           /\ Taking(p, t, pc)[p].pc = pc /\ Taking(p, t, pc)[p].task = t
           /\ Taking(p, t, pc)[p].final <=> thread[p].final
           /\ \A q \in Threads : q # p => Taking(p, t, pc)[q] = thread[q]
<1>1. thread[p] \in ThreadType
  OBVIOUS
<1>2. [thread[p] EXCEPT !.pc = pc, !.task = t] \in ThreadType
  BY <1>1 DEF ThreadType
<1> QED BY <1>1, <1>2 DEF Taking, ThreadType

\* A thread that is out of its call.
LEMMA NextTaskUpdates ==
    ASSUME thread \in [Threads -> ThreadType], NEW w \in Threads
    PROVE  /\ NextTask(w) \in [Threads -> ThreadType]
           /\ NextTask(w)[w].pc \in {"pop", "elect"} /\ NextTask(w)[w].task = NoTask
           /\ ~NextTask(w)[w].final
           /\ \A q \in Threads : q # w => NextTask(w)[q] = thread[q]
<1>1. thread[w] \in ThreadType
  OBVIOUS
<1>2. "pop" \in PCs /\ "elect" \in PCs
  BY DEF PCs, OtherPCs
<1>3. PICK n \in Nat : n = thread[w].batch + 1
  BY <1>1 DEF ThreadType
<1>4. [Rest(w, "pop") EXCEPT ![w].batch = n] \in [Threads -> ThreadType]
      /\ [Rest(w, "pop") EXCEPT ![w].batch = n][w].pc = "pop"
      /\ [Rest(w, "pop") EXCEPT ![w].batch = n][w].task = NoTask
      /\ ~[Rest(w, "pop") EXCEPT ![w].batch = n][w].final
      /\ \A q \in Threads : q # w => [Rest(w, "pop") EXCEPT ![w].batch = n][q] = thread[q]
  <2>1. [NewThread("pop") EXCEPT !.batch = n] \in ThreadType
    BY <1>2 DEF NewThread, ThreadType
  <2> QED BY <2>1, <1>2, ThreadUpdates DEF NewThread
<1>5. CASE n < ExecBatch
  BY <1>3, <1>4, <1>5 DEF NextTask
<1>6. CASE ~(n < ExecBatch)
  BY <1>3, <1>6, <1>2, ThreadUpdates DEF NextTask
<1> QED BY <1>5, <1>6

\* After a call a client is idle, and a worker releases its closed task or goes
\* on.
LEMMA OnwardsUpdates ==
    ASSUME thread \in [Threads -> ThreadType], NEW p \in Threads
    PROVE  /\ Onwards(p) \in [Threads -> ThreadType]
           /\ Onwards(p)[p].pc \in {"idle", "release", "pop", "elect"}
           /\ Onwards(p)[p].pc = "idle" <=> p \in Clients
           /\ Onwards(p)[p].pc = "release" => thread[p].final
           /\ p \notin Clients => Onwards(p)[p].final <=> thread[p].final
           /\ Onwards(p)[p].final => Onwards(p)[p].pc = "release"
           /\ \A q \in Threads : q # p => Onwards(p)[q] = thread[q]
<1>1. thread[p].final \in BOOLEAN /\ "idle" \in PCs /\ "release" \in PCs
  BY DEF ThreadType, PCs, OtherPCs
<1>2. CASE p \in Clients
  BY <1>1, <1>2, ThreadUpdates DEF Onwards
<1>3. CASE p \notin Clients /\ thread[p].final
  BY <1>1, <1>3, ThreadUpdates DEF Onwards
<1>4. CASE p \notin Clients /\ ~thread[p].final
  BY <1>1, <1>4, NextTaskUpdates DEF Onwards
<1> QED BY <1>2, <1>3, <1>4

\* The push of a task: the thread goes to signal the kernel, or on.
LEMMA PushedUpdates ==
    ASSUME TypeOK, NEW p \in Threads, NEW t \in Tasks, Pushed(p, t)
    PROVE  /\ queue' \in QueueType
           /\ queue'.front = Append(queue.front, t)
           /\ queue'.pending = queue.pending /\ queue'.list = queue.list
           /\ queue'.ready = queue.ready /\ queue'.waiting = queue.waiting
           /\ thread' \in [Threads -> ThreadType]
           /\ thread'[p].pc \in {"idle", "release", "pop", "elect", "signal"}
           /\ p \in Clients => thread'[p].pc \in {"idle", "signal"}
           /\ p \notin Clients => thread'[p].pc # "idle"
           /\ p \notin Clients => thread'[p].final <=> thread[p].final
           /\ thread'[p].pc = "release" => thread[p].final
           /\ thread'[p].final => thread'[p].pc \in {"release", "signal"}
           /\ \A q \in Threads : q # p => thread'[q] = thread[q]
<1>1. queue \in QueueType /\ thread \in [Threads -> ThreadType]
  BY DEF TypeOK
<1>2. queue.front \in Seq(Tasks) /\ Append(queue.front, t) \in Seq(Tasks)
  BY <1>1 DEF QueueType
<1>3. queue' = [queue EXCEPT !.front = Append(queue.front, t)]
  BY DEF Pushed
<1>4. queue' \in QueueType /\ queue'.front = Append(queue.front, t)
      /\ queue'.pending = queue.pending /\ queue'.list = queue.list
      /\ queue'.ready = queue.ready /\ queue'.waiting = queue.waiting
  BY <1>1, <1>2, <1>3 DEF QueueType
<1>5. CASE thread' = Goto(p, "signal")
  <2>1. "signal" \in PCs
    BY DEF PCs, OtherPCs
  <2> QED BY <1>1, <1>4, <1>5, <2>1, ThreadUpdates
<1>6. CASE thread' = Onwards(p)
  BY <1>1, <1>4, <1>6, OnwardsUpdates
<1> QED BY <1>5, <1>6 DEF Pushed

\* A step of one thread keeps the hands of all full that are to hold a task.
LEMMA HandsStep ==
    ASSUME HandsAreFull, NEW p \in Threads,
           \A q \in Threads : q # p => thread'[q] = thread[q],
           thread'[p].pc \in HandPCs => thread'[p].task \in Tasks,
           p \in Clients => thread'[p].pc \in {"idle", "push", "signal"},
           p \in Workers => thread'[p].pc # "idle"
    PROVE  HandsAreFull'
  BY DEF HandsAreFull, Threads

\* The fields of a task that the steps of the common part change.
LEMMA TaskUpdates ==
    ASSUME NEW r \in TaskType
    PROVE  /\ Closing(r) \in TaskType
           /\ \A s \in Statuses : [r EXCEPT !.status = s] \in TaskType
           /\ \A s \in BOOLEAN : [r EXCEPT !.sub = TRUE, !.inQueues = TRUE, !.socket = s]
                                    \in TaskType
           /\ [r EXCEPT !.inQueues = TRUE] \in TaskType
           /\ [r EXCEPT !.sub = FALSE] \in TaskType
           /\ \A s \in BOOLEAN :
                 [r EXCEPT !.isClosed = FALSE, !.guard = FALSE, !.sub = TRUE,
                           !.socket = s, !.inQueues = TRUE] \in TaskType
           /\ [r EXCEPT !.status = "READY", !.isExpired = TRUE] \in TaskType
  BY ZenonT(60) DEF TaskType, Statuses, Closing

TInv == TypeOK /\ HandsAreFull

\* PrivAttach() and PrivPostStart(), PostClose() and PostWakeup(), up to the
\* push, keep the types.
LEMMA CallTypes ==
    ASSUME TInv, NEW p \in Threads, NEW t \in Tasks,
           Post(p, t) \/ PostClose(p, t) \/ PostWakeup(p, t),
           p \in Clients \/ PostClose(p, t)
    PROVE  TInv'
<1> USE DEF TInv
<1>1. task[t] \in TaskType /\ thread \in [Threads -> ThreadType]
  BY DEF TypeOK
<1>2. "push" \in PCs /\ ComesWithSocket(t) \in BOOLEAN /\ "READY" \in Statuses
  BY DEF PCs, HandPCs, Statuses, ComesWithSocket
<1>3. task' \in [Tasks -> TaskType] /\ count' \in Int
  <2>1. CASE Post(p, t)
    <3>1. [task[t] EXCEPT !.sub = TRUE, !.inQueues = TRUE, !.socket = ComesWithSocket(t)]
             \in TaskType
      BY <1>1, <1>2, TaskUpdates
    <3>2. task' = [task EXCEPT ![t].sub = TRUE, ![t].inQueues = TRUE,
                               ![t].socket = ComesWithSocket(t)]
      BY <2>1 DEF Post
    <3> QED BY <2>1, <3>1, <3>2, <1>1 DEF Post, TypeOK
  <2>2. CASE PostClose(p, t)
    BY <2>2, <1>1, <1>2, TaskUpdates DEF PostClose, TypeOK
  <2>3. CASE PostWakeup(p, t)
    BY <2>3, <1>1, <1>2, TaskUpdates DEF PostWakeup, TypeOK
  <2> QED BY <2>1, <2>2, <2>3
<1>4. thread' = thread \/ thread' = Taking(p, t, "push")
  BY DEF Post, PostClose, PostWakeup, Taking
<1>5. thread' \in [Threads -> ThreadType] /\ HandsAreFull'
  <2>1. CASE thread' = thread
    BY <2>1, <1>1 DEF HandsAreFull
  <2>2. CASE thread' = Taking(p, t, "push")
    BY <2>2, <1>1, <1>2, TakingUpdates, HandsStep
  <2> QED BY <1>4, <2>1, <2>2
<1>6. scenario' = scenario /\ queue' = queue /\ scheduling' = scheduling /\ round' = round
      /\ signal' = signal /\ kernel' = kernel /\ core' = core /\ clock' = clock
  BY DEF Post, PostClose, PostWakeup
<1> QED BY <1>3, <1>5, <1>6, SameTypes DEF TypeOK

\* The push onto the front queue and the wakeup of the kernel keep the types.
LEMMA PushTypes ==
    ASSUME TInv, NEW p \in Threads, Push(p) \/ PlatformSignal(p)
    PROVE  TInv'
<1> USE DEF TInv
<1>1. thread \in [Threads -> ThreadType] /\ (p \in Clients => p \notin Workers)
  BY ThreadsAssumption DEF TypeOK
<1>2. CASE Push(p)
  <2>1. Of(p) \in Tasks
    BY <1>2 DEF Push, At, Of, HandsAreFull, HandPCs
  <2>2. TypeOK'
    BY <1>2, <2>1, PushedUpdates, SameTypes DEF Push, TypeOK
  <2>3. HandsAreFull'
    <3>1. Pushed(p, Of(p))
      BY <1>2 DEF Push
    <3>2. thread'[p].pc \in {"idle", "release", "pop", "elect", "signal"}
          /\ (p \in Clients => thread'[p].pc \in {"idle", "signal"})
          /\ (p \notin Clients => thread'[p].pc # "idle")
          /\ \A q \in Threads : q # p => thread'[q] = thread[q]
      BY <3>1, <2>1, PushedUpdates
    <3>3. thread'[p].pc \notin HandPCs
      BY <3>2 DEF HandPCs
    <3> QED BY <3>2, <3>3, <1>1, HandsStep
  <2> QED BY <2>2, <2>3
<1>3. CASE PlatformSignal(p)
  <2>1. thread' = Onwards(p)
    BY <1>3 DEF PlatformSignal
  <2>2. TypeOK'
    BY <1>3, <2>1, <1>1, OnwardsUpdates, SameTypes DEF PlatformSignal, TypeOK
  <2>3. HandsAreFull'
    BY <2>1, <1>1, OnwardsUpdates, HandsStep DEF HandPCs
  <2> QED BY <2>2, <2>3
<1> QED BY <1>2, <1>3

\* A step of a worker that only changes its place.
LEMMA WorkerGoes ==
    ASSUME TInv, NEW w \in Workers, NEW pc \in SchedPCs \cup OtherPCs, pc # "idle",
           thread' = Goto(w, pc) \/ thread' = Rest(w, pc)
    PROVE  thread' \in [Threads -> ThreadType] /\ HandsAreFull'
<1>1. w \in Threads /\ w \notin Clients /\ pc \in PCs /\ pc \notin HandPCs
  BY ThreadsAssumption DEF Threads, PCs, SchedPCs, OtherPCs, HandPCs
<1>2. thread \in [Threads -> ThreadType]
  BY DEF TInv, TypeOK
<1>3. CASE thread' = Goto(w, pc)
  BY <1>1, <1>2, <1>3, ThreadUpdates, HandsStep DEF TInv
<1>4. CASE thread' = Rest(w, pc)
  BY <1>1, <1>2, <1>4, ThreadUpdates, HandsStep DEF TInv
<1> QED BY <1>3, <1>4

\* The steps of a worker's loop that no backend overrides keep the types.
LEMMA WorkerTypes ==
    ASSUME TInv, NEW w \in Workers,
           \/ ScheduleStart(w) \/ ScheduleEnd(w) \/ SignalReady(w) \/ WorkerExit(w)
           \/ WaitReady(w) \/ Collect(w)
    PROVE  TInv'
<1> USE DEF TInv
<1>1. NewRound \in RoundType
  BY DEF NewRound, RoundType
<1>2. PICK pc \in SchedPCs \cup OtherPCs : pc # "idle"
                 /\ (thread' = Goto(w, pc) \/ thread' = Rest(w, pc))
  <2>1. CASE ScheduleStart(w)
    BY <2>1, Zenon DEF ScheduleStart, SchedPCs, OtherPCs
  <2>2. CASE ScheduleEnd(w)
    BY <2>2 DEF ScheduleEnd, SchedPCs, OtherPCs
  <2>3. CASE SignalReady(w)
    BY <2>3 DEF SignalReady, SchedPCs, OtherPCs
  <2>4. CASE WorkerExit(w)
    BY <2>4 DEF WorkerExit, SchedPCs, OtherPCs
  <2>5. CASE WaitReady(w)
    BY <2>5, Zenon DEF WaitReady, SchedPCs, OtherPCs
  <2>6. CASE Collect(w)
    BY <2>6 DEF Collect, SchedPCs, OtherPCs
  <2> QED BY <2>1, <2>2, <2>3, <2>4, <2>5, <2>6
<1>3. thread' \in [Threads -> ThreadType] /\ HandsAreFull'
  BY <1>2, WorkerGoes
<1>4. queue' \in QueueType
  <2>1. CASE Collect(w)
    <3>1. queue.pending \o queue.front \in Seq(Tasks) /\ <<>> \in Seq(Tasks)
      BY ConcatProperties DEF TypeOK, QueueType
    <3> QED BY <2>1, <3>1 DEF Collect, TypeOK, QueueType
  <2>2. CASE queue' = queue
    BY <2>2 DEF TypeOK
  <2> QED BY <2>1, <2>2 DEF ScheduleStart, ScheduleEnd, SignalReady, WorkerExit, WaitReady
<1>5. signal' \in [ready : BOOLEAN, wake : BOOLEAN]
  BY DEF TypeOK, ScheduleStart, ScheduleEnd, SignalReady, WorkerExit, WaitReady, Collect
<1>6. round' \in RoundType /\ scheduling' \in BOOLEAN
  BY <1>1 DEF TypeOK, ScheduleStart, ScheduleEnd, SignalReady, WorkerExit, WaitReady, Collect
<1>7. scenario' = scenario /\ task' = task /\ count' = count /\ kernel' = kernel
      /\ core' = core /\ clock' = clock
  BY DEF ScheduleStart, ScheduleEnd, SignalReady, WorkerExit, WaitReady, Collect
<1> QED BY <1>3, <1>4, <1>5, <1>6, <1>7, SameTypes DEF TypeOK

\* What a worker does with the task in its hands, or out of the ready queue.
LEMMA HandTypes ==
    ASSUME TInv, NEW w \in Workers,
           Pop(w) \/ Return(w) \/ Reattach(w) \/ Repost(w) \/ Release(w)
    PROVE  TInv'
<1> USE DEF TInv
<1>1. w \in Threads /\ w \notin Clients /\ thread \in [Threads -> ThreadType]
      /\ task \in [Tasks -> TaskType]
  BY ThreadsAssumption DEF Threads, TypeOK
<1>2. CASE Pop(w)
  <2>1. CASE queue.ready = <<>>
    <3>1. thread' = Rest(w, "wait") /\ queue' = queue
      BY <1>2, <2>1 DEF Pop
    <3>2. thread' \in [Threads -> ThreadType] /\ HandsAreFull'
      BY <3>1, WorkerGoes DEF OtherPCs
    <3> QED BY <1>2, <3>1, <3>2, SameTypes DEF Pop, TypeOK
  <2>2. CASE queue.ready # <<>>
    <3>1. Head(queue.ready) \in Tasks /\ Tail(queue.ready) \in Seq(Tasks) /\ "execute" \in PCs
      BY <2>2, HeadTailProperties DEF TypeOK, QueueType, PCs, HandPCs
    <3>2. thread' = Taking(w, Head(queue.ready), "execute")
          /\ queue' = [queue EXCEPT !.ready = Tail(queue.ready)]
      BY <1>2, <2>2 DEF Pop, Taking
    <3>3. thread' \in [Threads -> ThreadType] /\ HandsAreFull'
      BY <3>1, <3>2, <1>1, TakingUpdates, HandsStep
    <3>4. queue' \in QueueType
      BY <3>1, <3>2 DEF TypeOK, QueueType
    <3> QED BY <1>2, <3>3, <3>4, SameTypes DEF Pop, TypeOK
  <2> QED BY <2>1, <2>2
<1>3. CASE Return(w) \/ Repost(w)
  <2>1. Of(w) \in Tasks
    BY <1>1, <1>3 DEF Return, Repost, At, Of, HandsAreFull, HandPCs
  <2>2. Pushed(w, Of(w)) /\ task[Of(w)] \in TaskType
    BY <1>1, <1>3, <2>1 DEF Return, Repost
  <2>3. queue' \in QueueType /\ thread' \in [Threads -> ThreadType]
    BY <2>1, <2>2, <1>1, PushedUpdates
  <2>4. HandsAreFull'
    <3>1. thread'[w].pc \in {"idle", "release", "pop", "elect", "signal"}
          /\ (w \notin Clients => thread'[w].pc # "idle")
          /\ \A q \in Threads : q # w => thread'[q] = thread[q]
      BY <2>1, <2>2, <1>1, PushedUpdates
    <3>2. thread'[w].pc \notin HandPCs
      BY <3>1 DEF HandPCs
    <3> QED BY <3>1, <3>2, <1>1, HandsStep
  <2>5. task' \in [Tasks -> TaskType] /\ count' \in Int
    <3>1. CASE Return(w)
      BY <3>1, <2>1, <2>2, <1>1, TaskUpdates DEF Return, TypeOK
    <3>2. CASE Repost(w)
      <4>1. ComesWithSocket(Of(w)) \in BOOLEAN
        BY DEF ComesWithSocket
      <4>2. [task[Of(w)] EXCEPT !.isClosed = FALSE, !.guard = FALSE, !.sub = TRUE,
                !.socket = ComesWithSocket(Of(w)), !.inQueues = TRUE] \in TaskType
        BY <4>1, <2>2, TaskUpdates
      <4> QED BY <3>2, <4>2, <2>1, <1>1 DEF Repost, TypeOK
    <3> QED BY <1>3, <3>1, <3>2
  <2> QED BY <1>3, <2>3, <2>4, <2>5, SameTypes DEF Return, Repost, TypeOK
<1>4. CASE Reattach(w)
  <2>1. Of(w) \in Tasks /\ "attach" \in PCs /\ "PENDING" \in Statuses
    BY <1>1, <1>4 DEF Reattach, At, Of, HandsAreFull, HandPCs, PCs, Statuses
  <2>2. task' \in [Tasks -> TaskType]
    BY <1>1, <1>4, <2>1, TaskUpdates DEF Reattach
  <2>3. thread' \in [Threads -> ThreadType] /\ HandsAreFull'
    BY <1>1, <1>4, <2>1, ThreadUpdates, HandsStep DEF Reattach, Of
  <2> QED BY <1>4, <2>2, <2>3, SameTypes DEF Reattach, TypeOK
<1>5. CASE Release(w)
  <2>1. thread' \in [Threads -> ThreadType] /\ HandsAreFull'
    BY <1>1, <1>5, NextTaskUpdates, HandsStep DEF Release, HandPCs
  <2> QED BY <1>5, <2>1, SameTypes DEF Release, TypeOK
<1> QED BY <1>2, <1>3, <1>4, <1>5

\* Start(), Stop() and the clock keep the types.
LEMMA ControlTypes ==
    ASSUME TInv, Start(scenario.crew) \/ Stop \/ StopWorkers \/ StopJoin \/ Tick
    PROVE  TInv'
<1> USE DEF TInv
<1>1. scenario.crew \in SUBSET Workers
  BY ScenariosAssumption DEF TypeOK
<1>2. CASE Start(scenario.crew)
  <2>1. "elect" \in PCs /\ "elect" \notin HandPCs /\ NewThread("elect") \in ThreadType
    BY DEF PCs, OtherPCs, NewThread, ThreadType, HandPCs
  <2>2. thread' = [p \in Threads |-> IF p \in scenario.crew THEN NewThread("elect")
                                     ELSE thread[p]]
    BY <1>2 DEF Start
  <2>3. thread' \in [Threads -> ThreadType]
    BY <2>1, <2>2 DEF TypeOK
  <2>4. HandsAreFull'
    BY <2>1, <2>2, <1>1, ThreadsAssumption DEF HandsAreFull, Threads, NewThread
  <2>5. core' \in CoreType
    BY <1>1, <1>2 DEF Start, CoreType
  <2> QED BY <1>2, <2>3, <2>4, <2>5, SameTypes DEF Start, TypeOK
<1>3. CASE Stop \/ StopWorkers \/ StopJoin
  <2>1. core' \in CoreType
    <3>0. core \in CoreType
      BY DEF TypeOK
    <3>1. CASE Stop
      BY <3>0, <3>1 DEF Stop, CoreType
    <3>2. CASE StopWorkers
      BY <3>0, <3>2 DEF StopWorkers, CoreType
    <3>3. CASE StopJoin
      BY <3>3 DEF StopJoin, CoreType
    <3> QED BY <1>3, <3>1, <3>2, <3>3
  <2>2. signal' \in [ready : BOOLEAN, wake : BOOLEAN]
    <3>1. CASE Stop \/ StopJoin
      BY <3>1 DEF Stop, StopJoin, TypeOK
    <3>2. CASE StopWorkers
      BY <3>2 DEF StopWorkers
    <3> QED BY <1>3, <3>1, <3>2
  <2>3. thread' = thread
    BY <1>3 DEF Stop, StopWorkers, StopJoin
  <2>4. HandsAreFull'
    BY <2>3 DEF HandsAreFull
  <2>5. TypeOK'
    BY <1>3, <2>1, <2>2, SameTypes DEF Stop, StopWorkers, StopJoin, TypeOK
  <2> QED BY <2>4, <2>5
<1>4. CASE Tick
  BY <1>4, SameTypes DEF Tick, TypeOK, HandsAreFull
<1> QED BY <1>2, <1>3, <1>4

-----------------------------------------------------------------------------
(* The waiting queue has a top.                                             *)

Below == {d \in Nat \X Nat : d[1] < d[2]}

\* The binary heap of the waiting tasks has a top: some deadline is the least.
LEMMA LeastDeadline ==
    ASSUME NEW S \in SUBSET Nat, S # {}
    PROVE  \E x \in S : \A y \in S : x <= y
<1>1. IsWellFoundedOn(Below, Nat)
  BY NatLessThanWellFounded DEF OpToRel, Below
<1>2. PICK x \in S : \A y \in S : <<y, x>> \notin Below
  BY <1>1, WFMin
<1>3. ASSUME NEW y \in S, ~(x <= y) PROVE FALSE
  <2>1. x \in Nat /\ y \in Nat /\ y < x
    BY <1>3
  <2>2. <<y, x>> \in Below
    BY <2>1 DEF Below
  <2> QED BY <2>2, <1>2
<1> QED BY <1>3

\* The top of the heap is one of the tasks that wait.
LEMMA TopWaits ==
    ASSUME TypeOK, queue.waiting # {}
    PROVE  Top \in queue.waiting /\ Top \in Tasks
<1>1. queue.waiting \subseteq Tasks
  BY DEF TypeOK, QueueType
<1>2. \A t \in Tasks : task[t].deadline \in Nat
  BY DEF TypeOK, TaskType
<1>3. \E t \in queue.waiting : \A u \in queue.waiting : task[t].deadline <= task[u].deadline
  <2> DEFINE S == {task[t].deadline : t \in queue.waiting}
  <2>1. S \in SUBSET Nat /\ S # {}
    BY <1>1, <1>2
  <2>2. PICK x \in S : \A y \in S : x <= y
    BY <2>1, LeastDeadline
  <2> QED BY <2>2
<1> QED BY <1>1, <1>3 DEF Top

-----------------------------------------------------------------------------
(* The parts of PrivScheduleDo().                                           *)

\* PrivWaitingQueueRemove() and the append to the ready list, for one task.
LEMMA ToReadyUpdates ==
    ASSUME TypeOK, NEW t \in Tasks, NEW r \in TaskType, NEW rest \in Seq(Tasks),
           ToReady(t, r, rest)
    PROVE  /\ task' \in [Tasks -> TaskType] /\ task'[t] = r
           /\ \A u \in Tasks : u # t => task'[u] = task[u]
           /\ queue' \in QueueType
           /\ queue'.front = queue.front /\ queue'.pending = rest
           /\ queue'.ready = queue.ready /\ queue'.list = Append(queue.list, t)
           /\ queue'.waiting = queue.waiting \ {t}
<1>1. queue \in QueueType /\ Append(queue.list, t) \in Seq(Tasks)
  BY DEF TypeOK, QueueType
<1>2. queue' = [queue EXCEPT !.list = Append(queue.list, t),
                             !.waiting = queue.waiting \ {t}, !.pending = rest]
  BY DEF ToReady
<1>3. queue.waiting \ {t} \in SUBSET Tasks
  BY <1>1 DEF QueueType
<1>4. task' = [task EXCEPT ![t] = r] /\ task \in [Tasks -> TaskType]
  BY DEF ToReady, TypeOK
<1>5. queue' \in QueueType
      /\ queue'.front = queue.front /\ queue'.pending = rest
      /\ queue'.ready = queue.ready /\ queue'.list = Append(queue.list, t)
      /\ queue'.waiting = queue.waiting \ {t}
  BY <1>1, <1>2, <1>3 DEF QueueType
<1> QED BY <1>4, <1>5

\* A task leaves the pending queue, for the heap or for nowhere.
LEMMA LeavesPending ==
    ASSUME TypeOK, NEW t \in Tasks, NEW r \in TaskType, queue.pending # <<>>,
           NEW waits \in SUBSET Tasks,
           task' = [task EXCEPT ![t] = r],
           queue' = [queue EXCEPT !.pending = Tail(@), !.waiting = waits]
    PROVE  /\ task' \in [Tasks -> TaskType] /\ task'[t] = r
           /\ \A u \in Tasks : u # t => task'[u] = task[u]
           /\ queue' \in QueueType
           /\ queue'.front = queue.front /\ queue'.pending = Tail(queue.pending)
           /\ queue'.ready = queue.ready /\ queue'.list = queue.list
           /\ queue'.waiting = waits
<1>1. queue \in QueueType /\ Tail(queue.pending) \in Seq(Tasks)
  BY HeadTailProperties DEF TypeOK, QueueType
<1>2. queue' \in QueueType
      /\ queue'.front = queue.front /\ queue'.pending = Tail(queue.pending)
      /\ queue'.ready = queue.ready /\ queue'.list = queue.list
      /\ queue'.waiting = waits
  BY <1>1 DEF QueueType
<1> QED BY <1>2 DEF TypeOK

\* A task of the front queue goes to sleep, in the heap if it has a deadline.
LEMMA ToSleepUpdates ==
    ASSUME TypeOK, NEW t \in Tasks, NEW r \in TaskType, queue.pending # <<>>,
           ToSleep(t, r)
    PROVE  /\ task' \in [Tasks -> TaskType]
           /\ task'[t] = [r EXCEPT !.status = "WAITING"]
           /\ \A u \in Tasks : u # t => task'[u] = task[u]
           /\ queue' \in QueueType
           /\ queue'.front = queue.front /\ queue'.pending = Tail(queue.pending)
           /\ queue'.ready = queue.ready /\ queue'.list = queue.list
           /\ queue'.waiting = IF r.deadline # Infinite THEN queue.waiting \cup {t}
                                                        ELSE queue.waiting
<1>1. [r EXCEPT !.status = "WAITING"] \in TaskType
  BY TaskUpdates DEF Statuses
<1>2. PICK waits \in SUBSET Tasks :
        waits = IF r.deadline # Infinite THEN queue.waiting \cup {t} ELSE queue.waiting
  BY DEF TypeOK, QueueType
<1>3. queue' = [queue EXCEPT !.pending = Tail(@), !.waiting = waits]
  <2>1. queue' = [queue EXCEPT !.pending = Tail(@),
               !.waiting = IF r.deadline # Infinite THEN @ \cup {t} ELSE @]
    BY DEF ToSleep
  <2>2. CASE r.deadline # Infinite
    BY <2>1, <2>2, <1>2
  <2>3. CASE r.deadline = Infinite
    BY <2>1, <2>3, <1>2
  <2> QED BY <2>2, <2>3
<1>4. task' = [task EXCEPT ![t] = [r EXCEPT !.status = "WAITING"]]
  BY DEF ToSleep
<1>5. PICK s \in TaskType : s = [r EXCEPT !.status = "WAITING"]
  BY <1>1
<1>6. task' = [task EXCEPT ![t] = s]
  BY <1>4, <1>5
<1>7. /\ task' \in [Tasks -> TaskType] /\ task'[t] = s
      /\ \A u \in Tasks : u # t => task'[u] = task[u]
      /\ queue' \in QueueType
      /\ queue'.front = queue.front /\ queue'.pending = Tail(queue.pending)
      /\ queue'.ready = queue.ready /\ queue'.list = queue.list
      /\ queue'.waiting = waits
  BY <1>3, <1>6, LeavesPending
<1> QED BY <1>2, <1>5, <1>7

\* PrivScheduleDo() takes the next task of its copy of the front queue.
LEMMA NextPendingUpdates ==
    ASSUME TInv, NEW w \in Workers, NextPending(w)
    PROVE  /\ queue.pending # <<>> /\ Head(queue.pending) \in Tasks
           /\ Tail(queue.pending) \in Seq(Tasks)
           /\ task[Head(queue.pending)] \in TaskType
           /\ round' \in RoundType /\ round'.harvest = round.harvest
           /\ round'.timestamp = round.timestamp
           /\ thread' = Goto(w, "front")
           /\ thread' \in [Threads -> ThreadType] /\ HandsAreFull'
           /\ scenario' = scenario /\ count' = count /\ scheduling' = scheduling
           /\ signal' = signal /\ core' = core /\ clock' = clock
<1>1. queue.pending # <<>>
  BY DEF NextPending, InFrontLoop
<1>2. queue.pending \in Seq(Tasks) /\ task \in [Tasks -> TaskType]
  BY DEF TInv, TypeOK, QueueType
<1>3. thread' = Goto(w, "front")
  BY DEF NextPending
<1>4. thread' \in [Threads -> ThreadType] /\ HandsAreFull'
  BY <1>3, WorkerGoes DEF SchedPCs
<1>5. round' \in RoundType /\ round'.harvest = round.harvest
      /\ round'.timestamp = round.timestamp
  BY DEF NextPending, TInv, TypeOK, RoundType
<1> QED BY <1>1, <1>2, <1>3, <1>4, <1>5, HeadTailProperties DEF NextPending

\* A deadline is over or it is not.
LEMMA IsExpiredType == \A t : IsExpired(t) \in BOOLEAN
  BY DEF IsExpired

\* Expired deadlines, the publication of the ready list and the end of a round
\* keep the types.
LEMMA RoundTypes ==
    ASSUME TInv, NEW w \in Workers,
           \/ ExpireTop(w)
           \/ \E to \in SchedPCs : Publish(w, to)
           \/ \E sleep, passed \in SchedPCs : Decide(w, sleep, passed)
    PROVE  TInv'
<1> USE DEF TInv
<1>1. CASE ExpireTop(w)
  <2>1. queue.waiting # {}
    BY <1>1 DEF ExpireTop, InWaitingLoop, DeadlineIsNear
  <2>2. PICK t \in Tasks : t = Top
    BY <2>1, TopWaits
  <2>3. thread' \in [Threads -> ThreadType] /\ HandsAreFull'
    <3>1. thread' = Goto(w, "expired")
      BY <1>1 DEF ExpireTop
    <3> QED BY <3>1, WorkerGoes DEF SchedPCs
  <2>4. round' \in RoundType
    <3>1. ExpiredBatch(w) + 1 \in Nat
      BY DEF ExpiredBatch, TypeOK, RoundType
    <3> QED BY <1>1, <3>1 DEF ExpireTop, TypeOK, RoundType
  <2>5. task' \in [Tasks -> TaskType] /\ queue' \in QueueType
    <3>0. queue \in QueueType
      BY DEF TypeOK
    <3>1. CASE task[t].status = "WAITING"
      <4>1. [task[t] EXCEPT !.status = "READY", !.isExpired = TRUE] \in TaskType
        BY TaskUpdates DEF TypeOK
      <4>2. ToReady(t, [task[t] EXCEPT !.status = "READY", !.isExpired = TRUE],
                    queue.pending)
        BY <1>1, <2>2, <3>1 DEF ExpireTop
      <4>3. queue.pending \in Seq(Tasks)
        BY <3>0 DEF QueueType
      <4> QED BY <4>1, <4>2, <4>3, ToReadyUpdates
    <3>2. CASE task[t].status # "WAITING"
      <4>1. queue' = [queue EXCEPT !.waiting = @ \ {t}] /\ task' = task
        BY <1>1, <2>2, <3>2 DEF ExpireTop
      <4>2. queue.waiting \ {t} \in SUBSET Tasks
        BY <3>0 DEF QueueType
      <4> QED BY <3>0, <4>1, <4>2 DEF QueueType, TypeOK
    <3> QED BY <3>1, <3>2
  <2>6. scenario' = scenario /\ count' = count /\ scheduling' = scheduling
        /\ signal' = signal /\ kernel' = kernel /\ core' = core /\ clock' = clock
    BY <1>1 DEF ExpireTop
  <2> QED BY <2>3, <2>4, <2>5, <2>6, SameTypes DEF TypeOK
<1>2. ASSUME NEW to \in SchedPCs, Publish(w, to) PROVE TInv'
  <2>1. thread' \in [Threads -> ThreadType] /\ HandsAreFull'
    <3>1. thread' = Goto(w, to)
      BY <1>2 DEF Publish
    <3>2. to # "idle"
      BY DEF SchedPCs
    <3> QED BY <3>1, <3>2, WorkerGoes
  <2>2. queue' \in QueueType
    <3>1. queue.ready \o queue.list \in Seq(Tasks) /\ <<>> \in Seq(Tasks)
      BY ConcatProperties DEF TypeOK, QueueType
    <3> QED BY <1>2, <3>1 DEF Publish, TypeOK, QueueType
  <2>3. round' \in RoundType
    BY <1>2 DEF Publish, TypeOK, RoundType
  <2> QED BY <1>2, <2>1, <2>2, <2>3, SameTypes DEF Publish, TypeOK
<1>3. ASSUME NEW sleep \in SchedPCs, NEW passed \in SchedPCs, Decide(w, sleep, passed)
      PROVE  TInv'
  <2>1. PICK to \in SchedPCs : thread' = Goto(w, to)
    <3>1. Again \in SchedPCs /\ "finish" \in SchedPCs
      BY DEF Again, SchedPCs
    <3> QED BY <1>3, <3>1, Zenon DEF Decide
  <2>2. thread' \in [Threads -> ThreadType] /\ HandsAreFull'
    <3>1. to # "idle"
      BY DEF SchedPCs
    <3> QED BY <2>1, <3>1, WorkerGoes
  <2> QED BY <1>3, <2>2, SameTypes DEF Decide, TypeOK
<1> QED BY <1>1, <1>2, <1>3

\* The worker calls the owner of its task; or calls it for the last time.
LEMMA ExecuteUpdates ==
    ASSUME TInv, NEW w \in Workers, NEW r \in TaskType,
           \/ \E k \in KernelType : Execute(w, r, k)
           \/ LastExecute(w, r)
    PROVE  TInv'
<1> USE DEF TInv
<1>1. w \in Threads /\ w \notin Clients /\ thread \in [Threads -> ThreadType]
      /\ task \in [Tasks -> TaskType]
  BY ThreadsAssumption DEF Threads, TypeOK
<1>2. Of(w) \in Tasks
  BY <1>1 DEF Execute, LastExecute, At, Of, HandsAreFull, HandPCs
<1>3. "callback" \in PCs /\ "closed" \in PCs
  BY DEF PCs, HandPCs
<1>4. ASSUME NEW k \in KernelType, Execute(w, r, k) PROVE TInv'
  <2>1. thread' \in [Threads -> ThreadType] /\ HandsAreFull'
    BY <1>1, <1>2, <1>3, <1>4, ThreadUpdates, HandsStep DEF Execute, Of
  <2>2. task' \in [Tasks -> TaskType] /\ kernel' \in KernelType
    BY <1>1, <1>2, <1>4 DEF Execute
  <2> QED BY <1>4, <2>1, <2>2, SameTypes DEF Execute, TypeOK
<1>5. ASSUME LastExecute(w, r) PROVE TInv'
  <2>1. thread' \in [Threads -> ThreadType] /\ HandsAreFull'
    <3>1. thread' = [thread EXCEPT ![w].pc = "closed", ![w].final = TRUE]
      BY <1>5 DEF LastExecute
    <3>2. [thread[w] EXCEPT !.pc = "closed", !.final = TRUE] \in ThreadType
      BY <1>1, <1>3 DEF ThreadType
    <3>3. thread'[w].pc = "closed" /\ thread'[w].task = thread[w].task
          /\ thread' \in [Threads -> ThreadType]
          /\ \A q \in Threads : q # w => thread'[q] = thread[q]
      BY <1>1, <3>1, <3>2 DEF ThreadType
    <3> QED BY <1>1, <1>2, <3>3, HandsStep DEF Of
  <2>2. task' \in [Tasks -> TaskType]
    <3>1. [r EXCEPT !.sub = FALSE] \in TaskType
      BY TaskUpdates
    <3> QED BY <1>1, <1>2, <1>5, <3>1 DEF LastExecute
  <2> QED BY <1>5, <2>1, <2>2, SameTypes DEF LastExecute, TypeOK
<1> QED BY <1>4, <1>5

-----------------------------------------------------------------------------
(* The backends with flags: epoll and kqueue.                               *)

SocketFlags == {"in", "out", "err"}

\* What the kernel records of sockets is sets of tasks and of flags.
LEMMA KernelFields ==
    ASSUME NEW k \in KernelType
    PROVE  /\ k.data \in SUBSET Tasks /\ k.reported \in [Tasks -> SUBSET SocketFlags]
           /\ \A t \in Tasks : k.reported[t] \in SUBSET SocketFlags
  BY DEF KernelType, SocketFlags

\* The kernel changes its record of one socket.
LEMMA KernelUpdates ==
    ASSUME NEW k \in KernelType, NEW t \in Tasks, NEW f \in SUBSET SocketFlags,
           NEW d \in SUBSET Tasks
    PROVE  /\ [k EXCEPT !.data = d, !.reported[t] = f] \in KernelType
           /\ [k EXCEPT !.data = d, !.reported[t] = f].data = d
           /\ [k EXCEPT !.data = d, !.reported[t] = f].reported
                = [k.reported EXCEPT ![t] = f]
           /\ [k EXCEPT !.data = d] \in KernelType
           /\ [k EXCEPT !.data = d].data = d
           /\ [k EXCEPT !.data = d].reported = k.reported
<1>1. k.reported \in [Tasks -> SUBSET SocketFlags] /\ k.data \in SUBSET Tasks
  BY DEF KernelType, SocketFlags
<1>2. PICK g \in [Tasks -> SUBSET SocketFlags] : g = [k.reported EXCEPT ![t] = f]
  BY <1>1
<1>3. [k EXCEPT !.data = d, !.reported[t] = f] = [k EXCEPT !.data = d, !.reported = g]
  BY <1>2
<1>4. [k EXCEPT !.data = d, !.reported = g] \in KernelType
      /\ [k EXCEPT !.data = d, !.reported = g].data = d
      /\ [k EXCEPT !.data = d, !.reported = g].reported = g
  BY DEF KernelType, SocketFlags
<1>5. [k EXCEPT !.data = d] \in KernelType /\ [k EXCEPT !.data = d].data = d
      /\ [k EXCEPT !.data = d].reported = k.reported
  BY DEF KernelType
<1> QED BY <1>1, <1>2, <1>3, <1>4, <1>5

\* What a peer sends is readable, what it takes makes the socket writable.
LEMMA FlagType == \A t : Flag(t) \in {"in", "out"} /\ Flag(t) \in SocketFlags
  BY DEF Flag, SocketFlags

\* With epoll and kqueue tasks are told of flags.
LEMMA ReportsAreFlags ==
    ASSUME Flagged
    PROVE  /\ Reports = SocketFlags /\ Locks = {"in", "out"}
           /\ Harvests = Tasks \X SocketFlags
  BY DEF Reports, SocketFlags, Locks, Harvests

\* The fields of a task that a round or a callback changes, with flags.
LEMMA FlagUpdates ==
    ASSUME NEW r \in TaskType, Flagged, NEW e \in SUBSET SocketFlags, NEW s \in Statuses,
           NEW x \in BOOLEAN, NEW l \in SUBSET {"in", "out"}
    PROVE  /\ [r EXCEPT !.pending = e] \in TaskType
           /\ [r EXCEPT !.ready = e] \in TaskType
           /\ [r EXCEPT !.locked = l] \in TaskType
           /\ [r EXCEPT !.ready = e, !.locked = l] \in TaskType
           /\ [r EXCEPT !.locked = l, !.ready = e] \in TaskType
           /\ [r EXCEPT !.socket = x, !.locked = l] \in TaskType
           /\ [r EXCEPT !.status = s, !.ready = e, !.pending = {}, !.isExpired = x]
                 \in TaskType
           /\ [r EXCEPT !.status = s, !.isClosed = TRUE, !.socket = FALSE, !.ready = {},
                        !.pending = {}, !.isExpired = x] \in TaskType
<1>1. Reports = SocketFlags /\ Locks = {"in", "out"}
  BY ReportsAreFlags
<1>2. e \in SUBSET Reports /\ {} \in SUBSET Reports /\ l \in SUBSET Locks
  BY <1>1
<1>3. /\ [r EXCEPT !.pending = e] \in TaskType
      /\ [r EXCEPT !.ready = e] \in TaskType
      /\ [r EXCEPT !.locked = l] \in TaskType
      /\ [r EXCEPT !.ready = e, !.locked = l] \in TaskType
      /\ [r EXCEPT !.locked = l, !.ready = e] \in TaskType
      /\ [r EXCEPT !.socket = x, !.locked = l] \in TaskType
  BY <1>2 DEF TaskType
<1>4. [r EXCEPT !.status = s, !.ready = e, !.pending = {}, !.isExpired = x] \in TaskType
  BY <1>2 DEF TaskType
<1>5. [r EXCEPT !.status = s, !.isClosed = TRUE, !.socket = FALSE, !.ready = {},
                !.pending = {}, !.isExpired = x] \in TaskType
  BY <1>2 DEF TaskType
<1> QED BY <1>3, <1>4, <1>5

\* The fields of a task that hold flags.
LEMMA FlagFields ==
    ASSUME NEW r \in TaskType, Flagged
    PROVE  /\ r.ready \in SUBSET SocketFlags /\ r.pending \in SUBSET SocketFlags
           /\ r.locked \in SUBSET {"in", "out"} /\ r.status \in Statuses
           /\ Awake(r.status) \in Statuses
<1>1. r.ready \in SUBSET SocketFlags /\ r.pending \in SUBSET SocketFlags
      /\ r.locked \in SUBSET {"in", "out"} /\ r.status \in Statuses
  BY ReportsAreFlags DEF TaskType
<1>2. Awake(r.status) \in Statuses
  BY <1>1 DEF Awake, Statuses
<1> QED BY <1>1, <1>2

\* What the peer of a socket does keeps the types.
LEMMA PeerTypes ==
    ASSUME TInv, NEW t \in Tasks, Arrive(t) \/ Break(t)
    PROVE  TInv'
<1>1. kernel \in KernelType /\ kernel.data \in SUBSET Tasks
      /\ kernel.reported[t] \in SUBSET SocketFlags
  BY KernelFields DEF TInv, TypeOK
<1>2. PICK f \in SUBSET SocketFlags :
         kernel' = [kernel EXCEPT !.data = kernel.data \cup {t}, !.reported[t] = f]
  <2>1. CASE Arrive(t)
    <3>1. kernel' = [kernel EXCEPT !.data = kernel.data \cup {t},
                                   !.reported[t] = kernel.reported[t] \cup {Flag(t)}]
      BY <1>1, <2>1 DEF Arrive, Reported
    <3>2. kernel.reported[t] \cup {Flag(t)} \in SUBSET SocketFlags
      BY <1>1, FlagType
    <3> QED BY <3>1, <3>2
  <2>2. CASE Break(t)
    <3>1. {Flag(t), "err"} \in SUBSET SocketFlags
      BY FlagType DEF SocketFlags
    <3> QED BY <2>2, <3>1 DEF Break
  <2> QED BY <2>1, <2>2
<1>3. kernel' \in KernelType
  <2>1. kernel.data \cup {t} \in SUBSET Tasks
    BY <1>1
  <2> QED BY <1>1, <1>2, <2>1, KernelUpdates
<1>4. thread' = thread /\ UNCHANGED <<scenario, task, count, queue, scheduling, round,
                                      signal, core, clock>>
  BY DEF Arrive, Break
<1>5. HandsAreFull'
  BY <1>4 DEF HandsAreFull, TInv
<1> QED BY <1>3, <1>4, <1>5, SameTypes DEF TInv, TypeOK

\* Whatever the owner's callback does to its task and socket keeps their types.
LEMMA EpollOwnerTypes ==
    ASSUME TypeOK, Flagged, NEW t \in Tasks, NEW r \in TaskType, NEW x \in EpollOwner(t, r)
    PROVE  x[1] \in TaskType /\ x[2] \in KernelType
<1>1. \A d \in scenario.deadlines \cup {Infinite} \cup {0} : [r EXCEPT !.deadline = d] \in TaskType
  <2>1. scenario.deadlines \cup {Infinite} \cup {0} \in SUBSET Nat
    BY ScenariosAssumption, BoundsAssumption DEF TypeOK, Infinite
  <2> QED BY <2>1 DEF TaskType
<1>2. \A y \in TaskType, b \in BOOLEAN : EpollTransfer(t, y, b) \in TaskType
  <2>1. ASSUME NEW y \in TaskType, NEW b \in BOOLEAN
        PROVE  EpollSend(y, b) \in TaskType /\ EpollRecv(y, b) \in TaskType
               /\ EpollAccept(y, b) \in TaskType
    <3>1. /\ y.ready \cup {"out"} \in SUBSET SocketFlags
          /\ y.ready \cup {"in"} \in SUBSET SocketFlags
          /\ y.locked \cup {"out"} \in SUBSET {"in", "out"}
          /\ y.locked \cup {"in"} \in SUBSET {"in", "out"}
      BY FlagFields DEF SocketFlags
    <3> QED BY <3>1, FlagUpdates DEF EpollSend, EpollRecv, EpollAccept, Statuses
  <2> QED BY <2>1 DEF EpollTransfer
<1>3. \A y \in TaskType, b \in BOOLEAN : EpollConnectStart(y, b) \in TaskType
  <2>1. ASSUME NEW y \in TaskType, NEW b \in BOOLEAN
        PROVE  EpollConnectStart(y, b) \in TaskType
    <3>1. y.locked \in SUBSET {"in", "out"} /\ y.locked \cup {"out"} \in SUBSET {"in", "out"}
      BY FlagFields
    <3> QED BY <3>1, FlagUpdates DEF EpollConnectStart, Statuses
  <2> QED BY <2>1
<1>4. kernel \in KernelType /\ EpollRegister(kernel, t, TRUE) \in KernelType
      /\ [kernel EXCEPT !.data = kernel.data \ {t}] \in KernelType
  <2>1. kernel \in KernelType
    BY DEF TypeOK
  <2>2. kernel.data \cup {t} \in SUBSET Tasks /\ kernel.data \ {t} \in SUBSET Tasks
        /\ {Flag(t)} \in SUBSET SocketFlags
    BY <2>1, KernelFields, FlagType
  <2> QED BY <2>1, <2>2, KernelUpdates DEF EpollRegister
<1>5. \E y \in TaskType, k \in KernelType : x = <<y, k>>
  BY <1>1, <1>2, <1>3, <1>4 DEF EpollOwner
<1> QED BY <1>5

\* Taking the reported flags from the kernel, or sleeping until there are some,
\* keeps the types.
LEMMA EpollHarvestTypes ==
    ASSUME TInv, Flagged, NEW w \in Workers, EpollHarvest(w) \/ EpollPoll(w)
    PROVE  TInv'
<1> USE DEF TInv
<1>1. CASE EpollHarvest(w)
  <2>1. kernel' \in KernelType
    <3>1. kernel' = [kernel EXCEPT !.reported = [t \in Tasks |-> {}]]
      BY <1>1 DEF EpollHarvest
    <3>2. [t \in Tasks |-> {}] \in [Tasks -> SUBSET {"in", "out", "err"}]
      OBVIOUS
    <3> QED BY <3>1, <3>2 DEF TypeOK, KernelType
  <2>2. round' \in RoundType
    <3>1. UNION {{t} \X Reported(t) : t \in Tasks} \in SUBSET Harvests
      <4>1. ASSUME NEW t \in Tasks PROVE {t} \X Reported(t) \subseteq Harvests
        BY KernelFields, ReportsAreFlags DEF Reported, TypeOK
      <4> QED BY <4>1
    <3>2. PICK h \in SUBSET Harvests : h = UNION {{t} \X Reported(t) : t \in Tasks}
      BY <3>1
    <3>3. round' = [NewRound EXCEPT !.timestamp = clock, !.harvest = h]
      BY <1>1, <3>2 DEF EpollHarvest
    <3> QED BY <3>3 DEF TypeOK, NewRound, RoundType
  <2>3. thread' \in [Threads -> ThreadType] /\ HandsAreFull'
    <3>1. thread' = Goto(w, "collect")
      BY <1>1 DEF EpollHarvest
    <3> QED BY <3>1, WorkerGoes DEF SchedPCs
  <2>4. signal' \in [ready : BOOLEAN, wake : BOOLEAN]
    BY <1>1 DEF EpollHarvest, TypeOK
  <2> QED BY <1>1, <2>1, <2>2, <2>3, <2>4, SameTypes DEF EpollHarvest, TypeOK
<1>2. CASE EpollPoll(w)
  <2>1. thread' = Goto(w, Again) /\ Again \in SchedPCs /\ Again # "idle"
    BY <1>2 DEF EpollPoll, Again, SchedPCs
  <2>2. thread' \in [Threads -> ThreadType] /\ HandsAreFull'
    BY <2>1, WorkerGoes
  <2> QED BY <1>2, <2>2, SameTypes DEF EpollPoll, TypeOK
<1> QED BY <1>1, <1>2

\* Handing the flags of one event to its task keeps the types.
LEMMA ReportTypes ==
    ASSUME TInv, Flagged, NEW w \in Workers, NEW t \in Tasks, NEW e \in SUBSET SocketFlags,
           NEW taken, Report(w, t, e, taken)
    PROVE  TInv'
<1> USE DEF TInv
<1>1. round' \in RoundType
  <2>1. round.harvest \ taken \in SUBSET Harvests
    BY DEF TypeOK, RoundType
  <2> QED BY <2>1 DEF Report, TypeOK, RoundType
<1>2. task' \in [Tasks -> TaskType] /\ queue' \in QueueType
  <2>1. queue.pending \in Seq(Tasks) /\ task[t] \in TaskType /\ IsExpired(t) \in BOOLEAN
    BY IsExpiredType DEF TypeOK, QueueType
  <2>2. CASE task[t].status = "WAITING"
    <3>1. task[t].ready \cup e \in SUBSET SocketFlags /\ "READY" \in Statuses
      BY <2>1, FlagFields DEF Statuses
    <3>2. [task[t] EXCEPT !.status = "READY", !.ready = task[t].ready \cup e,
                          !.pending = {}, !.isExpired = IsExpired(t)] \in TaskType
      BY <2>1, <3>1, FlagUpdates
    <3>3. ToReady(t, [task[t] EXCEPT !.status = "READY", !.ready = task[t].ready \cup e,
                                     !.pending = {}, !.isExpired = IsExpired(t)],
                  queue.pending)
      BY <2>2 DEF Report
    <3> QED BY <2>1, <3>2, <3>3, ToReadyUpdates
  <2>3. CASE task[t].status # "WAITING"
    <3>1. task' = [task EXCEPT ![t].pending = e] /\ queue' = queue
      BY <2>3 DEF Report
    <3>2. [task[t] EXCEPT !.pending = e] \in TaskType
      BY <2>1, FlagUpdates DEF Statuses
    <3> QED BY <3>1, <3>2 DEF TypeOK
  <2> QED BY <2>2, <2>3
<1>3. thread' = thread /\ UNCHANGED <<scenario, count, scheduling, signal, kernel, core, clock>>
  BY DEF Report
<1>4. HandsAreFull'
  BY <1>3 DEF HandsAreFull
<1> QED BY <1>1, <1>2, <1>3, <1>4, SameTypes DEF TypeOK

\* The front queue's handling by the epoll and kqueue backends keeps the types.
LEMMA EpollFrontTypes ==
    ASSUME TInv, Flagged, NEW w \in Workers, EpollFront(w)
    PROVE  TInv'
<1> USE DEF TInv
<1>1. NextPending(w)
  BY DEF EpollFront
<1>2. PICK t \in Tasks : t = Head(queue.pending)
  BY <1>1, NextPendingUpdates
<1>3. task[t] \in TaskType /\ IsExpired(t) \in BOOLEAN /\ Tail(queue.pending) \in Seq(Tasks)
      /\ kernel \in KernelType
  BY <1>1, <1>2, NextPendingUpdates, IsExpiredType DEF TypeOK
<1> DEFINE awake == [task[t] EXCEPT !.status = Awake(task[t].status),
                                    !.ready = task[t].ready \cup task[t].pending,
                                    !.pending = {}, !.isExpired = IsExpired(t)]
           closed == [task[t] EXCEPT !.status = "CLOSED", !.isClosed = TRUE,
                                     !.socket = FALSE, !.ready = {}, !.pending = {},
                                     !.isExpired = IsExpired(t)]
<1>4. awake \in TaskType /\ closed \in TaskType
  <2>1. Awake(task[t].status) \in Statuses /\ "CLOSED" \in Statuses
        /\ task[t].ready \cup task[t].pending \in SUBSET SocketFlags
    BY <1>3, FlagFields DEF Statuses
  <2> QED BY <1>3, <2>1, FlagUpdates
<1>5. \/ ToReady(t, awake, Tail(queue.pending)) /\ kernel' = kernel
      \/ ToReady(t, closed, Tail(queue.pending)) /\ kernel' = EpollUnregister(kernel, t)
      \/ ToSleep(t, task[t]) /\ kernel' = kernel
  BY <1>2 DEF EpollFront
<1> HIDE DEF awake, closed
<1>6. task' \in [Tasks -> TaskType] /\ queue' \in QueueType
  <2>1. queue.pending # <<>>
    BY <1>1, NextPendingUpdates
  <2>2. CASE ToReady(t, awake, Tail(queue.pending))
    BY <1>3, <1>4, <2>2, ToReadyUpdates
  <2>3. CASE ToReady(t, closed, Tail(queue.pending))
    BY <1>3, <1>4, <2>3, ToReadyUpdates
  <2>4. CASE ToSleep(t, task[t])
    BY <1>3, <2>1, <2>4, ToSleepUpdates
  <2> QED BY <1>5, <2>2, <2>3, <2>4
<1>7. kernel' \in KernelType
  <2>1. kernel.data \ {t} \in SUBSET Tasks /\ {} \in SUBSET SocketFlags
    BY <1>3, KernelFields
  <2>2. [kernel EXCEPT !.data = kernel.data \ {t}, !.reported[t] = {}] \in KernelType
    BY <1>3, <2>1, KernelUpdates
  <2>3. EpollUnregister(kernel, t) \in KernelType
    <3>1. EpollUnregister(kernel, t)
            = [kernel EXCEPT !.data = kernel.data \ {t}, !.reported[t] = {}]
      BY <1>3 DEF EpollUnregister, KernelType
    <3> QED BY <2>2, <3>1
  <2> QED BY <1>3, <1>5, <2>3
<1> QED BY <1>1, <1>6, <1>7, NextPendingUpdates, SameTypes DEF TypeOK

\* What PrivExecute() does to the task first keeps its type.
LEMMA StartedType ==
    ASSUME TypeOK, NEW t \in Tasks
    PROVE  Started(t) \in TaskType
<1>1. task[t] \in TaskType /\ Infinite \in Nat
  BY BoundsAssumption DEF TypeOK, Infinite
<1>2. PICK s \in Statuses :
        s = IF task[t].status = "READY" THEN "PENDING" ELSE task[t].status
  BY <1>1 DEF TaskType, Statuses
<1>3. [task[t] EXCEPT !.inQueues = FALSE, !.deadline = Infinite, !.status = s] \in TaskType
  BY <1>1 DEF TaskType
<1> QED BY <1>2, <1>3 DEF Started

\* A worker that executes has a task to execute.
LEMMA HandIsFull ==
    ASSUME TInv, NEW w \in Workers, At(w, "execute")
    PROVE  Of(w) \in Tasks /\ task[Of(w)] \in TaskType
  BY DEF TInv, HandsAreFull, HandPCs, Threads, At, Of, TypeOK

\* ProcessArgs() and the end of a close keep the type of a task of epoll or
\* kqueue.
LEMMA FlagArgs ==
    ASSUME NEW r \in TaskType, Flagged
    PROVE  /\ EpollProcessArgs(r) \in TaskType /\ KqueueProcessArgs(r) \in TaskType
           /\ EpollCloseEnd(r) \in TaskType
<1>1. \A l \in SUBSET {"in", "out"} : [r EXCEPT !.locked = l, !.ready = {}] \in TaskType
  BY FlagUpdates DEF Statuses, SocketFlags
<1>2. [r EXCEPT !.ready = {}, !.locked = {}] \in TaskType
  BY FlagUpdates DEF Statuses, SocketFlags
<1>3. r.locked \in SUBSET {"in", "out"}
  BY FlagFields
<1>4. EpollProcessArgs(r) \in TaskType
  <2>1. r.locked \ r.ready \in SUBSET {"in", "out"}
    BY <1>3
  <2> QED BY <1>1, <2>1 DEF EpollProcessArgs
<1>5. KqueueProcessArgs(r) \in TaskType
  <2>1. r.locked \ {side \in {"in", "out"} : side \in r.ready} \in SUBSET {"in", "out"}
    BY <1>3
  <2> QED BY <1>1, <2>1 DEF KqueueProcessArgs
<1> QED BY <1>2, <1>4, <1>5 DEF EpollCloseEnd

\* Executing a task keeps the types, with epoll and kqueue.
LEMMA FlagExecuteTypes ==
    ASSUME TInv, Flagged, NEW w \in Workers, At(w, "execute"),
           \/ EpollCallback(w) \/ KqueueCallback(w)
           \/ LastExecute(w, EpollCloseEnd(task[Of(w)]))
           \/ LastExecute(w, KqueueCloseEnd(task[Of(w)]))
    PROVE  TInv'
<1> USE DEF TInv
<1>1. Of(w) \in Tasks /\ task[Of(w)] \in TaskType /\ kernel \in KernelType
  BY HandIsFull DEF TypeOK
<1>2. EpollProcessArgs(Started(Of(w))) \in TaskType
      /\ KqueueProcessArgs(Started(Of(w))) \in TaskType
      /\ EpollCloseEnd(task[Of(w)]) \in TaskType
  BY <1>1, StartedType, FlagArgs
<1>3. ASSUME NEW r \in TaskType, CallbackWith(w, r) PROVE TInv'
  <2>1. CASE Execute(w, Closing(Started(Of(w))), kernel)
    <3>1. Closing(Started(Of(w))) \in TaskType
      BY <1>1, StartedType, TaskUpdates
    <3> QED BY <1>1, <2>1, <3>1, ExecuteUpdates
  <2>2. CASE \E x \in EpollOwner(Of(w), r) : Execute(w, x[1], x[2])
    <3>1. PICK x \in EpollOwner(Of(w), r) : Execute(w, x[1], x[2])
      BY <2>2
    <3>2. x[1] \in TaskType /\ x[2] \in KernelType
      BY <1>1, EpollOwnerTypes
    <3> QED BY <3>1, <3>2, ExecuteUpdates
  <2> QED BY <1>3, <2>1, <2>2 DEF CallbackWith
<1>4. CASE EpollCallback(w) \/ KqueueCallback(w)
  BY <1>2, <1>3, <1>4 DEF EpollCallback, KqueueCallback
<1>5. CASE LastExecute(w, EpollCloseEnd(task[Of(w)]))
           \/ LastExecute(w, KqueueCloseEnd(task[Of(w)]))
  BY <1>2, <1>5, ExecuteUpdates DEF KqueueCloseEnd
<1> QED BY <1>4, <1>5

\* So every step of these two backends keeps them.
LEMMA FlagTypes ==
    ASSUME TInv, NEW w \in Workers, EpollStep(w) \/ KqueueStep(w)
    PROVE  TInv'
<1>1. Flagged
  BY DEF EpollStep, KqueueStep, Flagged
<1>2. CASE EpollSchedule(w)
  <2>1. CASE EpollHarvest(w) \/ EpollPoll(w)
    BY <1>1, <2>1, EpollHarvestTypes
  <2>2. ASSUME NEW t \in Tasks, EpollEvent(w, t) PROVE TInv'
    <3> DEFINE taken == {x \in round.harvest : x[1] = t}
               e == task[t].pending \cup {x[2] : x \in taken}
    <3>1. e \in SUBSET SocketFlags
      <4>1. round.harvest \subseteq Tasks \X SocketFlags
        BY <1>1, ReportsAreFlags DEF TInv, TypeOK, RoundType
      <4>2. task[t].pending \in SUBSET SocketFlags
        BY <1>1, FlagFields DEF TInv, TypeOK
      <4> QED BY <4>1, <4>2
    <3>2. Report(w, t, e, taken)
      BY <2>2 DEF EpollEvent
    <3> QED BY <1>1, <3>1, <3>2, ReportTypes
  <2>3. CASE EpollFront(w)
    BY <1>1, <2>3, EpollFrontTypes
  <2>4. CASE EpollExpired(w) \/ EpollPublish(w) \/ EpollDecide(w)
    <3>1. Again \in SchedPCs /\ "decide" \in SchedPCs /\ "poll" \in SchedPCs
      BY DEF Again, SchedPCs
    <3> QED BY <2>4, <3>1, RoundTypes DEF EpollExpired, EpollPublish, EpollDecide
  <2> QED BY <1>2, <2>1, <2>2, <2>3, <2>4 DEF EpollSchedule
<1>3. CASE KqueueSchedule(w)
  <2>1. CASE KqueueHarvest(w) \/ KqueuePoll(w)
    BY <1>1, <2>1, EpollHarvestTypes DEF KqueueHarvest, KqueuePoll
  <2>2. ASSUME NEW x \in round.harvest, KqueueEvent(w, x) PROVE TInv'
    <3>1. x[1] \in Tasks /\ x[2] \in SocketFlags
      BY <1>1, ReportsAreFlags DEF TInv, TypeOK, RoundType
    <3>2. task[x[1]].pending \cup {x[2]} \in SUBSET SocketFlags
      <4>1. task[x[1]].pending \in SUBSET SocketFlags
        BY <1>1, <3>1, FlagFields DEF TInv, TypeOK
      <4> QED BY <3>1, <4>1
    <3> QED BY <1>1, <2>2, <3>1, <3>2, ReportTypes DEF KqueueEvent
  <2>3. CASE KqueueFront(w)
    BY <1>1, <2>3, EpollFrontTypes DEF KqueueFront
  <2>4. CASE KqueueExpired(w) \/ KqueuePublish(w) \/ KqueueDecide(w)
    <3>1. Again \in SchedPCs /\ "decide" \in SchedPCs /\ "poll" \in SchedPCs
      BY DEF Again, SchedPCs
    <3> QED BY <2>4, <3>1, RoundTypes DEF KqueueExpired, KqueuePublish, KqueueDecide
  <2> QED BY <1>3, <2>1, <2>2, <2>3, <2>4 DEF KqueueSchedule
<1>4. CASE At(w, "execute") /\ (\/ EpollCallback(w) \/ KqueueCallback(w)
           \/ LastExecute(w, EpollCloseEnd(task[Of(w)]))
           \/ LastExecute(w, KqueueCloseEnd(task[Of(w)])))
  BY <1>1, <1>4, FlagExecuteTypes
<1> QED BY <1>2, <1>3, <1>4 DEF EpollStep, KqueueStep

-----------------------------------------------------------------------------
(* The backends with operations: io_uring and the completion ports.         *)

\* One or none.
N(b) == IF b THEN 1 ELSE 0

\* How many kinds a set has.
LEMMA CountKinds ==
    ASSUME NEW S \in SUBSET Kinds
    PROVE  /\ IsFiniteSet(S) /\ Cardinality(S) \in Nat
           /\ Cardinality(S) = N("io" \in S) + N("fail" \in S) + N("cancel" \in S)
<1> DEFINE A == S \cap {"io"}
           B == S \cap {"io", "fail"}
<1>1. IsFiniteSet({}) /\ Cardinality({}) = 0
  BY FS_EmptySet
<1>2. IsFiniteSet(A) /\ Cardinality(A) = N("io" \in S)
  <2>1. CASE "io" \in S
    <3>1. A = {} \cup {"io"}
      BY <2>1
    <3> QED BY <1>1, <2>1, <3>1, FS_AddElement DEF N
  <2>2. CASE "io" \notin S
    <3>1. A = {}
      BY <2>2
    <3> QED BY <1>1, <2>2, <3>1 DEF N
  <2> QED BY <2>1, <2>2
<1>3. IsFiniteSet(B) /\ Cardinality(B) = N("io" \in S) + N("fail" \in S)
  <2>1. CASE "fail" \in S
    <3>1. B = A \cup {"fail"} /\ "fail" \notin A
      BY <2>1
    <3> HIDE DEF A, B
    <3> QED BY <1>2, <2>1, <3>1, FS_AddElement DEF N
  <2>2. CASE "fail" \notin S
    <3>1. B = A
      BY <2>2
    <3> HIDE DEF A, B
    <3> QED BY <1>2, <2>2, <3>1 DEF N
  <2> QED BY <2>1, <2>2
<1>4. IsFiniteSet(S) /\ Cardinality(S) = N("io" \in S) + N("fail" \in S) + N("cancel" \in S)
  <2>1. CASE "cancel" \in S
    <3>1. S = B \cup {"cancel"} /\ "cancel" \notin B
      BY <2>1 DEF Kinds
    <3> HIDE DEF A, B
    <3> QED BY <1>3, <2>1, <3>1, FS_AddElement DEF N
  <2>2. CASE "cancel" \notin S
    <3>1. S = B
      BY <2>2 DEF Kinds
    <3> HIDE DEF A, B
    <3> QED BY <1>3, <2>2, <3>1 DEF N
  <2> QED BY <2>1, <2>2
<1> QED BY <1>4, FS_CardinalityType

\* With io_uring and IOCP tasks are told of operations.
LEMMA ReportsAreKinds ==
    ASSUME ~Flagged
    PROVE  Reports = Kinds /\ Locks = {"io", "cancel"} /\ Harvests = Operations
  BY DEF Reports, Locks, Harvests

\* The fields of a task that hold operations.
LEMMA OperationFields ==
    ASSUME NEW r \in TaskType, ~Flagged
    PROVE  /\ r.pending \in SUBSET Kinds /\ r.ready \in SUBSET Kinds
           /\ r.locked \in SUBSET {"io", "cancel"} /\ r.operations \in Int
           /\ r.toSubmit \in Seq(Tasks \X {"io"}) /\ r.status \in Statuses
           /\ Awake(r.status) \in Statuses
<1>1. /\ r.pending \in SUBSET Kinds /\ r.ready \in SUBSET Kinds
      /\ r.locked \in SUBSET {"io", "cancel"} /\ r.operations \in Int
      /\ r.toSubmit \in Seq(Tasks \X {"io"}) /\ r.status \in Statuses
  BY ReportsAreKinds DEF TaskType
<1>2. Awake(r.status) \in Statuses
  BY <1>1 DEF Awake, Statuses
<1> QED BY <1>1, <1>2

\* They change one or two at a time.
LEMMA OperationUpdates ==
    ASSUME NEW r \in TaskType, ~Flagged
    PROVE  /\ \A e \in SUBSET Kinds : [r EXCEPT !.pending = e] \in TaskType
           /\ \A s \in Seq(Tasks \X {"io"}) : [r EXCEPT !.toSubmit = s] \in TaskType
           /\ \A l \in SUBSET {"io", "cancel"} : [r EXCEPT !.locked = l] \in TaskType
           /\ \A x \in BOOLEAN : [r EXCEPT !.socket = x] \in TaskType
           /\ \A n \in Int : [r EXCEPT !.operations = n, !.ready = {}] \in TaskType
           /\ \A n \in Int, l \in SUBSET {"io", "cancel"} :
                 /\ [r EXCEPT !.operations = n, !.locked = l] \in TaskType
                 /\ [r EXCEPT !.locked = l, !.operations = n] \in TaskType
           /\ \A n \in Int, l \in SUBSET {"io", "cancel"}, s \in Seq(Tasks \X {"io"}) :
                 [r EXCEPT !.operations = n, !.locked = l, !.toSubmit = s] \in TaskType
           /\ \A e \in SUBSET Kinds, x \in BOOLEAN : WithEvents(r, e, x) \in TaskType
           /\ Closed(r) \in TaskType
<1>1. {} \in SUBSET Reports /\ "CLOSED" \in Statuses
  BY DEF Statuses
<1>2. \A e \in SUBSET Kinds :
         /\ [r EXCEPT !.pending = e] \in TaskType
         /\ \A x \in BOOLEAN : WithEvents(r, e, x) \in TaskType
  BY <1>1, ReportsAreKinds DEF TaskType, WithEvents
<1>3. \A s \in Seq(Tasks \X {"io"}) : [r EXCEPT !.toSubmit = s] \in TaskType
  BY DEF TaskType
<1>4. /\ \A l \in SUBSET {"io", "cancel"} : [r EXCEPT !.locked = l] \in TaskType
      /\ \A n \in Int, l \in SUBSET {"io", "cancel"} :
                 /\ [r EXCEPT !.operations = n, !.locked = l] \in TaskType
                 /\ [r EXCEPT !.locked = l, !.operations = n] \in TaskType
  BY ReportsAreKinds DEF TaskType
<1>5. \A n \in Int, l \in SUBSET {"io", "cancel"}, s \in Seq(Tasks \X {"io"}) :
                 [r EXCEPT !.operations = n, !.locked = l, !.toSubmit = s] \in TaskType
  BY ReportsAreKinds DEF TaskType
<1>6. /\ \A x \in BOOLEAN : [r EXCEPT !.socket = x] \in TaskType
      /\ \A n \in Int : [r EXCEPT !.operations = n, !.ready = {}] \in TaskType
      /\ Closed(r) \in TaskType
  BY <1>1 DEF TaskType, Closed
<1> QED BY <1>2, <1>3, <1>4, <1>5, <1>6

\* What the kernel has of operations: to submit, inside, cancelled, done.
LEMMA QueueKernelFields ==
    ASSUME NEW k \in KernelType
    PROVE  /\ k.inside \in SUBSET Operations /\ k.done \in SUBSET Operations
           /\ k.cancelled \in SUBSET Operations /\ k.toSubmit \in Seq(Operations)
  BY DEF KernelType

\* The kernel moves operations between them.
LEMMA QueueKernelUpdates ==
    ASSUME NEW k \in KernelType, NEW i \in SUBSET Operations, NEW d \in SUBSET Operations,
           NEW c \in SUBSET Operations, NEW s \in Seq(Operations)
    PROVE  /\ [k EXCEPT !.inside = i, !.cancelled = c, !.done = d, !.poll = TRUE] \in KernelType
           /\ [k EXCEPT !.done = d] \in KernelType
           /\ [k EXCEPT !.inside = i] \in KernelType
           /\ [k EXCEPT !.cancelled = c] \in KernelType
           /\ [k EXCEPT !.toSubmit = s] \in KernelType
           /\ [k EXCEPT !.toSubmit = s, !.inside = i, !.cancelled = c] \in KernelType
           /\ [k EXCEPT !.poll = FALSE] \in KernelType
  BY DEF KernelType

\* Every operation but the signal's read is a task's, and may fail.
LEMMA OperationsOfTasks ==
    /\ Tasks \X Kinds \subseteq Operations
    /\ Tasks \X {"io"} \subseteq Operations
    /\ \A x \in Operations : x[1] # NoTask => x[1] \in Tasks /\ x[2] \in Kinds
    /\ backend # "iouring" => Operations = Tasks \X Kinds
    /\ \A x \in Operations : x[1] \in Tasks => <<x[1], "fail">> \in Operations
  BY NoTaskAssumption DEF Operations, Kinds, SignalRead

\* A completed operation keeps the types.
LEMMA CompleteTypes ==
    ASSUME TInv, NEW op \in kernel.inside, Complete(op) \/ CompleteInternal(op)
    PROVE  TInv'
<1> USE DEF TInv
<1>1. kernel \in KernelType /\ op \in Operations
  BY QueueKernelFields DEF TypeOK
<1>2. PICK as \in Operations : kernel' = Completed(op, as)
  <2>1. CASE Complete(op)
    <3>1. op[1] # NoTask => <<op[1], "fail">> \in Operations
      BY <1>1, OperationsOfTasks
    <3>2. op[1] # NoTask
      BY <1>1, <2>1, NoTaskAssumption DEF Complete, Operations, SignalRead
    <3> QED BY <1>1, <2>1, <3>1, <3>2 DEF Complete
  <2>2. CASE CompleteInternal(op)
    BY <1>1, <2>2 DEF CompleteInternal
  <2> QED BY <2>1, <2>2
<1>3. kernel' \in KernelType
  <2>1. kernel.inside \ {op} \in SUBSET Operations
        /\ kernel.cancelled \ {op} \in SUBSET Operations
        /\ kernel.done \cup {as} \in SUBSET Operations
        /\ kernel.toSubmit \in Seq(Operations)
    BY <1>1, QueueKernelFields
  <2>2. kernel' = [kernel EXCEPT !.inside = kernel.inside \ {op},
                                 !.cancelled = kernel.cancelled \ {op},
                                 !.done = kernel.done \cup {as}, !.poll = TRUE]
    BY <1>2 DEF Completed
  <2> QED BY <1>1, <2>1, <2>2, QueueKernelUpdates
<1>4. thread' = thread /\ UNCHANGED <<scenario, task, count, queue, scheduling, round,
                                      core, clock>>
  BY DEF Complete, CompleteInternal
<1>5. HandsAreFull'
  BY <1>4 DEF HandsAreFull
<1>6. signal' \in [ready : BOOLEAN, wake : BOOLEAN]
  <2>1. signal' = signal \/ signal' = [signal EXCEPT !.wake = FALSE]
    BY Zenon DEF Complete, CompleteInternal
  <2> QED BY <2>1 DEF TypeOK
<1> QED BY <1>3, <1>4, <1>5, <1>6, SameTypes DEF TypeOK

\* Taking completions from the ring or the port keeps the types.
LEMMA OperationHarvestTypes ==
    ASSUME TInv, ~Flagged, NEW w \in Workers,
           UringHarvest(w) \/ IocpHarvest(w) \/ UringPoll(w)
    PROVE  TInv'
<1> USE DEF TInv
<1>1. kernel \in KernelType /\ kernel.done \in SUBSET Operations
      /\ kernel.inside \in SUBSET Operations /\ kernel.cancelled \in SUBSET Operations
      /\ kernel.toSubmit \in Seq(Operations)
  BY QueueKernelFields DEF TypeOK
<1>2. ASSUME NEW h \in Entries, NEW b \in BOOLEAN
      PROVE  /\ [NewRound EXCEPT !.timestamp = clock, !.harvest = h, !.full = b]
                   \in RoundType
             /\ [NewRound EXCEPT !.timestamp = clock, !.harvest = h, !.didWait = b]
                   \in RoundType
             /\ [kernel EXCEPT !.done = kernel.done \ h] \in KernelType
  <2>1. h \in SUBSET Harvests /\ kernel.done \ h \in SUBSET Operations
    BY <1>1, ReportsAreKinds DEF Entries
  <2>2. clock \in Nat
    BY DEF TypeOK
  <2>3. [NewRound EXCEPT !.timestamp = clock, !.harvest = h, !.full = b] \in RoundType
        /\ [NewRound EXCEPT !.timestamp = clock, !.harvest = h, !.didWait = b] \in RoundType
    BY <2>1, <2>2 DEF NewRound, RoundType
  <2> QED BY <1>1, <2>1, <2>3, QueueKernelUpdates
<1>3. At(w, "poll") \in BOOLEAN
  BY DEF At
<1>4. round' \in RoundType /\ kernel' \in KernelType
  <2>1. CASE UringHarvest(w)
    <3>1. PICK h \in Entries, b \in BOOLEAN :
             /\ round' = [NewRound EXCEPT !.timestamp = clock, !.harvest = h, !.full = b]
             /\ kernel' = [kernel EXCEPT !.done = kernel.done \ h]
      BY <2>1 DEF UringHarvest
    <3> QED BY <1>2, <3>1
  <2>2. CASE IocpHarvest(w)
    BY <1>2, <1>3, <2>2, ZenonT(60) DEF IocpHarvest
  <2>3. CASE UringPoll(w)
    BY <1>1, <2>3, QueueKernelUpdates DEF UringPoll, TypeOK
  <2> QED BY <2>1, <2>2, <2>3
<1>5. thread' \in [Threads -> ThreadType] /\ HandsAreFull'
  <2>1. thread' = Goto(w, "collect") \/ thread' = Goto(w, Again)
    BY Zenon DEF UringHarvest, IocpHarvest, UringPoll
  <2>2. Again \in SchedPCs /\ Again # "idle" /\ "collect" \in SchedPCs
    BY DEF Again, SchedPCs
  <2> QED BY <2>1, <2>2, WorkerGoes
<1>6. signal' \in [ready : BOOLEAN, wake : BOOLEAN]
  BY DEF TypeOK, UringHarvest, IocpHarvest, UringPoll
<1> QED BY <1>4, <1>5, <1>6, SameTypes DEF UringHarvest, IocpHarvest, UringPoll, TypeOK

\* A task that a completion has woken up or that has come from the front queue.
LEMMA WithEventsReady ==
    ASSUME TypeOK, ~Flagged, NEW t \in Tasks, NEW r \in TaskType, NEW e \in SUBSET Kinds,
           NEW rest \in Seq(Tasks),
           ToReady(t, WithEvents(r, e, IsExpired(t)), rest)
    PROVE  task' \in [Tasks -> TaskType] /\ queue' \in QueueType
<1>1. PICK s \in TaskType : s = WithEvents(r, e, IsExpired(t))
  BY IsExpiredType, OperationUpdates
<1> QED BY <1>1, ToReadyUpdates

\* Handing one completion to its task keeps the types.
LEMMA EventTypes ==
    ASSUME TInv, ~Flagged, NEW w \in Workers, NEW x,
           \/ UringEvent(w, x)
           \/ backend = "iocp" /\ IocpEvent(w, x)
    PROVE  TInv'
<1> USE DEF TInv
<1>1. x \in Operations /\ queue.pending \in Seq(Tasks) /\ kernel \in KernelType
  BY ReportsAreKinds DEF UringEvent, IocpEvent, TypeOK, RoundType, QueueType
<1>2. x[1] # NoTask \/ backend = "iocp" => x[1] \in Tasks /\ x[2] \in Kinds
  BY <1>1, OperationsOfTasks
<1>3. round' \in RoundType
  <2>1. round.harvest \ {x} \in SUBSET Harvests /\ round \in RoundType
    BY DEF TypeOK, RoundType
  <2>2. round' = [round EXCEPT !.harvest = round.harvest \ {x}]
    BY DEF UringEvent, IocpEvent
  <2> QED BY <2>1, <2>2 DEF RoundType
<1>4. kernel' \in KernelType
  <2>1. CASE kernel' = kernel
    BY <1>1, <2>1
  <2>2. CASE x = SignalRead /\ kernel' = [kernel EXCEPT !.toSubmit = <<SignalRead>> \o @]
    <3>1. <<SignalRead>> \o kernel.toSubmit \in Seq(Operations)
      <4>1. <<SignalRead>> \in Seq(Operations) /\ kernel.toSubmit \in Seq(Operations)
        BY <1>1, <2>2, QueueKernelFields
      <4> QED BY <4>1, ConcatProperties
    <3>2. {} \in SUBSET Operations
      OBVIOUS
    <3> QED BY <1>1, <2>2, <3>1, <3>2, QueueKernelUpdates
  <2> QED BY <2>1, <2>2 DEF UringEvent, IocpEvent
<1>5. task' \in [Tasks -> TaskType] /\ queue' \in QueueType
  <2>1. CASE task' = task /\ queue' = queue
    BY <2>1 DEF TypeOK
  <2>2. ASSUME x[1] \in Tasks, x[2] \in Kinds, ~(task' = task /\ queue' = queue)
        PROVE  task' \in [Tasks -> TaskType] /\ queue' \in QueueType
    <3> DEFINE t == x[1]
               r == task[t]
               e == r.pending \cup {x[2]}
    <3>1. r \in TaskType /\ e \in SUBSET Kinds
      <4>1. r \in TaskType
        BY <2>2 DEF TypeOK
      <4>2. r.pending \in SUBSET Kinds
        BY <4>1, OperationFields
      <4> QED BY <2>2, <4>1, <4>2
    <3>2. \A s \in Statuses : [r EXCEPT !.status = s] \in TaskType
      BY <3>1, TaskUpdates
    <3>3. Closed(r) \in TaskType /\ [r EXCEPT !.pending = e] \in TaskType
      BY <3>1, OperationUpdates
    <3>4. r.status \in Statuses /\ "READY" \in Statuses
      BY <3>1, OperationFields DEF Statuses
    <3>5. \/ \E s \in TaskType : ToReady(t, WithEvents(s, e, IsExpired(t)), queue.pending)
          \/ task' = [task EXCEPT ![t].pending = e] /\ queue' = queue
      <4>1. CASE UringEvent(w, x)
        BY <2>2, <3>2, <3>3, <3>4, <4>1 DEF UringEvent
      <4>2. CASE IocpEvent(w, x)
        <5>1. CASE r.status = "WAITING" \/ (r.status = "CLOSED" /\ UringAllOver(r, e))
          BY <3>2, <3>4, <4>2, <5>1 DEF IocpEvent
        <5>2. CASE ~(r.status = "WAITING" \/ (r.status = "CLOSED" /\ UringAllOver(r, e)))
          BY <4>2, <5>2 DEF IocpEvent
        <5> QED BY <5>1, <5>2
      <4> QED BY <4>1, <4>2
    <3>6. CASE \E s \in TaskType : ToReady(t, WithEvents(s, e, IsExpired(t)), queue.pending)
      BY <1>1, <2>2, <3>1, <3>6, WithEventsReady
    <3>7. CASE task' = [task EXCEPT ![t].pending = e] /\ queue' = queue
      BY <2>2, <3>3, <3>7 DEF TypeOK
    <3> QED BY <3>5, <3>6, <3>7
  <2> QED BY <1>2, <2>1, <2>2 DEF UringEvent
<1>6. thread' = thread /\ UNCHANGED <<scenario, count, scheduling, signal, core, clock>>
  BY DEF UringEvent, IocpEvent
<1>7. HandsAreFull'
  BY <1>6 DEF HandsAreFull
<1> QED BY <1>3, <1>4, <1>5, <1>6, <1>7, SameTypes DEF TypeOK

\* The front queue's handling by the io_uring backend keeps the types.
LEMMA UringFrontTypes ==
    ASSUME TInv, ~Flagged, NEW w \in Workers, UringFront(w)
    PROVE  TInv'
<1> USE DEF TInv
<1>1. NextPending(w)
  BY DEF UringFront
<1>2. PICK t \in Tasks : t = Head(queue.pending)
  BY <1>1, NextPendingUpdates
<1>3. task[t] \in TaskType /\ Tail(queue.pending) \in Seq(Tasks) /\ kernel \in KernelType
      /\ queue.pending # <<>>
  BY <1>1, <1>2, NextPendingUpdates DEF TypeOK
<1>4. PICK r \in TaskType : r = [task[t] EXCEPT !.toSubmit = <<>>]
  <2>1. <<>> \in Seq(Tasks \X {"io"})
    OBVIOUS
  <2> QED BY <1>3, <2>1, OperationUpdates
<1>5. PICK moved \in Seq(Operations) : moved = kernel.toSubmit \o task[t].toSubmit
  <2>1. kernel.toSubmit \in Seq(Operations) /\ task[t].toSubmit \in Seq(Operations)
    BY <1>3, QueueKernelFields, OperationFields, OperationsOfTasks, SeqMonotonic
  <2> QED BY <2>1, ConcatProperties
<1> DEFINE over == UringAllOver(r, r.pending)
           cancelling == [r EXCEPT !.locked = r.locked \cup {"cancel"},
                                   !.operations = r.operations + 1]
<1>6. \/ /\ ToReady(t, WithEvents([r EXCEPT !.status = Awake(r.status)], r.pending,
                                  IsExpired(t)), Tail(queue.pending))
         /\ kernel' = [kernel EXCEPT !.toSubmit = moved]
      \/ /\ ToReady(t, WithEvents(Closed(r), r.pending, IsExpired(t)), Tail(queue.pending))
         /\ kernel' = [kernel EXCEPT !.toSubmit = moved]
      \/ /\ task' = [task EXCEPT ![t] = cancelling]
         /\ kernel' = [kernel EXCEPT !.toSubmit = Append(moved, <<t, "cancel">>)]
         /\ queue' = [queue EXCEPT !.pending = Tail(@), !.waiting = queue.waiting \ {t}]
      \/ ToSleep(t, r) /\ kernel' = [kernel EXCEPT !.toSubmit = moved]
  BY <1>2, <1>4, <1>5 DEF UringFront, WithCancel
<1>7. r.pending \in SUBSET Kinds /\ r.locked \in SUBSET {"io", "cancel"}
      /\ r.operations \in Int /\ Awake(r.status) \in Statuses
  BY <1>4, OperationFields
<1>8. cancelling \in TaskType
  <2>1. r.locked \cup {"cancel"} \in SUBSET {"io", "cancel"} /\ r.operations + 1 \in Int
    BY <1>7
  <2> QED BY <1>4, <2>1, OperationUpdates
<1> HIDE DEF cancelling
<1>9. task' \in [Tasks -> TaskType] /\ queue' \in QueueType
  <2>1. ASSUME ToReady(t, WithEvents([r EXCEPT !.status = Awake(r.status)], r.pending,
                                     IsExpired(t)), Tail(queue.pending))
        PROVE  task' \in [Tasks -> TaskType] /\ queue' \in QueueType
    <3>1. PICK s \in TaskType : s = [r EXCEPT !.status = Awake(r.status)]
      BY <1>4, <1>7, TaskUpdates
    <3> QED BY <1>3, <1>7, <2>1, <3>1, WithEventsReady
  <2>2. ASSUME ToReady(t, WithEvents(Closed(r), r.pending, IsExpired(t)), Tail(queue.pending))
        PROVE  task' \in [Tasks -> TaskType] /\ queue' \in QueueType
    <3>1. PICK s \in TaskType : s = Closed(r)
      BY <1>4, OperationUpdates
    <3> QED BY <1>3, <1>7, <2>2, <3>1, WithEventsReady
  <2>3. CASE /\ task' = [task EXCEPT ![t] = cancelling]
             /\ queue' = [queue EXCEPT !.pending = Tail(@), !.waiting = queue.waiting \ {t}]
    <3>1. queue.waiting \ {t} \in SUBSET Tasks
      BY DEF TypeOK, QueueType
    <3> QED BY <1>3, <1>8, <2>3, <3>1, LeavesPending
  <2>4. CASE ToSleep(t, r)
    BY <1>3, <2>4, ToSleepUpdates
  <2> QED BY <1>6, <2>1, <2>2, <2>3, <2>4
<1>10. kernel' \in KernelType
  <2>1. <<t, "cancel">> \in Operations
    BY OperationsOfTasks DEF Kinds
  <2>2. Append(moved, <<t, "cancel">>) \in Seq(Operations)
    BY <1>5, <2>1, AppendProperties
  <2>3. \A s \in Seq(Operations) : [kernel EXCEPT !.toSubmit = s] \in KernelType
    BY <1>3 DEF KernelType
  <2> QED BY <1>5, <1>6, <2>2, <2>3
<1> QED BY <1>1, <1>9, <1>10, NextPendingUpdates, SameTypes DEF TypeOK

\* The front queue's handling by the IOCP backend keeps the types.
LEMMA IocpFrontTypes ==
    ASSUME TInv, ~Flagged, NEW w \in Workers, IocpFront(w)
    PROVE  TInv'
<1> USE DEF TInv
<1>1. NextPending(w)
  BY DEF IocpFront
<1>2. PICK t \in Tasks : t = Head(queue.pending)
  BY <1>1, NextPendingUpdates
<1>3. task[t] \in TaskType /\ Tail(queue.pending) \in Seq(Tasks) /\ kernel \in KernelType
      /\ queue.pending # <<>>
  BY <1>1, <1>2, NextPendingUpdates DEF TypeOK
<1>4. PICK r \in TaskType : r = task[t]
  BY <1>3
<1>5. \/ /\ ToReady(t, WithEvents([r EXCEPT !.status = Awake(r.status)], r.pending,
                                  IsExpired(t)), Tail(queue.pending))
         /\ kernel' = kernel
      \/ /\ ToReady(t, WithEvents(Closed(r), r.pending, IsExpired(t)), Tail(queue.pending))
         /\ kernel' = SocketClosed(t)
      \/ /\ task' = [task EXCEPT ![t] = Closed(r)]
         /\ queue' = [queue EXCEPT !.pending = Tail(@), !.waiting = queue.waiting \ {t}]
         /\ kernel' = SocketClosed(t)
      \/ ToSleep(t, r) /\ kernel' = kernel
  BY <1>2, <1>4 DEF IocpFront
<1>6. r.pending \in SUBSET Kinds /\ Awake(r.status) \in Statuses /\ Closed(r) \in TaskType
  BY <1>4, OperationFields, OperationUpdates
<1>7. task' \in [Tasks -> TaskType] /\ queue' \in QueueType
  <2>1. ASSUME ToReady(t, WithEvents([r EXCEPT !.status = Awake(r.status)], r.pending,
                                     IsExpired(t)), Tail(queue.pending))
        PROVE  task' \in [Tasks -> TaskType] /\ queue' \in QueueType
    <3>1. PICK s \in TaskType : s = [r EXCEPT !.status = Awake(r.status)]
      BY <1>4, <1>6, TaskUpdates
    <3> QED BY <1>3, <1>6, <2>1, <3>1, WithEventsReady
  <2>2. ASSUME ToReady(t, WithEvents(Closed(r), r.pending, IsExpired(t)), Tail(queue.pending))
        PROVE  task' \in [Tasks -> TaskType] /\ queue' \in QueueType
    BY <1>3, <1>6, <2>2, WithEventsReady
  <2>3. CASE /\ task' = [task EXCEPT ![t] = Closed(r)]
             /\ queue' = [queue EXCEPT !.pending = Tail(@), !.waiting = queue.waiting \ {t}]
    <3>1. queue.waiting \ {t} \in SUBSET Tasks
      BY DEF TypeOK, QueueType
    <3> QED BY <1>3, <1>6, <2>3, <3>1, LeavesPending
  <2>4. CASE ToSleep(t, r)
    BY <1>3, <1>4, <2>4, ToSleepUpdates
  <2> QED BY <1>5, <2>1, <2>2, <2>3, <2>4
<1>8. kernel' \in KernelType
  <2>1. kernel.cancelled \cup {op \in kernel.inside : op[1] = t} \in SUBSET Operations
    BY <1>3, QueueKernelFields
  <2>2. \A c \in SUBSET Operations : [kernel EXCEPT !.cancelled = c] \in KernelType
    BY <1>3 DEF KernelType
  <2> QED BY <1>3, <1>5, <2>1, <2>2 DEF SocketClosed
<1> QED BY <1>1, <1>7, <1>8, NextPendingUpdates, SameTypes DEF TypeOK

\* io_uring_submit() keeps the types, however many entries it takes.
LEMMA SubmitTypes ==
    ASSUME TInv, NEW w \in Workers, UringSubmit(w)
    PROVE  TInv'
<1> USE DEF TInv
<1> DEFINE n == IF Len(kernel.toSubmit) < RingSize THEN Len(kernel.toSubmit) ELSE RingSize
           now == {kernel.toSubmit[i] : i \in 1..n}
           seen(i) == kernel.inside \cup {kernel.toSubmit[j] : j \in 1..(i - 1)}
           hit == UNION {{op \in seen(i) : op = <<kernel.toSubmit[i][1], "io">>} :
                            i \in {j \in 1..n : kernel.toSubmit[j][2] = "cancel"}}
           rest == SubSeq(kernel.toSubmit, n + 1, Len(kernel.toSubmit))
<1>1. kernel \in KernelType /\ kernel.toSubmit \in Seq(Operations)
      /\ kernel.inside \in SUBSET Operations /\ kernel.cancelled \in SUBSET Operations
  BY QueueKernelFields DEF TypeOK
<1>2. Len(kernel.toSubmit) \in Nat /\ n \in 0..Len(kernel.toSubmit)
      /\ \A i \in 1..Len(kernel.toSubmit) : kernel.toSubmit[i] \in Operations
  BY <1>1, LenProperties, ElementOfSeq, BoundsAssumption
<1>3. kernel' = [kernel EXCEPT !.toSubmit = rest, !.inside = kernel.inside \cup now,
                               !.cancelled = kernel.cancelled \cup hit]
  BY DEF UringSubmit
<1> HIDE DEF n
<1>4. now \in SUBSET Operations /\ rest \in Seq(Operations)
  <2>1. rest \in Seq(Operations)
    <3>1. n + 1 \in Int /\ Len(kernel.toSubmit) \in Int
          /\ \A i \in (n + 1)..Len(kernel.toSubmit) : kernel.toSubmit[i] \in Operations
      BY <1>2
    <3> QED BY <3>1, SubSeqProperties
  <2> QED BY <1>2, <2>1
<1>5. hit \in SUBSET Operations
  <2>1. ASSUME NEW i \in 1..n PROVE seen(i) \in SUBSET Operations
    BY <1>1, <1>2
  <2> HIDE DEF seen
  <2> QED BY <2>1
<1>6. kernel.inside \cup now \in SUBSET Operations /\ kernel.cancelled \cup hit \in SUBSET Operations
  BY <1>1, <1>4, <1>5
<1> HIDE DEF now, hit, rest
<1>7. kernel' \in KernelType
  BY <1>1, <1>3, <1>4, <1>6 DEF KernelType
<1>8. thread' \in [Threads -> ThreadType] /\ HandsAreFull'
  <2>1. thread' = Goto(w, "decide")
    BY DEF UringSubmit
  <2> QED BY <2>1, WorkerGoes DEF SchedPCs
<1> QED BY <1>7, <1>8, SameTypes DEF UringSubmit, TypeOK

\* What the owner of a task does with it, out of the kernel's sight.
LEMMA OperationArgs ==
    ASSUME NEW r \in TaskType, ~Flagged, NEW got \in SUBSET Kinds, NEW t \in Tasks
    PROVE  /\ UringDump(r) \in TaskType /\ UringProcessArgs(r, got) \in TaskType
           /\ UringCloseEnd(r) \in TaskType /\ IocpCloseEnd(r) \in TaskType
           /\ UringStart(t, r) \in TaskType
           /\ UringStart(t, [r EXCEPT !.socket = TRUE]) \in TaskType
<1>1. Cardinality(r.ready) \in Nat /\ r.operations \in Int
      /\ r.locked \in SUBSET {"io", "cancel"} /\ r.toSubmit \in Seq(Tasks \X {"io"})
  BY OperationFields, CountKinds
<1>2. UringDump(r) \in TaskType
  <2>1. PICK n \in Int : n = r.operations - Cardinality(r.ready)
    BY <1>1
  <2>2. [r EXCEPT !.operations = n, !.ready = {}] \in TaskType
    BY OperationUpdates
  <2> QED BY <2>1, <2>2 DEF UringDump
<1>3. UringProcessArgs(r, got) \in TaskType
  <2>1. PICK l \in SUBSET {"io", "cancel"} :
           l = IF got # {} THEN r.locked \ {"io"} ELSE r.locked
    BY <1>1
  <2>2. [r EXCEPT !.locked = l] \in TaskType
    BY OperationUpdates
  <2> QED BY <2>1, <2>2 DEF UringProcessArgs
<1>4. \A y \in TaskType : [y EXCEPT !.locked = {}] \in TaskType
  BY OperationUpdates
<1>5. UringCloseEnd(r) \in TaskType /\ IocpCloseEnd(r) \in TaskType
  BY <1>2, <1>4 DEF UringCloseEnd, IocpCloseEnd, IocpDump
<1>6. ASSUME NEW y \in TaskType PROVE UringStart(t, y) \in TaskType
  <2>1. y.operations + 1 \in Int /\ y.locked \cup {"io"} \in SUBSET {"io", "cancel"}
        /\ Append(y.toSubmit, <<t, "io">>) \in Seq(Tasks \X {"io"})
    BY OperationFields, AppendProperties
  <2> QED BY <2>1, OperationUpdates DEF UringStart
<1>7. [r EXCEPT !.socket = TRUE] \in TaskType
  BY OperationUpdates
<1> QED BY <1>2, <1>3, <1>5, <1>6, <1>7

\* A task may set any deadline.
LEMMA DeadlineTypes ==
    ASSUME TypeOK, NEW r \in TaskType
    PROVE  /\ \A d \in scenario.deadlines \cup {Infinite} : [r EXCEPT !.deadline = d] \in TaskType
           /\ [r EXCEPT !.deadline = 0] \in TaskType
<1>1. scenario.deadlines \cup {Infinite} \in SUBSET Nat
  BY ScenariosAssumption, BoundsAssumption DEF TypeOK, Infinite
<1> QED BY <1>1 DEF TaskType

\* Starting an operation keeps the type of the task, with io_uring.
LEMMA UringTransferTypes ==
    ASSUME TypeOK, ~Flagged, NEW t \in Tasks, NEW r \in TaskType, NEW got \in SUBSET Kinds
    PROVE  UringTransfer(t, r, got) \in TaskType
<1>1. UringAccept(t, r, got) \in TaskType
  BY OperationArgs, DeadlineTypes DEF UringAccept
<1>2. UringSend(t, r) \in TaskType /\ UringRecv(t, r) \in TaskType
      /\ UringConnectStart(t, r) \in TaskType
  BY OperationArgs DEF UringSend, UringRecv, UringConnectStart
<1> QED BY <1>1, <1>2 DEF UringTransfer

\* Starting an operation keeps the types of the task and the kernel, with IOCP.
LEMMA IocpTransferTypes ==
    ASSUME TypeOK, ~Flagged, NEW t \in Tasks, NEW r \in TaskType, NEW got \in SUBSET Kinds,
           NEW y \in IocpTransfer(t, r, kernel, got)
    PROVE  y[1] \in TaskType /\ y[2] \in KernelType
<1>1. kernel \in KernelType /\ kernel.inside \cup {<<t, "io">>} \in SUBSET Operations
      /\ [kernel EXCEPT !.inside = kernel.inside \cup {<<t, "io">>}] \in KernelType
  <2>1. kernel \in KernelType /\ kernel.inside \cup {<<t, "io">>} \in SUBSET Operations
    BY QueueKernelFields, OperationsOfTasks DEF TypeOK
  <2> QED BY <2>1 DEF KernelType
<1>2. ASSUME NEW s \in TaskType, NEW z \in IocpStart(t, s, kernel)
      PROVE  \E a \in TaskType, k \in KernelType : z = <<a, k>>
  <2>1. Closing(s) \in TaskType
    BY TaskUpdates
  <2>2. [s EXCEPT !.operations = s.operations + 1, !.locked = s.locked \cup {"io"}] \in TaskType
    <3>1. s.operations + 1 \in Int /\ s.locked \cup {"io"} \in SUBSET {"io", "cancel"}
      BY OperationFields
    <3> QED BY <3>1, OperationUpdates
  <2> QED BY <1>1, <2>1, <2>2 DEF IocpStart
<1>3. [r EXCEPT !.socket = TRUE] \in TaskType /\ [r EXCEPT !.deadline = 0] \in TaskType
  BY OperationUpdates, DeadlineTypes
<1>4. \E a \in TaskType, k \in KernelType : y = <<a, k>>
  <2>1. \/ y \in IocpStart(t, r, kernel) \/ y \in IocpStart(t, [r EXCEPT !.socket = TRUE], kernel)
        \/ y = <<[r EXCEPT !.deadline = 0], kernel>>
    BY DEF IocpTransfer, IocpSend, IocpRecv, IocpConnectStart, IocpAccept
  <2> QED BY <1>1, <1>2, <1>3, <2>1
<1> QED BY <1>4

\* Executing a task keeps the types, with io_uring and IOCP.
LEMMA OperationExecuteTypes ==
    ASSUME TInv, ~Flagged, NEW w \in Workers, At(w, "execute"),
           \/ UringCallback(w) \/ IocpCallback(w)
           \/ LastExecute(w, UringCloseEnd(task[Of(w)]))
           \/ LastExecute(w, IocpCloseEnd(task[Of(w)]))
    PROVE  TInv'
<1> USE DEF TInv
<1>1. PICK t \in Tasks : t = Of(w) /\ task[t] \in TaskType
  BY HandIsFull
<1>2. PICK got \in SUBSET Kinds : got = task[t].ready
  BY <1>1, OperationFields
<1>3. kernel \in KernelType /\ UringCloseEnd(task[t]) \in TaskType
      /\ IocpCloseEnd(task[t]) \in TaskType
  BY <1>1, <1>2, OperationArgs DEF TypeOK
<1>4. PICK r \in TaskType : r = UringProcessArgs(UringDump(Started(t)), got)
  BY <1>1, <1>2, StartedType, OperationArgs
<1>5. \A x \in {[r EXCEPT !.deadline = d] : d \in scenario.deadlines \cup {Infinite}} :
         x \in TaskType
  BY <1>4, DeadlineTypes
<1>6. \E y \in TaskType, k \in KernelType : \/ Execute(w, y, k)
                                            \/ LastExecute(w, y)
  <2>1. CASE UringCallback(w)
    BY <1>1, <1>2, <1>3, <1>4, <1>5, <2>1, TaskUpdates, UringTransferTypes DEF UringCallback
  <2>2. CASE IocpCallback(w)
    <3>1. CASE Execute(w, Closing(r), kernel)
      BY <1>3, <1>4, <3>1, TaskUpdates
    <3>2. ASSUME NEW x \in {[r EXCEPT !.deadline = d] : d \in scenario.deadlines \cup {Infinite}},
                 \/ Execute(w, x, kernel)
                 \/ \E y \in IocpTransfer(t, x, kernel, got) : Execute(w, y[1], y[2])
          PROVE  \E y \in TaskType, k \in KernelType : Execute(w, y, k)
      BY <1>3, <1>5, <3>2, IocpTransferTypes
    <3> QED BY <1>1, <1>2, <1>4, <2>2, <3>1, <3>2 DEF IocpCallback, IocpProcessArgs, IocpDump
  <2> QED BY <1>1, <1>3, <2>1, <2>2
<1> QED BY <1>6, ExecuteUpdates

\* So every step of these two backends keeps them.
LEMMA OperationTypes ==
    ASSUME TInv, NEW w \in Workers, UringStep(w) \/ IocpStep(w)
    PROVE  TInv'
<1>1. ~Flagged
  BY DEF UringStep, IocpStep, Flagged
<1>2. Again \in SchedPCs /\ {"decide", "poll", "submit", "harvest"} \subseteq SchedPCs
  BY DEF Again, SchedPCs
<1>3. CASE UringSchedule(w)
  <2>1. CASE UringHarvest(w) \/ UringPoll(w)
    BY <1>1, <2>1, OperationHarvestTypes
  <2>2. ASSUME NEW x \in round.harvest, UringEvent(w, x) PROVE TInv'
    BY <1>1, <2>2, EventTypes
  <2>3. CASE UringFront(w)
    BY <1>1, <2>3, UringFrontTypes
  <2>4. CASE UringSubmit(w)
    BY <2>4, SubmitTypes
  <2>5. CASE UringExpired(w) \/ UringDecide(w)
    BY <1>2, <2>5, RoundTypes DEF UringExpired, UringDecide
  <2>6. CASE UringPublish(w)
    <3>1. \E to \in SchedPCs : Publish(w, to)
      BY <1>2, <2>6, Zenon DEF UringPublish
    <3> QED BY <3>1, RoundTypes
  <2> QED BY <1>3, <2>1, <2>2, <2>3, <2>4, <2>5, <2>6 DEF UringSchedule
<1>4. CASE backend = "iocp" /\ IocpSchedule(w)
  <2>1. CASE IocpHarvest(w)
    BY <1>1, <2>1, OperationHarvestTypes
  <2>2. ASSUME NEW x \in round.harvest, IocpEvent(w, x) PROVE TInv'
    BY <1>1, <1>4, <2>2, EventTypes
  <2>3. CASE IocpFront(w)
    BY <1>1, <2>3, IocpFrontTypes
  <2>4. CASE IocpExpired(w) \/ IocpPublish(w)
    BY <1>2, <2>4, RoundTypes DEF IocpExpired, IocpPublish
  <2>5. CASE IocpDecide(w)
    <3>1. \E sleep, passed \in SchedPCs : Decide(w, sleep, passed)
      BY <1>2, <2>5, Zenon DEF IocpDecide
    <3> QED BY <3>1, RoundTypes
  <2> QED BY <1>4, <2>1, <2>2, <2>3, <2>4, <2>5 DEF IocpSchedule
<1>5. CASE At(w, "execute") /\ (\/ UringCallback(w) \/ IocpCallback(w)
           \/ LastExecute(w, UringCloseEnd(task[Of(w)]))
           \/ LastExecute(w, IocpCloseEnd(task[Of(w)])))
  BY <1>1, <1>5, OperationExecuteTypes
<1> QED BY <1>3, <1>4, <1>5 DEF UringStep, IocpStep

-----------------------------------------------------------------------------
\* A core that has not been started has the types.
LEMMA InitTypes == Init => TInv
<1> SUFFICES ASSUME Init PROVE TInv
  OBVIOUS
<1>1. NewTask \in TaskType
  BY BoundsAssumption DEF NewTask, TaskType, Statuses, Infinite
<1>2. \A p \in Threads : NewThread(Idle(p)) \in ThreadType
  BY DEF NewThread, Idle, ThreadType, PCs, OtherPCs
<1>3. kernel \in KernelType
  <2>1. PICK s : s = IF backend = "iouring" THEN <<<<NoTask, "signal">>>> ELSE <<>>
    OBVIOUS
  <2>2. s \in Seq(Operations)
    <3>1. CASE backend = "iouring"
      <4>1. SignalRead \in Operations /\ s = <<SignalRead>>
        BY <2>1, <3>1 DEF Operations, SignalRead
      <4> QED BY <4>1
    <3>2. CASE backend # "iouring"
      BY <2>1, <3>2
    <3> QED BY <3>1, <3>2
  <2>3. kernel = [data |-> {}, reported |-> [t \in Tasks |-> {}], inside |-> {},
                  done |-> {}, cancelled |-> {}, poll |-> FALSE, toSubmit |-> s]
    BY <2>1 DEF Init
  <2> QED BY <2>2, <2>3 DEF KernelType
<1>4. TypeOK
  <2>1. task \in [Tasks -> TaskType] /\ thread \in [Threads -> ThreadType]
    <3>1. task = [t \in Tasks |-> NewTask] /\ thread = [p \in Threads |-> NewThread(Idle(p))]
      BY DEF Init
    <3> QED BY <1>1, <1>2, <3>1
  <2>2. queue \in QueueType
    BY DEF Init, QueueType
  <2>3. round \in RoundType
    BY DEF Init, NewRound, RoundType
  <2>4. core \in CoreType
    BY DEF Init, CoreType
  <2>5. scenario \in Scenarios /\ count \in Int /\ scheduling \in BOOLEAN /\ clock \in Nat
        /\ signal \in [ready : BOOLEAN, wake : BOOLEAN]
    <3>1. scheduling \in BOOLEAN
      BY Zenon DEF Init
    <3>2. signal \in [ready : BOOLEAN, wake : BOOLEAN]
      <4>1. signal = [ready |-> FALSE, wake |-> FALSE]
        BY DEF Init
      <4> QED BY <4>1
    <3>3. scenario \in Scenarios /\ count \in Int /\ clock \in Nat
      BY DEF Init
    <3> QED BY <3>1, <3>2, <3>3
  <2> QED BY <1>3, <2>1, <2>2, <2>3, <2>4, <2>5 DEF TypeOK
<1>5. HandsAreFull
  BY ThreadsAssumption DEF Init, HandsAreFull, NewThread, Idle, Threads, HandPCs
<1> QED BY <1>4, <1>5 DEF TInv

\* Every step of the core keeps them.
LEMMA NextTypes == TInv /\ [Next]_vars => TInv'
<1> SUFFICES ASSUME TInv, [Next]_vars PROVE TInv'
  OBVIOUS
<1>1. CASE CommonNext
  <2>1. ASSUME NEW c \in Clients, NEW t \in Tasks, ClientCall(c, t) PROVE TInv'
    BY <2>1, CallTypes DEF ClientCall, Threads
  <2>2. ASSUME NEW p \in Threads, ThreadStep(p) PROVE TInv'
    BY <2>2, PushTypes DEF ThreadStep
  <2>3. ASSUME NEW w \in Workers, WorkerStep(w) PROVE TInv'
    <3>1. CASE PostClose(w, Of(w))
      <4>1. w \in Threads /\ Of(w) \in Tasks
        BY <3>1, ThreadsAssumption DEF PostClose, TInv, HandsAreFull, HandPCs, Threads, At, Of
      <4> QED BY <3>1, <4>1, CallTypes
    <3>2. CASE ThreadStep(w)
      BY <3>2, <2>2 DEF Threads
    <3> QED BY <2>3, <3>1, <3>2, WorkerTypes, HandTypes DEF WorkerStep
  <2>4. CASE StopStart \/ StopNext \/ Tick
    BY <2>4, ControlTypes DEF StopStart, StopNext
  <2> QED BY <1>1, <2>1, <2>2, <2>3, <2>4 DEF CommonNext, Threads
<1>2. CASE EpollKernel
  BY <1>2, PeerTypes DEF EpollKernel
<1>3. CASE UringKernel \/ IocpKernel
  <2>1. kernel.cancelled \subseteq Operations
    BY QueueKernelFields DEF TInv, TypeOK
  <2>2. \E op \in kernel.inside : Complete(op) \/ CompleteInternal(op)
    BY <1>3 DEF UringKernel, IocpKernel, KernelWork, Complete
  <2> QED BY <2>2, CompleteTypes
<1>4. ASSUME NEW w \in Workers, BackendStep(w) PROVE TInv'
  BY <1>4, FlagTypes, OperationTypes DEF BackendStep
<1>5. CASE UNCHANGED vars
  <2>1. TypeOK'
    BY <1>5, SameTypes DEF vars, TInv, TypeOK
  <2>2. HandsAreFull'
    BY <1>5 DEF vars, TInv, HandsAreFull
  <2> QED BY <2>1, <2>2 DEF TInv
<1> QED BY <1>1, <1>2, <1>3, <1>4, <1>5 DEF Next

\* Whatever the threads, the peers and the kernel do, every field has its type,
\* and a thread that is to hold a task holds one.
THEOREM TypeCorrect == Spec => []TInv
<1> QED BY InitTypes, NextTypes, PTL DEF Spec

-----------------------------------------------------------------------------
(* The sched-thread.                                                        *)

\* One worker at a time is in PrivScheduleDo(), and the flag is set then.
OneScheduler ==
    /\ \A w \in Workers : thread[w].pc \in SchedPCs => scheduling
    /\ \A v, w \in Workers :
          thread[v].pc \in SchedPCs /\ thread[w].pc \in SchedPCs => v = w

\* The workers that have not been started are idle.
CrewWorks ==
    /\ \A w \in Workers : w \notin core.crew => thread[w].pc = "done"
    /\ core.state = "STOPPED" => core.crew = {}

\* What has been taken from the kernel is being handed out.
HarvestIsServed ==
    round.harvest # {} => \E w \in Workers : thread[w].pc \in {"collect", "kernel"}

\* What the kernel has done since the harvest is announced; only a full batch leaves
\* something from before it.
AfterHarvest == SchedPCs \ {"harvest", "finish", "leave"}
DoneIsAnnounced ==
    backend = "iouring" =>
       \A w \in Workers : thread[w].pc \in AfterHarvest =>
             kernel.done = {} \/ kernel.poll \/ round.full

SchedInv == OneScheduler /\ CrewWorks /\ HarvestIsServed /\ DoneIsAnnounced

\* A step of one thread, which has been started.
Moves(p) ==
    /\ core' = core /\ thread[p].pc # "done"
    /\ \A q \in Threads : q # p => thread'[q] = thread[q]

\* A step that leaves the election and the harvest alone.
LEMMA AsideKeeps ==
    ASSUME SchedInv, NEW p \in Threads, Moves(p), scheduling' = scheduling,
           round' = round, thread'[p].pc \notin SchedPCs,
           thread[p].pc \notin SchedPCs, scenario' = scenario,
           backend = "iouring" => kernel' = kernel
    PROVE  SchedInv'
<1>1. \A w \in Workers : w \in Threads
  BY DEF Threads
<1>2. OneScheduler'
  BY <1>1 DEF SchedInv, OneScheduler, Moves
<1>3. CrewWorks'
  BY <1>1 DEF SchedInv, CrewWorks, Moves
<1>4. HarvestIsServed'
  BY <1>1 DEF SchedInv, HarvestIsServed, Moves, SchedPCs
<1>5. DoneIsAnnounced'
  BY <1>1 DEF SchedInv, DoneIsAnnounced, Moves, AfterHarvest, backend
<1> QED BY <1>2, <1>3, <1>4, <1>5 DEF SchedInv

\* A step of the sched-thread takes all or a full batch, or leaves alone what is done.
HarvestIsTold(w) ==
    backend = "iouring" /\ thread'[w].pc \in AfterHarvest =>
       \/ kernel'.done = {} \/ round'.full
       \/ /\ kernel'.done = kernel.done /\ kernel'.poll = kernel.poll /\ round'.full = round.full
          /\ thread[w].pc \in AfterHarvest

\* A step of the sched-thread.
LEMMA RoundKeeps ==
    ASSUME SchedInv, NEW w \in Workers, Moves(w), scheduling' = scheduling,
           thread[w].pc \in SchedPCs, thread'[w].pc \in SchedPCs,
           \/ round'.harvest = {}
           \/ thread'[w].pc \in {"collect", "kernel"},
           scenario' = scenario, HarvestIsTold(w)
    PROVE  SchedInv'
<1>1. \A v \in Workers : v \in Threads
  BY DEF Threads
<1>2. OneScheduler'
  BY <1>1 DEF SchedInv, OneScheduler, Moves
<1>3. CrewWorks'
  BY <1>1 DEF SchedInv, CrewWorks, Moves
<1>4. HarvestIsServed'
  BY <1>1 DEF SchedInv, HarvestIsServed, Moves
<1>5. DoneIsAnnounced'
  BY <1>1 DEF SchedInv, DoneIsAnnounced, OneScheduler, HarvestIsTold, Moves, AfterHarvest, backend
<1> QED BY <1>2, <1>3, <1>4, <1>5 DEF SchedInv

\* Posts, closes and wakeups leave the election alone.
LEMMA CallSched ==
    ASSUME TInv, SchedInv, NEW p \in Threads, NEW t \in Tasks,
           Post(p, t) \/ PostClose(p, t) \/ PostWakeup(p, t)
    PROVE  SchedInv'
<1>1. thread \in [Threads -> ThreadType] /\ "push" \in PCs
  BY DEF TInv, TypeOK, PCs, HandPCs
<1>2. thread[p].pc \in {"idle", "callback"} /\ core' = core /\ scheduling' = scheduling
      /\ round' = round /\ (thread' = thread \/ thread' = Taking(p, t, "push"))
      /\ kernel' = kernel /\ scenario' = scenario
  BY DEF Post, PostClose, PostWakeup, At, Taking
<1>3. thread'[p].pc \in {"idle", "callback", "push"}
      /\ \A q \in Threads : q # p => thread'[q] = thread[q]
  BY <1>1, <1>2, TakingUpdates
<1> QED BY <1>2, <1>3, AsideKeeps DEF Moves, SchedPCs

\* So do the push and the wakeup of the kernel.
LEMMA PushSched ==
    ASSUME TInv, SchedInv, NEW p \in Threads, Push(p) \/ PlatformSignal(p)
    PROVE  SchedInv'
<1>1. thread \in [Threads -> ThreadType] /\ TypeOK
  BY DEF TInv, TypeOK
<1>2. thread[p].pc \in {"push", "signal"} /\ core' = core /\ scheduling' = scheduling
      /\ round' = round /\ kernel' = kernel /\ scenario' = scenario
  BY DEF Push, PlatformSignal, At
<1>3. thread'[p].pc \in {"idle", "release", "pop", "elect", "signal"}
      /\ \A q \in Threads : q # p => thread'[q] = thread[q]
  <2>1. CASE Push(p)
    <3>1. Of(p) \in Tasks /\ Pushed(p, Of(p))
      BY <2>1 DEF Push, At, Of, TInv, HandsAreFull, HandPCs
    <3> QED BY <1>1, <3>1, PushedUpdates
  <2>2. CASE PlatformSignal(p)
    BY <1>1, <2>2, OnwardsUpdates DEF PlatformSignal
  <2> QED BY <2>1, <2>2
<1> QED BY <1>2, <1>3, AsideKeeps DEF Moves, SchedPCs

\* The worker outside of PrivScheduleDo() stays outside.
LEMMA WorkerMoves ==
    ASSUME TInv, NEW w \in Workers,
           \/ SignalReady(w) \/ WorkerExit(w) \/ Pop(w) \/ WaitReady(w) \/ Return(w)
           \/ Reattach(w) \/ Repost(w) \/ Release(w)
           \/ (\E r, k : Execute(w, r, k) /\ (backend = "iouring" => k = kernel))
           \/ \E r : LastExecute(w, r)
    PROVE  /\ Moves(w) /\ thread[w].pc \notin SchedPCs /\ thread'[w].pc \notin SchedPCs
           /\ thread[w].pc # "signal" /\ scheduling' = scheduling /\ round' = round
           /\ scenario' = scenario /\ (backend = "iouring" => kernel' = kernel)
<1>1. thread \in [Threads -> ThreadType] /\ TypeOK /\ w \in Threads
  BY DEF TInv, TypeOK, Threads
<1>2. thread[w].pc \in {"announce", "abandon", "exit", "domino", "pop", "wait", "callback",
                        "closed", "attach", "release", "execute"}
      /\ core' = core /\ scheduling' = scheduling /\ round' = round
      /\ scenario' = scenario /\ (backend = "iouring" => kernel' = kernel)
  BY DEF SignalReady, WorkerExit, Pop, WaitReady, Return, Reattach, Repost, Release,
         Execute, LastExecute, At
<1>3. thread'[w].pc \notin SchedPCs /\ \A q \in Threads : q # w => thread'[q] = thread[q]
  <2>1. ASSUME NEW pc \in PCs, thread' = Goto(w, pc) \/ thread' = Rest(w, pc),
               pc \notin SchedPCs
        PROVE  thread'[w].pc \notin SchedPCs /\ \A q \in Threads : q # w => thread'[q] = thread[q]
    BY <1>1, <2>1, ThreadUpdates
  <2>2. CASE SignalReady(w)
    <3>1. PICK pc \in {"pop", "domino"} : thread' = Goto(w, pc)
      BY <2>2 DEF SignalReady
    <3> QED BY <3>1, <2>1 DEF PCs, OtherPCs, SchedPCs
  <2>3. CASE WorkerExit(w)
    BY <2>3, <2>1 DEF WorkerExit, PCs, OtherPCs, SchedPCs
  <2>4. CASE WaitReady(w)
    <3>1. PICK pc \in {"exit", "elect"} : thread' = Rest(w, pc)
      BY <2>4, Zenon DEF WaitReady
    <3> QED BY <3>1, <2>1 DEF PCs, OtherPCs, SchedPCs
  <2>5. CASE Pop(w)
    <3>1. CASE queue.ready = <<>>
      BY <2>5, <3>1, <2>1 DEF Pop, PCs, OtherPCs, SchedPCs
    <3>2. CASE queue.ready # <<>>
      <4>1. thread' = [thread EXCEPT ![w].pc = "execute", ![w].task = Head(queue.ready)]
        BY <2>5, <3>2 DEF Pop
      <4> QED BY <1>1, <4>1 DEF SchedPCs, ThreadType
    <3> QED BY <3>1, <3>2
  <2>6. CASE Return(w) \/ Repost(w)
    <3>1. Of(w) \in Tasks /\ Pushed(w, Of(w))
      BY <2>6 DEF Return, Repost, At, Of, TInv, HandsAreFull, HandPCs, Threads
    <3> QED BY <1>1, <3>1, PushedUpdates DEF SchedPCs
  <2>7. CASE Reattach(w)
    BY <2>7, <2>1 DEF Reattach, PCs, HandPCs, SchedPCs
  <2>8. CASE Release(w)
    BY <1>1, <2>8, NextTaskUpdates DEF Release, SchedPCs
  <2>9. CASE \E r, k : Execute(w, r, k)
    BY <2>9, <2>1 DEF Execute, PCs, HandPCs, SchedPCs
  <2>10. CASE \E r : LastExecute(w, r)
    BY <1>1, <2>10 DEF LastExecute, SchedPCs, ThreadType
  <2> QED BY <2>2, <2>3, <2>4, <2>5, <2>6, <2>7, <2>8, <2>9, <2>10
<1> QED BY <1>2, <1>3 DEF Moves, SchedPCs

\* So it leaves the election alone.
LEMMA WorkerSched ==
    ASSUME TInv, SchedInv, NEW w \in Workers,
           \/ SignalReady(w) \/ WorkerExit(w) \/ Pop(w) \/ WaitReady(w) \/ Return(w)
           \/ Reattach(w) \/ Repost(w) \/ Release(w)
           \/ (\E r, k : Execute(w, r, k) /\ (backend = "iouring" => k = kernel))
           \/ \E r : LastExecute(w, r)
    PROVE  SchedInv'
<1>1. w \in Threads
  BY DEF Threads
<1> QED BY <1>1, WorkerMoves, AsideKeeps

\* The election, its end, and the step between the two harvests.
LEMMA ElectionSched ==
    ASSUME TInv, SchedInv, NEW w \in Workers,
           ScheduleStart(w) \/ ScheduleEnd(w) \/ Collect(w)
    PROVE  SchedInv'
<1>1. thread \in [Threads -> ThreadType] /\ w \in Threads /\ scheduling \in BOOLEAN
      /\ \A v \in Workers : v \in Threads
  BY DEF TInv, TypeOK, Threads
<1>2. CASE ScheduleStart(w)
  <2>1. At(w, "elect") /\ core' = core /\ round' = round /\ scheduling'
    BY <1>2, Zenon DEF ScheduleStart
  <2>2. thread' = Rest(w, "pop") \/ (~scheduling /\ thread' = Rest(w, "harvest"))
    BY <1>2 DEF ScheduleStart
  <2>3. Moves(w) /\ thread'[w].pc \in {"pop", "harvest"}
        /\ (thread'[w].pc = "harvest" => ~scheduling)
    BY <1>1, <2>1, <2>2, ThreadUpdates DEF Moves, At, PCs, OtherPCs, SchedPCs
  <2>4. OneScheduler'
    BY <1>1, <2>1, <2>3 DEF SchedInv, OneScheduler, Moves, SchedPCs
  <2>5. CrewWorks'
    BY <1>1, <2>1, <2>3 DEF SchedInv, CrewWorks, Moves, At
  <2>6. HarvestIsServed'
    BY <1>1, <2>1, <2>3 DEF SchedInv, HarvestIsServed, Moves, At
  <2>7. DoneIsAnnounced'
    BY <1>1, <1>2, <2>3 DEF SchedInv, DoneIsAnnounced, Moves, AfterHarvest, SchedPCs, backend,
       ScheduleStart
  <2> QED BY <2>4, <2>5, <2>6, <2>7 DEF SchedInv
<1>3. CASE ScheduleEnd(w)
  <2>1. thread[w].pc \in {"finish", "leave"} /\ core' = core /\ round' = NewRound
    BY <1>3 DEF ScheduleEnd, At
  <2>2. thread' = Goto(w, "announce") \/ thread' = Goto(w, "abandon")
    BY <1>3 DEF ScheduleEnd
  <2>3. Moves(w) /\ thread'[w].pc \in {"announce", "abandon"}
    BY <1>1, <2>1, <2>2, ThreadUpdates DEF Moves, PCs, OtherPCs
  <2>4. OneScheduler'
    BY <1>1, <2>1, <2>3 DEF SchedInv, OneScheduler, Moves, SchedPCs
  <2>5. CrewWorks'
    BY <1>1, <2>1, <2>3 DEF SchedInv, CrewWorks, Moves
  <2>6. HarvestIsServed'
    BY <2>1 DEF HarvestIsServed, NewRound
  <2>7. DoneIsAnnounced'
    <3>1. \A v \in Workers : thread'[v].pc \notin AfterHarvest
      BY <1>1, <2>1, <2>3 DEF SchedInv, OneScheduler, Moves, AfterHarvest, SchedPCs
    <3> QED BY <3>1 DEF DoneIsAnnounced
  <2> QED BY <2>4, <2>5, <2>6, <2>7 DEF SchedInv
<1>4. CASE Collect(w)
  <2>1. thread[w].pc = "collect" /\ core' = core /\ round' = round /\ scheduling' = scheduling
        /\ thread' = Goto(w, "kernel")
    BY <1>4 DEF Collect, At
  <2>2. Moves(w) /\ thread'[w].pc = "kernel"
    BY <1>1, <2>1, ThreadUpdates DEF Moves, PCs, SchedPCs
  <2>3. HarvestIsTold(w) /\ scenario' = scenario
    BY <1>4, <2>1 DEF Collect, HarvestIsTold, AfterHarvest, SchedPCs
  <2> QED BY <2>1, <2>2, <2>3, RoundKeeps DEF SchedPCs
<1> QED BY <1>2, <1>3, <1>4

\* Start() finds no worker, and Stop() ends when none is left.
LEMMA ControlSched ==
    ASSUME TInv, SchedInv, Start(scenario.crew) \/ Stop \/ StopWorkers \/ StopJoin \/ Tick
    PROVE  SchedInv'
<1>1. thread \in [Threads -> ThreadType] /\ core \in CoreType
      /\ \A v \in Workers : v \in Threads
  BY DEF TInv, TypeOK, Threads
<1>2. CASE Start(scenario.crew)
  <2>1. \A w \in Workers : thread[w].pc = "done"
    BY <1>2 DEF Start, SchedInv, CrewWorks
  <2>2. \A p \in Threads : thread'[p] = thread[p]
           \/ (p \in scenario.crew /\ thread'[p].pc = "elect")
    BY <1>2 DEF Start, NewThread
  <2>3. core'.state = "RUNNING" /\ core'.crew = scenario.crew /\ scheduling' = scheduling
        /\ round' = round
    BY <1>2 DEF Start
  <2>4. OneScheduler'
    BY <1>1, <2>1, <2>2, <2>3 DEF OneScheduler, SchedPCs
  <2>5. CrewWorks'
    BY <1>1, <2>1, <2>2, <2>3 DEF CrewWorks
  <2>6. HarvestIsServed'
    BY <1>1, <2>1, <2>2, <2>3 DEF SchedInv, HarvestIsServed
  <2>7. DoneIsAnnounced'
    BY <1>1, <1>2, <2>1, <2>2 DEF DoneIsAnnounced, AfterHarvest, SchedPCs
  <2> QED BY <2>4, <2>5, <2>6, <2>7 DEF SchedInv
<1>3. CASE Stop \/ StopWorkers \/ StopJoin \/ Tick
  <2>1. thread' = thread /\ scheduling' = scheduling /\ round' = round
        /\ kernel' = kernel /\ scenario' = scenario
    BY <1>3 DEF Stop, StopWorkers, StopJoin, Tick
  <2>2. OneScheduler' /\ HarvestIsServed' /\ DoneIsAnnounced'
    BY <2>1 DEF SchedInv, OneScheduler, HarvestIsServed, DoneIsAnnounced, backend
  <2>3. CrewWorks'
    <3>1. CASE Stop \/ StopWorkers
      <4>1. core'.crew = core.crew /\ core'.state # "STOPPED"
        BY <1>1, <3>1 DEF Stop, StopWorkers, CoreType
      <4> QED BY <2>1, <4>1 DEF SchedInv, CrewWorks
    <3>2. CASE StopJoin
      <4>1. core'.crew = {} /\ \A w \in core.crew : thread[w].pc = "done"
        BY <3>2 DEF StopJoin, At
      <4> QED BY <2>1, <4>1 DEF SchedInv, CrewWorks
    <3>3. CASE Tick
      BY <2>1, <3>3 DEF Tick, SchedInv, CrewWorks
    <3> QED BY <1>3, <3>1, <3>2, <3>3
  <2> QED BY <2>2, <2>3 DEF SchedInv
<1> QED BY <1>2, <1>3

\* The steps of the backends in PrivScheduleDo(), and those that call a task.
ExpireStep(w) ==
    ExpireTop(w) \/ (\E to \in {"decide", "submit"} : Publish(w, to))
    \/ \E sleep, passed \in SchedPCs : Decide(w, sleep, passed)
EventStep(w) ==
    \/ backend = "epoll" /\ \E t \in Tasks : EpollEvent(w, t)
    \/ backend = "kqueue" /\ \E x \in round.harvest : KqueueEvent(w, x)
    \/ backend = "iouring" /\ \E x \in round.harvest : UringEvent(w, x)
    \/ backend = "iocp" /\ \E x \in round.harvest : IocpEvent(w, x)
FrontStep(w) ==
    \/ Flagged /\ EpollFront(w)
    \/ backend = "iouring" /\ UringFront(w)
    \/ backend = "iocp" /\ IocpFront(w)
HarvestStep(w) ==
    \/ Flagged /\ EpollHarvest(w)
    \/ backend = "iouring" /\ UringHarvest(w)
    \/ backend = "iocp" /\ IocpHarvest(w)
PollStep(w) ==
    \/ Flagged /\ EpollPoll(w)
    \/ backend = "iouring" /\ (UringSubmit(w) \/ UringPoll(w))
OwnerStep(w) ==
    \/ backend = "epoll" /\ EpollCallback(w)
    \/ backend = "kqueue" /\ KqueueCallback(w)
    \/ backend = "iouring" /\ UringCallback(w)
    \/ backend = "iocp" /\ IocpCallback(w)
LastStep(w) ==
    \/ Flagged /\ LastExecute(w, EpollCloseEnd(task[Of(w)]))
    \/ backend \in {"iouring", "iocp"} /\ LastExecute(w, UringCloseEnd(task[Of(w)]))

\* The steps of the backends by their part of PrivScheduleDo().
LEMMA BackendCases ==
    ASSUME NEW w \in Workers, BackendStep(w)
    PROVE  \/ ExpireStep(w) \/ EventStep(w) \/ FrontStep(w) \/ HarvestStep(w)
           \/ PollStep(w) \/ OwnerStep(w) \/ LastStep(w)
<1>1. "poll" \in SchedPCs /\ Again \in SchedPCs /\ "harvest" \in SchedPCs
  BY DEF Again, SchedPCs
<1>2. CASE EpollStep(w)
  <2>1. backend = "epoll" /\ Flagged
    BY <1>2 DEF EpollStep, Flagged
  <2>2. CASE EpollExpired(w) \/ EpollPublish(w) \/ EpollDecide(w)
    BY <1>1, <2>2 DEF EpollExpired, EpollPublish, EpollDecide, ExpireStep
  <2> QED BY <1>2, <2>1, <2>2 DEF EpollStep, EpollSchedule, EventStep, FrontStep,
                HarvestStep, PollStep, OwnerStep, LastStep
<1>3. CASE KqueueStep(w)
  <2>1. backend = "kqueue" /\ Flagged
    BY <1>3 DEF KqueueStep, Flagged
  <2>2. CASE KqueueExpired(w) \/ KqueuePublish(w) \/ KqueueDecide(w)
    BY <1>1, <2>2 DEF KqueueExpired, KqueuePublish, KqueueDecide, ExpireStep
  <2> QED BY <1>3, <2>1, <2>2 DEF KqueueStep, KqueueSchedule, KqueueFront, KqueuePoll,
                KqueueHarvest, KqueueCloseEnd, EventStep, FrontStep,
                HarvestStep, PollStep, OwnerStep, LastStep
<1>4. CASE UringStep(w)
  <2>1. backend = "iouring"
    BY <1>4 DEF UringStep
  <2>2. CASE UringPublish(w)
    BY <2>2, Zenon DEF UringPublish, ExpireStep
  <2>3. CASE UringExpired(w) \/ UringDecide(w)
    BY <1>1, <2>3 DEF UringExpired, UringDecide, ExpireStep
  <2> QED BY <1>4, <2>1, <2>2, <2>3 DEF UringStep, UringSchedule, EventStep, FrontStep,
                HarvestStep, PollStep, OwnerStep, LastStep
<1>5. CASE IocpStep(w)
  <2>1. backend = "iocp"
    BY <1>5 DEF IocpStep
  <2>2. CASE IocpExpired(w) \/ IocpPublish(w) \/ IocpDecide(w)
    BY <1>1, <2>2 DEF IocpExpired, IocpPublish, IocpDecide, ExpireStep
  <2>3. UringCloseEnd(task[Of(w)]) = IocpCloseEnd(task[Of(w)])
    BY DEF UringCloseEnd, IocpCloseEnd, IocpDump
  <2> QED BY <1>5, <2>1, <2>2, <2>3 DEF IocpStep, IocpSchedule, EventStep, FrontStep,
                HarvestStep, PollStep, OwnerStep, LastStep
<1> QED BY <1>2, <1>3, <1>4, <1>5 DEF BackendStep

\* Who calls a task has it.
LEMMA OwnerExecutes ==
    ASSUME NEW w \in Workers, OwnerStep(w)
    PROVE  \E r, k : Execute(w, r, k) /\ (backend = "iouring" => k = kernel)
<1>1. CASE backend # "iouring" /\ (EpollCallback(w) \/ KqueueCallback(w))
  <2>1. PICK processed : CallbackWith(w, processed)
    BY <1>1 DEF EpollCallback, KqueueCallback
  <2>2. CASE "err" \in task[Of(w)].ready
    BY <1>1, <2>1, <2>2 DEF CallbackWith
  <2>3. CASE "err" \notin task[Of(w)].ready
    <3>1. \E x \in EpollOwner(Of(w), processed) : Execute(w, x[1], x[2])
      BY <2>1, <2>3 DEF CallbackWith
    <3> QED BY <1>1, <3>1
  <2> QED BY <2>2, <2>3
<1>2. CASE UringCallback(w)
  BY <1>2 DEF UringCallback
<1>3. CASE backend # "iouring" /\ IocpCallback(w)
  <2> DEFINE got == task[Of(w)].ready
             r == IocpProcessArgs(IocpDump(Started(Of(w))), got)
             later == {[r EXCEPT !.deadline = d] : d \in scenario.deadlines \cup {Infinite}}
  <2>1. CASE Execute(w, Closing(r), kernel)
    BY <1>3, <2>1
  <2>2. CASE \E x \in later :
               IF Side(Of(w)) = "timer" \/ "io" \in r.locked THEN Execute(w, x, kernel)
               ELSE \E y \in IocpTransfer(Of(w), x, kernel, got) : Execute(w, y[1], y[2])
    <3> HIDE DEF later, r, got
    <3>1. PICK x \in later :
             IF Side(Of(w)) = "timer" \/ "io" \in r.locked THEN Execute(w, x, kernel)
             ELSE \E y \in IocpTransfer(Of(w), x, kernel, got) : Execute(w, y[1], y[2])
      BY <2>2
    <3>2. Execute(w, x, kernel) \/ \E y \in IocpTransfer(Of(w), x, kernel, got) : Execute(w, y[1], y[2])
      BY <3>1
    <3> QED BY <1>3, <3>2
  <2> QED BY <1>3, <2>1, <2>2 DEF IocpCallback
<1> QED BY <1>1, <1>2, <1>3 DEF OwnerStep

\* Between the harvests nothing is left of one.
LEMMA NothingLeft ==
    ASSUME SchedInv, NEW w \in Workers, thread[w].pc \in SchedPCs \ {"collect", "kernel"}
    PROVE  round.harvest = {}
<1>1. \A v \in Workers : thread[v].pc \notin {"collect", "kernel"}
  BY DEF SchedInv, OneScheduler, SchedPCs
<1> QED BY <1>1 DEF SchedInv, HarvestIsServed

\* The front queue is handled when the harvest has been handed out.
LEMMA FrontIsQuiet ==
    ASSUME SchedInv, NEW w \in Workers, AtFront(w) \/ At(w, "expired")
    PROVE  round.harvest = {} /\ thread[w].pc \in SchedPCs
<1>1. CASE At(w, "kernel") /\ round.harvest = {}
  BY <1>1 DEF At, SchedPCs
<1>2. CASE thread[w].pc \in {"front", "expired"}
  <2>1. thread[w].pc \in SchedPCs \ {"collect", "kernel"}
    BY <1>2 DEF SchedPCs
  <2> QED BY <2>1, NothingLeft
<1> QED BY <1>1, <1>2 DEF AtFront, At

\* A harvest of io_uring leaves nothing, or is a full batch.
LEMMA HarvestTakesBatch ==
    ASSUME TInv, NEW w \in Workers, UringHarvest(w)
    PROVE  kernel'.done = {} \/ round'.full
<1>1. kernel \in KernelType
  BY DEF TInv, TypeOK
<1>2. PICK s \in Entries :
         /\ kernel' = [kernel EXCEPT !.done = kernel.done \ s]
         /\ round' = [NewRound EXCEPT !.timestamp = clock, !.harvest = s,
                                      !.full = Cardinality(s) = KernelBatch]
  BY DEF UringHarvest
<1>3. CASE Cardinality(s) = KernelBatch
  BY <1>2, <1>3 DEF NewRound
<1>4. CASE s = kernel.done
  BY <1>1, <1>2, <1>4 DEF KernelType
<1> QED BY <1>2, <1>3, <1>4 DEF Entries

\* The steps of PrivScheduleDo() and of the callbacks keep the invariant.
LEMMA BackendSched ==
    ASSUME TInv, SchedInv, NEW w \in Workers, BackendStep(w)
    PROVE  SchedInv'
<1>1. thread \in [Threads -> ThreadType] /\ w \in Threads /\ round \in RoundType
  BY DEF TInv, TypeOK, Threads
<1>2. ASSUME NEW pc \in SchedPCs, thread[w].pc \in SchedPCs, thread' = Goto(w, pc),
             core' = core, scheduling' = scheduling,
             round'.harvest = {} \/ pc \in {"collect", "kernel"},
             scenario' = scenario,
             backend = "iouring" /\ pc \in AfterHarvest =>
                \/ kernel'.done = {} \/ round'.full
                \/ /\ kernel'.done = kernel.done /\ kernel'.poll = kernel.poll
                   /\ round'.full = round.full /\ thread[w].pc \in AfterHarvest
      PROVE  SchedInv'
  <2>1. pc \in PCs /\ thread[w].pc # "done"
    BY <1>2 DEF PCs, SchedPCs
  <2>2. Moves(w) /\ thread'[w].pc = pc
    BY <1>1, <1>2, <2>1, ThreadUpdates DEF Moves
  <2>3. HarvestIsTold(w)
    BY <1>2, <2>2 DEF HarvestIsTold
  <2> QED BY <1>2, <2>2, <2>3, RoundKeeps
<1>3. CASE ExpireStep(w)
  <2>1. CASE ExpireTop(w)
    <3>1. round.harvest = {} /\ thread[w].pc \in SchedPCs
      BY <2>1, FrontIsQuiet DEF ExpireTop, InWaitingLoop, AtWaiting
    <3>2. round'.harvest = round.harvest /\ round'.full = round.full
      BY <2>1, <1>1 DEF ExpireTop, RoundType
    <3>3. thread' = Goto(w, "expired") /\ core' = core /\ scheduling' = scheduling
          /\ kernel' = kernel /\ scenario' = scenario
      BY <2>1 DEF ExpireTop
    <3>4. thread[w].pc \in AfterHarvest
      BY <2>1 DEF ExpireTop, InWaitingLoop, AtWaiting, AtFront, At, AfterHarvest, SchedPCs
    <3> QED BY <3>1, <3>2, <3>3, <3>4, <1>2 DEF SchedPCs
  <2>2. ASSUME NEW to \in {"decide", "submit"}, Publish(w, to) PROVE SchedInv'
    <3>1. round.harvest = {} /\ thread[w].pc \in SchedPCs
      BY <2>2, FrontIsQuiet DEF Publish, AtWaiting
    <3>2. round'.harvest = round.harvest /\ round'.full = round.full
      BY <2>2, <1>1 DEF Publish, RoundType
    <3>3. thread' = Goto(w, to) /\ core' = core /\ scheduling' = scheduling
          /\ kernel' = kernel /\ scenario' = scenario
      BY <2>2 DEF Publish
    <3>4. thread[w].pc \in AfterHarvest
      BY <2>2 DEF Publish, AtWaiting, AtFront, At, AfterHarvest, SchedPCs
    <3> QED BY <3>1, <3>2, <3>3, <3>4, <1>2 DEF SchedPCs
  <2>3. ASSUME NEW sleep \in SchedPCs, NEW passed \in SchedPCs, Decide(w, sleep, passed)
        PROVE  SchedInv'
    <3>1. PICK to \in SchedPCs : thread' = Goto(w, to)
      <4>1. Again \in SchedPCs /\ "finish" \in SchedPCs
        BY DEF Again, SchedPCs
      <4> QED BY <2>3, <4>1, Zenon DEF Decide
    <3>2. thread[w].pc \in SchedPCs \ {"collect", "kernel"} /\ round' = round
          /\ core' = core /\ scheduling' = scheduling /\ thread[w].pc \in AfterHarvest
          /\ kernel' = kernel /\ scenario' = scenario
      BY <2>3 DEF Decide, At, SchedPCs, AfterHarvest
    <3>3. round.harvest = {}
      BY <3>2, NothingLeft
    <3> QED BY <3>1, <3>2, <3>3, <1>2
  <2> QED BY <1>3, <2>1, <2>2, <2>3 DEF ExpireStep
<1>4. CASE EventStep(w)
  <2>1. thread' = thread /\ thread[w].pc = "kernel" /\ core' = core /\ scheduling' = scheduling
        /\ scenario' = scenario
    <3>1. CASE \E t \in Tasks : EpollEvent(w, t)
      BY <3>1 DEF EpollEvent, Report, At
    <3>2. CASE \E x \in round.harvest : KqueueEvent(w, x)
      BY <3>2 DEF KqueueEvent, Report, At
    <3>3. CASE \E x \in round.harvest : UringEvent(w, x)
      BY <3>3 DEF UringEvent, At
    <3>4. CASE \E x \in round.harvest : IocpEvent(w, x)
      BY <3>4 DEF IocpEvent, At
    <3> QED BY <1>4, <3>1, <3>2, <3>3, <3>4 DEF EventStep
  <2>2. backend = "iouring" => kernel'.done = kernel.done /\ kernel'.poll = kernel.poll
                               /\ round'.full = round.full
    <3>1. kernel \in KernelType
      BY DEF TInv, TypeOK
    <3>2. ASSUME NEW x, UringEvent(w, x)
          PROVE  kernel'.done = kernel.done /\ kernel'.poll = kernel.poll /\ round'.full = round.full
      BY <1>1, <3>1, <3>2 DEF UringEvent, KernelType, RoundType
    <3> QED BY <1>4, <3>2 DEF EventStep, EpollEvent, KqueueEvent, Report, IocpEvent
  <2>3. HarvestIsTold(w)
    BY <2>1, <2>2 DEF HarvestIsTold, AfterHarvest, SchedPCs
  <2> QED BY <2>1, <2>3, RoundKeeps DEF Moves, SchedPCs
<1>5. CASE FrontStep(w)
  <2>1. NextPending(w)
    BY <1>5 DEF FrontStep, EpollFront, UringFront, IocpFront
  <2>2. round.harvest = {} /\ thread[w].pc \in SchedPCs
    BY <2>1, FrontIsQuiet DEF NextPending, InFrontLoop
  <2>3. thread' = Goto(w, "front") /\ core' = core /\ scheduling' = scheduling
        /\ round'.harvest = round.harvest /\ scenario' = scenario
    BY <2>1, NextPendingUpdates
  <2>6. round'.full = round.full
    BY <2>1, <1>1 DEF NextPending, RoundType
  <2>4. backend = "iouring" => kernel'.done = kernel.done /\ kernel'.poll = kernel.poll
    <3>1. kernel \in KernelType
      BY DEF TInv, TypeOK
    <3>2. CASE UringFront(w)
      BY <3>1, <3>2 DEF UringFront, KernelType
    <3> QED BY <1>5, <3>2 DEF FrontStep, Flagged
  <2>5. thread[w].pc \in AfterHarvest
    BY <2>1 DEF NextPending, InFrontLoop, AtFront, At, AfterHarvest, SchedPCs
  <2> QED BY <2>2, <2>3, <2>4, <2>5, <2>6, <1>2 DEF SchedPCs
<1>6. CASE HarvestStep(w)
  <2>1. thread' = Goto(w, "collect") /\ core' = core /\ scheduling' = scheduling
        /\ thread[w].pc \in {"harvest", "poll"} /\ scenario' = scenario
    BY <1>6 DEF HarvestStep, EpollHarvest, UringHarvest, IocpHarvest, At
  <2>2. backend = "iouring" => kernel'.done = {} \/ round'.full
    BY <1>6, HarvestTakesBatch DEF HarvestStep, Flagged
  <2> QED BY <2>1, <2>2, <1>2 DEF SchedPCs
<1>7. CASE PollStep(w)
  <2>1. PICK to \in SchedPCs : thread' = Goto(w, to)
    <3>1. Again \in SchedPCs /\ "decide" \in SchedPCs
      BY DEF Again, SchedPCs
    <3> QED BY <1>7, <3>1 DEF PollStep, EpollPoll, UringSubmit, UringPoll
  <2>2. thread[w].pc \in {"submit", "poll"} /\ round' = round
        /\ core' = core /\ scheduling' = scheduling /\ scenario' = scenario
    BY <1>7 DEF PollStep, EpollPoll, UringSubmit, UringPoll, At
  <2>3. round.harvest = {}
    BY <2>2, NothingLeft DEF SchedPCs
  <2>4. CASE UringSubmit(w)
    <3>1. kernel'.done = kernel.done /\ kernel'.poll = kernel.poll
      <4>1. kernel \in KernelType
        BY DEF TInv, TypeOK
      <4> QED BY <2>4, <4>1 DEF UringSubmit, KernelType
    <3>2. thread[w].pc \in AfterHarvest
      BY <2>4 DEF UringSubmit, At, AfterHarvest, SchedPCs
    <3> QED BY <2>1, <2>2, <2>3, <3>1, <3>2, <1>2 DEF SchedPCs
  <2>5. CASE thread' = Goto(w, Again)
    <3>1. Again \in SchedPCs /\ Again \notin AfterHarvest
      BY DEF Again, AfterHarvest, SchedPCs
    <3> QED BY <2>2, <2>3, <2>5, <3>1, <1>2 DEF SchedPCs
  <2> QED BY <1>7, <2>4, <2>5 DEF PollStep, EpollPoll, UringPoll
<1>8. CASE OwnerStep(w)
  BY <1>8, OwnerExecutes, WorkerSched
<1>9. CASE LastStep(w)
  BY <1>9, WorkerSched DEF LastStep
<1> QED BY <1>3, <1>4, <1>5, <1>6, <1>7, <1>8, <1>9, BackendCases

\* The kernel may complete operations at any time, and says so in the poll.
LEMMA KernelSched ==
    ASSUME TInv, SchedInv, EpollKernel \/ UringKernel \/ IocpKernel \/ UNCHANGED vars
    PROVE  SchedInv'
<1>1. thread' = thread /\ core' = core /\ scheduling' = scheduling /\ round' = round
      /\ scenario' = scenario
  BY DEF EpollKernel, UringKernel, IocpKernel, KernelWork, Arrive, Break, Complete,
         CompleteInternal, vars
<1>2. CASE backend = "iouring" /\ UringKernel
  <2>1. PICK op, as : kernel' = Completed(op, as)
    BY <1>2 DEF UringKernel, KernelWork, Complete, CompleteInternal
  <2>2. kernel'.poll
    BY <2>1 DEF Completed, TInv, TypeOK, KernelType
  <2>3. DoneIsAnnounced'
    BY <2>2 DEF DoneIsAnnounced
  <2> QED BY <1>1, <2>3 DEF SchedInv, OneScheduler, CrewWorks, HarvestIsServed
<1>3. CASE ~(backend = "iouring" /\ UringKernel)
  <2>1. backend = "iouring" => kernel' = kernel
    BY <1>3 DEF EpollKernel, UringKernel, IocpKernel, vars
  <2>2. DoneIsAnnounced'
    BY <1>1, <2>1 DEF SchedInv, DoneIsAnnounced, backend
  <2> QED BY <1>1, <2>2 DEF SchedInv, OneScheduler, CrewWorks, HarvestIsServed
<1> QED BY <1>2, <1>3

\* Every step of the core keeps the invariant of the sched-thread.
LEMMA NextSched == TInv /\ SchedInv /\ [Next]_vars => SchedInv'
<1> SUFFICES ASSUME TInv, SchedInv, [Next]_vars PROVE SchedInv'
  OBVIOUS
<1>1. CASE CommonNext
  <2>1. ASSUME NEW c \in Clients, NEW t \in Tasks, ClientCall(c, t) PROVE SchedInv'
    BY <2>1, CallSched DEF ClientCall, Threads
  <2>2. ASSUME NEW p \in Threads, ThreadStep(p) PROVE SchedInv'
    BY <2>2, PushSched DEF ThreadStep
  <2>3. ASSUME NEW w \in Workers, WorkerStep(w) PROVE SchedInv'
    <3>1. CASE PostClose(w, Of(w))
      <4>1. w \in Threads /\ Of(w) \in Tasks
        BY <3>1, ThreadsAssumption DEF PostClose, TInv, HandsAreFull, HandPCs, Threads, At, Of
      <4> QED BY <3>1, <4>1, CallSched
    <3>2. CASE ThreadStep(w)
      BY <3>2, <2>2 DEF Threads
    <3>3. CASE SignalReady(w) \/ WorkerExit(w) \/ Pop(w) \/ WaitReady(w) \/ Return(w)
               \/ Reattach(w) \/ Repost(w) \/ Release(w)
      BY <3>3, WorkerSched
    <3>4. CASE ScheduleStart(w) \/ ScheduleEnd(w) \/ Collect(w)
      BY <3>4, ElectionSched
    <3> QED BY <2>3, <3>1, <3>2, <3>3, <3>4 DEF WorkerStep
  <2>4. CASE StopStart \/ StopNext \/ Tick
    BY <2>4, ControlSched DEF StopStart, StopNext
  <2> QED BY <1>1, <2>1, <2>2, <2>3, <2>4 DEF CommonNext, Threads
<1>2. ASSUME NEW w \in Workers, BackendStep(w) PROVE SchedInv'
  BY <1>2, BackendSched
<1> QED BY <1>1, <1>2, KernelSched DEF Next

\* Before Start() nobody schedules.
LEMMA InitSched == Init => SchedInv
<1> SUFFICES ASSUME Init PROVE SchedInv
  OBVIOUS
<1>1. \A w \in Workers : thread[w].pc = "done"
  BY ThreadsAssumption DEF Init, NewThread, Idle, Threads
<1>2. core.state = "STOPPED" /\ core.crew = {} /\ round.harvest = {}
  BY DEF Init, NewRound
<1> QED BY <1>1, <1>2 DEF SchedInv, OneScheduler, CrewWorks, HarvestIsServed, DoneIsAnnounced,
              AfterHarvest, SchedPCs

\* The exchange of the flag in PrivWorkerLoop() lets one worker into
\* PrivScheduleDo() at a time, whose harvest is its own.
THEOREM SchedulesAlone == Spec => [](TInv /\ SchedInv)
<1>1. Init => TInv /\ SchedInv
  BY InitTypes, InitSched
<1>2. TInv /\ SchedInv /\ [Next]_vars => (TInv /\ SchedInv)'
  BY NextTypes, NextSched
<1> QED BY <1>1, <1>2, PTL DEF Spec

-----------------------------------------------------------------------------
(* What reaches the sched-thread in its sleep.                              *)

\* After the front queue has been taken, whoever fills it again wakes the kernel's
\* queue, and io_uring hands the wakeup over as a completion.
AfterCollect == AfterHarvest \ {"collect"}
FrontIsTold ==
    queue.front # <<>> => \/ signal.wake
                          \/ backend = "iouring" /\ SignalRead \in kernel.done
                          \/ \E p \in Threads : thread[p].pc = "signal"
FrontIsAnnounced == \A w \in Workers : thread[w].pc \in AfterCollect => FrontIsTold

\* The read of the wakeup's eventfd is always on its way.
ReadIsOnItsWay ==
    \/ SignalRead \in kernel.inside \cup kernel.done \cup round.harvest
    \/ \E i \in DOMAIN kernel.toSubmit : kernel.toSubmit[i] = SignalRead
ReadIsKept == backend = "iouring" => ReadIsOnItsWay

\* Nobody but the sched-thread fills what it has found empty.
NothingIsLeft == /\ queue.ready = <<>> /\ queue.pending = <<>>
                 /\ backend = "iouring" => kernel.toSubmit = <<>>
SleepsEmpty == \A w \in Workers : thread[w].pc = "poll" => NothingIsLeft

ReachInv == FrontIsAnnounced /\ ReadIsKept /\ SleepsEmpty

\* A thread that fills the front queue, or is done with its signal, tells of it.
FrontIsToldBy(p) ==
    \/ signal'.wake
    \/ thread'[p].pc = "signal"
    \/ /\ thread[p].pc # "signal" /\ signal'.wake = signal.wake
       /\ queue.front = <<>> => queue'.front = <<>>

\* A step outside of PrivScheduleDo().
LEMMA ReachAside ==
    ASSUME ReachInv, NEW p \in Threads, Moves(p), FrontIsToldBy(p),
           thread[p].pc \notin SchedPCs, thread'[p].pc \notin SchedPCs,
           round' = round, scenario' = scenario, backend = "iouring" => kernel' = kernel,
           queue'.pending = queue.pending, queue.ready = <<>> => queue'.ready = <<>>
    PROVE  ReachInv'
<1>1. \A w \in Workers : w \in Threads /\ (thread'[w].pc \in SchedPCs => thread'[w] = thread[w])
  BY DEF Threads, Moves
<1>2. FrontIsTold => FrontIsTold'
  <2> SUFFICES ASSUME FrontIsTold, queue'.front # <<>>, ~signal'.wake, thread'[p].pc # "signal",
                      ~(backend = "iouring" /\ SignalRead \in kernel.done)
               PROVE  \E q \in Threads : thread'[q].pc = "signal"
    BY DEF FrontIsTold, backend
  <2>1. PICK q \in Threads : thread[q].pc = "signal"
    BY DEF FrontIsTold, FrontIsToldBy
  <2> QED BY <2>1 DEF FrontIsToldBy, Moves
<1>3. FrontIsAnnounced'
  BY <1>1, <1>2 DEF ReachInv, FrontIsAnnounced, AfterCollect, AfterHarvest
<1>4. ReadIsKept'
  BY DEF ReachInv, ReadIsKept, ReadIsOnItsWay, backend
<1>5. SleepsEmpty'
  BY <1>1 DEF ReachInv, SleepsEmpty, NothingIsLeft, SchedPCs, backend
<1> QED BY <1>3, <1>4, <1>5 DEF ReachInv

\* A step of the sched-thread.
LEMMA ReachRound ==
    ASSUME SchedInv, ReachInv, NEW w \in Workers, Moves(w), thread[w].pc \in SchedPCs,
           scenario' = scenario, ReadIsKept',
           thread'[w].pc \in AfterCollect =>
              \/ queue'.front = <<>>
              \/ /\ thread[w].pc \in AfterCollect /\ queue'.front = queue.front
                 /\ signal'.wake = signal.wake
                 /\ backend = "iouring" => kernel'.done = kernel.done,
           thread'[w].pc = "poll" => NothingIsLeft'
    PROVE  ReachInv'
<1>1. \A v \in Workers : v \in Threads /\ (v # w => thread'[v] = thread[v]
                                                   /\ thread[v].pc \notin SchedPCs)
  BY DEF Threads, Moves, SchedInv, OneScheduler
<1>2. FrontIsAnnounced'
  <2> SUFFICES ASSUME thread'[w].pc \in AfterCollect PROVE FrontIsTold'
    BY <1>1 DEF FrontIsAnnounced, AfterCollect, AfterHarvest
  <2>1. CASE queue'.front = <<>>
    BY <2>1 DEF FrontIsTold
  <2>2. CASE queue'.front # <<>>
    <3>1. FrontIsTold
      BY <2>2 DEF ReachInv, FrontIsAnnounced
    <3>2. \A p \in Threads : thread[p].pc = "signal" => thread'[p].pc = "signal"
      BY DEF Moves, SchedPCs
    <3> QED BY <2>2, <3>1, <3>2 DEF FrontIsTold, backend
  <2> QED BY <2>1, <2>2
<1>3. SleepsEmpty'
  BY <1>1 DEF SleepsEmpty, SchedPCs
<1> QED BY <1>2, <1>3 DEF ReachInv

\* Posts, closes and wakeups leave the queues and the signal alone.
LEMMA CallReach ==
    ASSUME TInv, ReachInv, NEW p \in Threads, NEW t \in Tasks,
           Post(p, t) \/ PostClose(p, t) \/ PostWakeup(p, t)
    PROVE  ReachInv'
<1>1. thread \in [Threads -> ThreadType] /\ "push" \in PCs
  BY DEF TInv, TypeOK, PCs, HandPCs
<1>2. thread[p].pc \in {"idle", "callback"} /\ core' = core
      /\ round' = round /\ (thread' = thread \/ thread' = Taking(p, t, "push"))
      /\ kernel' = kernel /\ scenario' = scenario /\ queue' = queue /\ signal' = signal
  BY DEF Post, PostClose, PostWakeup, At, Taking
<1>3. thread'[p].pc \in {"idle", "callback", "push"}
      /\ \A q \in Threads : q # p => thread'[q] = thread[q]
  BY <1>1, <1>2, TakingUpdates
<1>4. FrontIsToldBy(p)
  BY <1>2 DEF FrontIsToldBy
<1> QED BY <1>2, <1>3, <1>4, ReachAside DEF Moves, SchedPCs

\* The first push into an empty front queue is followed by the wakeup.
LEMMA PushReach ==
    ASSUME TInv, ReachInv, NEW p \in Threads, NEW t \in Tasks, Pushed(p, t),
           thread[p].pc \in {"push", "callback", "attach"}, core' = core, round' = round,
           kernel' = kernel, scenario' = scenario, signal' = signal
    PROVE  ReachInv'
<1>1. thread \in [Threads -> ThreadType] /\ TypeOK /\ "signal" \in PCs
  BY DEF TInv, TypeOK, PCs, OtherPCs
<1>2. Moves(p) /\ thread'[p].pc \notin SchedPCs /\ thread[p].pc \notin SchedPCs
      /\ queue'.pending = queue.pending /\ queue'.ready = queue.ready
  BY <1>1, PushedUpdates DEF Moves, SchedPCs
<1>3. FrontIsToldBy(p)
  <2>1. CASE queue.front = <<>>
    <3>1. thread' = Goto(p, "signal")
      BY <2>1 DEF Pushed
    <3> QED BY <1>1, <3>1, ThreadUpdates DEF FrontIsToldBy
  <2>2. CASE queue.front # <<>>
    BY <2>2 DEF FrontIsToldBy
  <2> QED BY <2>1, <2>2
<1> QED BY <1>2, <1>3, ReachAside

\* The worker outside of PrivScheduleDo() pops what is ready and pushes, and wakes the
\* kernel's queue when it leaves.
LEMMA WorkerReach ==
    ASSUME TInv, ReachInv, NEW w \in Workers,
           \/ SignalReady(w) \/ WorkerExit(w) \/ Pop(w) \/ WaitReady(w) \/ Return(w)
           \/ Reattach(w) \/ Repost(w) \/ Release(w)
           \/ (\E r, k : Execute(w, r, k) /\ (backend = "iouring" => k = kernel))
           \/ \E r : LastExecute(w, r)
    PROVE  ReachInv'
<1>1. TypeOK /\ w \in Threads /\ queue \in QueueType
      /\ signal \in [ready : BOOLEAN, wake : BOOLEAN]
  BY DEF TInv, TypeOK, Threads
<1>2. Moves(w) /\ thread[w].pc \notin SchedPCs /\ thread'[w].pc \notin SchedPCs
      /\ thread[w].pc # "signal" /\ round' = round
      /\ scenario' = scenario /\ (backend = "iouring" => kernel' = kernel)
  BY WorkerMoves
<1>3. CASE Return(w) \/ Repost(w)
  <2>1. Of(w) \in Tasks /\ Pushed(w, Of(w))
    BY <1>3 DEF Return, Repost, At, Of, TInv, HandsAreFull, HandPCs, Threads
  <2>2. thread[w].pc \in {"callback", "attach"} /\ core' = core /\ kernel' = kernel
        /\ signal' = signal
    BY <1>3 DEF Return, Repost, At
  <2> QED BY <1>1, <1>2, <2>1, <2>2, PushReach
<1>4. CASE Pop(w)
  <2>1. queue'.front = queue.front /\ queue'.pending = queue.pending
        /\ (queue.ready = <<>> => queue'.ready = <<>>) /\ signal' = signal
    BY <1>1, <1>4 DEF Pop, QueueType
  <2> QED BY <1>1, <1>2, <2>1, ReachAside DEF FrontIsToldBy
<1>5. CASE ~(Return(w) \/ Repost(w) \/ Pop(w))
  <2>1. queue' = queue
    BY <1>5 DEF SignalReady, WorkerExit, WaitReady, Reattach, Release, Execute, LastExecute
  <2>2. signal'.wake \/ signal'.wake = signal.wake
    BY <1>1, <1>5 DEF SignalReady, WorkerExit, WaitReady, Reattach, Release, Execute, LastExecute
  <2> QED BY <1>1, <1>2, <2>1, <2>2, ReachAside DEF FrontIsToldBy
<1> QED BY <1>3, <1>4, <1>5

\* The push and the wakeup of the kernel's queue.
LEMMA ThreadReach ==
    ASSUME TInv, ReachInv, NEW p \in Threads, ThreadStep(p)
    PROVE  ReachInv'
<1>1. thread \in [Threads -> ThreadType] /\ signal \in [ready : BOOLEAN, wake : BOOLEAN]
  BY DEF TInv, TypeOK
<1>2. CASE Push(p)
  <2>1. Of(p) \in Tasks /\ Pushed(p, Of(p)) /\ thread[p].pc = "push"
    BY <1>2 DEF Push, At, Of, TInv, HandsAreFull, HandPCs
  <2> QED BY <1>2, <2>1, PushReach DEF Push
<1>3. CASE PlatformSignal(p)
  <2>1. thread[p].pc = "signal" /\ core' = core /\ round' = round /\ kernel' = kernel
        /\ scenario' = scenario /\ queue' = queue /\ thread' = Onwards(p)
    BY <1>3 DEF PlatformSignal, At
  <2>2. signal'.wake
    BY <1>1, <1>3 DEF PlatformSignal
  <2>3. thread'[p].pc \in {"idle", "release", "pop", "elect"} /\ Moves(p)
    BY <1>1, <2>1, OnwardsUpdates DEF Moves
  <2> QED BY <2>1, <2>2, <2>3, ReachAside DEF FrontIsToldBy, SchedPCs
<1> QED BY <1>2, <1>3 DEF ThreadStep

\* Who enters PrivScheduleDo() has not looked into the queues yet; it empties the front
\* queue when it has taken what the kernel had, and has no harvest when it leaves.
LEMMA ElectionReach ==
    ASSUME TInv, SchedInv, ReachInv, NEW w \in Workers,
           ScheduleStart(w) \/ ScheduleEnd(w) \/ Collect(w)
    PROVE  ReachInv'
<1>1. thread \in [Threads -> ThreadType] /\ w \in Threads /\ queue \in QueueType
      /\ \A v \in Workers : v \in Threads
  BY DEF TInv, TypeOK, Threads
<1>2. CASE ScheduleStart(w)
  <2>1. At(w, "elect") /\ queue' = queue /\ round' = round /\ signal' = signal
        /\ kernel' = kernel /\ scenario' = scenario
    BY <1>2, Zenon DEF ScheduleStart
  <2>2. thread' = Rest(w, "pop") \/ thread' = Rest(w, "harvest")
    BY <1>2 DEF ScheduleStart
  <2>3. thread'[w].pc \in {"pop", "harvest"} /\ \A q \in Threads : q # w => thread'[q] = thread[q]
    BY <1>1, <2>2, ThreadUpdates DEF PCs, OtherPCs, SchedPCs
  <2>4. \A p \in Threads : thread[p].pc = "signal" => thread'[p].pc = "signal"
    BY <2>1, <2>3 DEF At
  <2>5. \A v \in Workers : thread'[v].pc \in AfterCollect => thread'[v] = thread[v]
    BY <1>1, <2>3 DEF AfterCollect, AfterHarvest, SchedPCs
  <2>6. FrontIsAnnounced'
    BY <2>1, <2>4, <2>5 DEF ReachInv, FrontIsAnnounced, FrontIsTold, backend
  <2>7. SleepsEmpty'
    BY <1>1, <2>1, <2>3 DEF ReachInv, SleepsEmpty, NothingIsLeft, backend
  <2> QED BY <2>1, <2>6, <2>7 DEF ReachInv, ReadIsKept, ReadIsOnItsWay, backend
<1>3. CASE ScheduleEnd(w)
  <2>1. thread[w].pc \in {"finish", "leave"} /\ core' = core /\ round' = NewRound
        /\ kernel' = kernel /\ scenario' = scenario
    BY <1>3 DEF ScheduleEnd, At
  <2>2. thread' = Goto(w, "announce") \/ thread' = Goto(w, "abandon")
    BY <1>3 DEF ScheduleEnd
  <2>3. Moves(w) /\ thread'[w].pc \in {"announce", "abandon"}
    BY <1>1, <2>1, <2>2, ThreadUpdates DEF Moves, PCs, OtherPCs
  <2>4. round.harvest = {} /\ round'.harvest = {}
    BY <2>1, NothingLeft DEF SchedPCs, NewRound
  <2>5. ReadIsKept'
    BY <2>1, <2>4 DEF ReachInv, ReadIsKept, ReadIsOnItsWay, backend
  <2> QED BY <2>1, <2>3, <2>5, ReachRound DEF AfterCollect, AfterHarvest, SchedPCs
<1>4. CASE Collect(w)
  <2>1. thread[w].pc = "collect" /\ core' = core /\ round' = round /\ kernel' = kernel
        /\ scenario' = scenario /\ thread' = Goto(w, "kernel")
    BY <1>4 DEF Collect, At
  <2>2. Moves(w) /\ thread'[w].pc = "kernel"
    BY <1>1, <2>1, ThreadUpdates DEF Moves, PCs, SchedPCs
  <2>3. queue'.front = <<>>
    BY <1>1, <1>4 DEF Collect, QueueType
  <2>4. ReadIsKept'
    BY <2>1 DEF ReachInv, ReadIsKept, ReadIsOnItsWay, backend
  <2> QED BY <2>1, <2>2, <2>3, <2>4, ReachRound DEF SchedPCs
<1> QED BY <1>2, <1>3, <1>4

\* Start() finds no worker, and Stop() wakes the kernel's queue.
LEMMA ControlReach ==
    ASSUME TInv, SchedInv, ReachInv,
           Start(scenario.crew) \/ Stop \/ StopWorkers \/ StopJoin \/ Tick
    PROVE  ReachInv'
<1>1. queue' = queue /\ round' = round /\ kernel' = kernel /\ scenario' = scenario
  BY DEF Start, Stop, StopWorkers, StopJoin, Tick
<1>2. signal'.wake \/ signal' = signal
  BY DEF Start, Stop, StopWorkers, StopJoin, Tick
<1>3. \A w \in Workers : thread'[w].pc \in SchedPCs => thread'[w] = thread[w]
  BY DEF Start, Stop, StopWorkers, StopJoin, Tick, NewThread, SchedPCs, Threads
<1>4. \A p \in Threads : thread[p].pc = "signal" => thread'[p].pc = "signal" \/ signal'.wake
                                                    \/ Start(scenario.crew)
  BY DEF Stop, StopWorkers, StopJoin, Tick
<1>5. FrontIsAnnounced'
  <2>1. CASE Start(scenario.crew)
    <3>1. \A w \in Workers : thread[w].pc = "done"
      BY <2>1 DEF Start, SchedInv, CrewWorks
    <3> QED BY <1>3, <3>1 DEF FrontIsAnnounced, AfterCollect, AfterHarvest, SchedPCs
  <2>2. CASE ~Start(scenario.crew)
    <3>1. FrontIsTold => FrontIsTold'
      BY <1>1, <1>2, <1>4, <2>2 DEF FrontIsTold, backend
    <3> QED BY <1>3, <3>1 DEF ReachInv, FrontIsAnnounced, AfterCollect, AfterHarvest
  <2> QED BY <2>1, <2>2
<1>6. SleepsEmpty'
  BY <1>1, <1>3 DEF ReachInv, SleepsEmpty, NothingIsLeft, SchedPCs, backend
<1> QED BY <1>1, <1>5, <1>6 DEF ReachInv, ReadIsKept, ReadIsOnItsWay, backend

\* The list of what is to submit, with one more in front, or with more behind it.
LEMMA ListKeepsRead ==
    ASSUME NEW s \in Seq(Operations), NEW u \in Seq(Operations),
           \E i \in DOMAIN s : s[i] = SignalRead
    PROVE  \E i \in DOMAIN (s \o u) : (s \o u)[i] = SignalRead
<1>1. PICK i \in 1..Len(s) : s[i] = SignalRead
  OBVIOUS
<1>2. i \in DOMAIN (s \o u) /\ (s \o u)[i] = s[i]
  BY <1>1, ConcatProperties
<1> QED BY <1>1, <1>2

\* The read of the wakeup goes from the harvest back to what is to submit.
LEMMA EventKeepsRead ==
    ASSUME TInv, backend = "iouring", ReadIsOnItsWay, NEW w \in Workers,
           NEW x \in round.harvest, UringEvent(w, x)
    PROVE  ReadIsOnItsWay'
<1>1. kernel \in KernelType /\ round \in RoundType
  BY DEF TInv, TypeOK
<1>2. round'.harvest = round.harvest \ {x}
  BY <1>1 DEF UringEvent, RoundType
<1>3. CASE x # SignalRead
  <2>1. kernel' = kernel
    BY <1>3 DEF UringEvent
  <2> QED BY <1>2, <1>3, <2>1 DEF ReadIsOnItsWay
<1>4. CASE x = SignalRead
  <2>1. kernel.toSubmit \in Seq(Operations) /\ SignalRead \in Operations
        /\ <<SignalRead>> \in Seq(Operations)
    BY <1>1 DEF KernelType, Operations
  <2>2. kernel' = [kernel EXCEPT !.toSubmit = <<SignalRead>> \o kernel.toSubmit]
    BY <1>4 DEF UringEvent, SignalRead
  <2>3. kernel'.toSubmit = <<SignalRead>> \o kernel.toSubmit
    BY <1>1, <2>2 DEF KernelType
  <2>4. \E i \in DOMAIN (<<SignalRead>> \o kernel.toSubmit) :
           (<<SignalRead>> \o kernel.toSubmit)[i] = SignalRead
    <3> DEFINE one == <<SignalRead>>
    <3>1. one \in Seq(Operations) /\ \E i \in DOMAIN one : one[i] = SignalRead
      BY <2>1
    <3> HIDE DEF one
    <3>2. \E i \in DOMAIN (one \o kernel.toSubmit) : (one \o kernel.toSubmit)[i] = SignalRead
      BY <2>1, <3>1, ListKeepsRead
    <3> QED BY <3>2 DEF one
  <2> QED BY <2>3, <2>4 DEF ReadIsOnItsWay
<1> QED BY <1>3, <1>4

\* The operations of a task that comes back are put behind it.
LEMMA FrontKeepsRead ==
    ASSUME TInv, backend = "iouring", ReadIsOnItsWay, NEW w \in Workers, UringFront(w)
    PROVE  ReadIsOnItsWay'
<1>1. kernel \in KernelType /\ NextPending(w)
  BY DEF TInv, TypeOK, UringFront
<1> DEFINE t == Head(queue.pending)
           moved == kernel.toSubmit \o task[t].toSubmit
<1>2. round'.harvest = round.harvest
  BY <1>1, NextPendingUpdates
<1>3. t \in Tasks /\ task[t].toSubmit \in Seq(Operations) /\ kernel.toSubmit \in Seq(Operations)
      /\ <<t, "cancel">> \in Operations
  <2>1. t \in Tasks /\ task[t] \in TaskType
    BY <1>1, NextPendingUpdates
  <2>2. task[t].toSubmit \in Seq(Tasks \X {"io"})
    BY <2>1 DEF TaskType
  <2>3. Tasks \X {"io"} \subseteq Operations /\ <<t, "cancel">> \in Operations
    BY <2>1 DEF Operations, Kinds
  <2>4. task[t].toSubmit \in Seq(Operations)
    BY <2>2, <2>3
  <2> QED BY <1>1, <2>1, <2>3, <2>4 DEF KernelType
<1>4. PICK u \in {moved, Append(moved, <<t, "cancel">>)} : kernel' = [kernel EXCEPT !.toSubmit = u]
  BY DEF UringFront, WithCancel
<1>5. kernel'.toSubmit = u /\ kernel'.inside = kernel.inside /\ kernel'.done = kernel.done
  BY <1>1, <1>4 DEF KernelType
<1>6. ASSUME \E i \in DOMAIN kernel.toSubmit : kernel.toSubmit[i] = SignalRead
      PROVE  \E i \in DOMAIN u : u[i] = SignalRead
  <2>1. PICK i \in DOMAIN moved : moved[i] = SignalRead
    BY <1>3, <1>6, ListKeepsRead
  <2>2. moved \in Seq(Operations)
    BY <1>3, ConcatProperties
  <2> HIDE DEF moved, t
  <2>3. CASE u = moved
    BY <2>1, <2>3
  <2>4. CASE u = Append(moved, <<t, "cancel">>)
    <3>1. i \in 1..Len(moved) /\ i \in DOMAIN u /\ u[i] = moved[i]
      BY <1>3, <2>1, <2>2, <2>4, AppendProperties
    <3> QED BY <2>1, <3>1
  <2> QED BY <2>3, <2>4
<1> HIDE DEF moved, t
<1> QED BY <1>2, <1>5, <1>6 DEF ReadIsOnItsWay

\* What the ring has room for goes into the kernel, the rest stays in the list.
LEMMA SubmitKeepsRead ==
    ASSUME TInv, backend = "iouring", ReadIsOnItsWay, NEW w \in Workers, UringSubmit(w)
    PROVE  ReadIsOnItsWay'
<1>1. kernel \in KernelType /\ round' = round /\ RingSize \in Nat \ {0}
  BY BoundsAssumption DEF TInv, TypeOK, UringSubmit
<1> DEFINE s == kernel.toSubmit
           n == IF Len(s) < RingSize THEN Len(s) ELSE RingSize
<1>2. s \in Seq(Operations) /\ n \in Nat /\ n <= Len(s)
  BY <1>1 DEF KernelType
<1>3. PICK hit : kernel' = [kernel EXCEPT !.toSubmit = SubSeq(s, n + 1, Len(s)),
                     !.inside = kernel.inside \cup {s[i] : i \in 1..n},
                     !.cancelled = kernel.cancelled \cup hit]
  BY Zenon DEF UringSubmit
<1>4. kernel'.toSubmit = SubSeq(s, n + 1, Len(s)) /\ kernel'.done = kernel.done
      /\ kernel'.inside = kernel.inside \cup {s[i] : i \in 1..n}
  <2> HIDE DEF n
  <2> QED BY <1>1, <1>3 DEF KernelType
<1>5. ASSUME NEW i \in DOMAIN s, s[i] = SignalRead
      PROVE  ReadIsOnItsWay'
  <2> HIDE DEF n, s
  <2>1. CASE i <= n
    <3>1. i \in 1..n
      BY <1>2, <1>5, <2>1
    <3>2. SignalRead \in kernel'.inside
      BY <1>4, <1>5, <3>1
    <3> QED BY <3>2 DEF ReadIsOnItsWay
  <2>2. CASE ~(i <= n)
    <3>1. \A j \in (n + 1)..Len(s) : s[j] \in Operations
      BY <1>2
    <3>2. i - n \in 1..Len(SubSeq(s, n + 1, Len(s)))
          /\ SubSeq(s, n + 1, Len(s))[i - n] = s[n + 1 + (i - n) - 1]
      BY <1>2, <1>5, <2>2, <3>1, SubSeqProperties
    <3>3. SubSeq(s, n + 1, Len(s)) \in Seq(Operations)
      BY <1>2, <3>1, SubSeqProperties
    <3>4. i - n \in DOMAIN kernel'.toSubmit /\ kernel'.toSubmit[i - n] = s[i]
      BY <1>2, <1>4, <1>5, <3>2, <3>3
    <3> QED BY <1>5, <3>4 DEF ReadIsOnItsWay
  <2> QED BY <1>2, <1>5, <2>1, <2>2
<1>6. CASE SignalRead \in kernel.inside \cup kernel.done \cup round.harvest
  BY <1>1, <1>4, <1>6 DEF ReadIsOnItsWay
<1> QED BY <1>5, <1>6 DEF ReadIsOnItsWay

\* The steps of PrivScheduleDo() and of the callbacks keep the invariant.
LEMMA BackendReach ==
    ASSUME TInv, SchedInv, ReachInv, NEW w \in Workers, BackendStep(w)
    PROVE  ReachInv'
<1>1. thread \in [Threads -> ThreadType] /\ w \in Threads /\ round \in RoundType
      /\ queue \in QueueType /\ kernel \in KernelType
  BY DEF TInv, TypeOK, Threads
<1>2. ASSUME NEW pc \in SchedPCs, thread[w].pc \in SchedPCs, thread' = Goto(w, pc),
             core' = core, scenario' = scenario, ReadIsKept',
             pc \in AfterCollect =>
                /\ thread[w].pc \in AfterCollect /\ queue'.front = queue.front
                /\ signal'.wake = signal.wake
                /\ backend = "iouring" => kernel'.done = kernel.done,
             pc = "poll" => NothingIsLeft'
      PROVE  ReachInv'
  <2>1. pc \in PCs /\ thread[w].pc # "done"
    BY <1>2 DEF PCs, SchedPCs
  <2>2. Moves(w) /\ thread'[w].pc = pc
    BY <1>1, <1>2, <2>1, ThreadUpdates DEF Moves
  <2> QED BY <1>2, <2>2, ReachRound
<1>3. ASSUME kernel' = kernel, round'.harvest = round.harvest, scenario' = scenario
      PROVE  ReadIsKept'
  BY <1>3 DEF ReachInv, ReadIsKept, ReadIsOnItsWay, backend
<1>4. CASE ExpireStep(w)
  <2>1. CASE ExpireTop(w)
    <3>1. round'.harvest = round.harvest
      BY <2>1, <1>1 DEF ExpireTop, RoundType
    <3>2. thread' = Goto(w, "expired") /\ core' = core /\ signal' = signal
          /\ kernel' = kernel /\ scenario' = scenario
      BY <2>1 DEF ExpireTop
    <3>3. thread[w].pc \in AfterCollect
      BY <2>1 DEF ExpireTop, InWaitingLoop, AtWaiting, AtFront, At, AfterCollect, AfterHarvest, SchedPCs
    <3>4. queue'.front = queue.front
      BY <2>1, <1>1 DEF ExpireTop, ToReady, QueueType
    <3> QED BY <3>1, <3>2, <3>3, <3>4, <1>2, <1>3 DEF SchedPCs, AfterCollect, AfterHarvest
  <2>2. ASSUME NEW to \in {"decide", "submit"}, Publish(w, to) PROVE ReachInv'
    <3>1. round'.harvest = round.harvest
      BY <2>2, <1>1 DEF Publish, RoundType
    <3>2. thread' = Goto(w, to) /\ core' = core /\ signal' = signal
          /\ kernel' = kernel /\ scenario' = scenario
      BY <2>2 DEF Publish
    <3>3. thread[w].pc \in AfterCollect
      BY <2>2 DEF Publish, AtWaiting, AtFront, At, AfterCollect, AfterHarvest, SchedPCs
    <3>4. queue'.front = queue.front
      BY <2>2, <1>1 DEF Publish, QueueType
    <3> QED BY <3>1, <3>2, <3>3, <3>4, <1>2, <1>3 DEF SchedPCs, AfterCollect, AfterHarvest
  <2>3. ASSUME NEW sleep \in SchedPCs, NEW passed \in SchedPCs, Decide(w, sleep, passed)
        PROVE  ReachInv'
    <3>1. PICK to \in SchedPCs : thread' = Goto(w, to) /\ (to = "poll" => ~MoreToDo)
      <4>1. Again \in SchedPCs /\ "finish" \in SchedPCs /\ "finish" # "poll"
        BY DEF Again, SchedPCs
      <4>2. PICK to \in (IF MaySeeMore THEN {"finish"} ELSE {}) \cup
                          (IF MoreToDo THEN {} ELSE IF MayPoll THEN {sleep}
                           ELSE IF queue.waiting # {} THEN {passed} ELSE {Again}) :
                thread' = Goto(w, to)
        BY <2>3, Zenon DEF Decide
      <4>3. to \in SchedPCs /\ (MoreToDo => to = "finish")
        BY <4>1, <4>2, Zenon
      <4> QED BY <4>1, <4>2, <4>3
    <3>2. round' = round /\ core' = core /\ thread[w].pc \in AfterCollect /\ signal' = signal
          /\ kernel' = kernel /\ scenario' = scenario /\ queue' = queue
      BY <2>3 DEF Decide, At, SchedPCs, AfterCollect, AfterHarvest
    <3>3. to = "poll" => NothingIsLeft'
      BY <3>1, <3>2 DEF MoreToDo, NothingIsLeft
    <3> QED BY <3>1, <3>2, <3>3, <1>2, <1>3 DEF AfterCollect, AfterHarvest
  <2> QED BY <1>4, <2>1, <2>2, <2>3 DEF ExpireStep
<1>5. CASE EventStep(w)
  <2>1. thread' = thread /\ thread[w].pc = "kernel" /\ core' = core /\ signal' = signal
        /\ scenario' = scenario /\ queue'.front = queue.front
    <3>1. CASE \E t \in Tasks : EpollEvent(w, t)
      BY <1>1, <3>1 DEF EpollEvent, Report, ToReady, QueueType, At
    <3>2. CASE \E x \in round.harvest : KqueueEvent(w, x)
      BY <1>1, <3>2 DEF KqueueEvent, Report, ToReady, QueueType, At
    <3>3. CASE \E x \in round.harvest : UringEvent(w, x)
      BY <1>1, <3>3 DEF UringEvent, ToReady, QueueType, At
    <3>4. CASE \E x \in round.harvest : IocpEvent(w, x)
      BY <1>1, <3>4 DEF IocpEvent, ToReady, QueueType, At
    <3> QED BY <1>5, <3>1, <3>2, <3>3, <3>4 DEF EventStep
  <2>2. ReadIsKept' /\ (backend = "iouring" => kernel'.done = kernel.done)
    <3>1. CASE backend = "iouring"
      <4>1. PICK x \in round.harvest : UringEvent(w, x)
        BY <1>5, <3>1 DEF EventStep
      <4>2. kernel'.done = kernel.done
        BY <1>1, <4>1 DEF UringEvent, KernelType
      <4>3. ReadIsOnItsWay'
        BY <3>1, <4>1, EventKeepsRead DEF ReachInv, ReadIsKept
      <4> QED BY <4>2, <4>3 DEF ReadIsKept
    <3>2. CASE backend # "iouring"
      BY <2>1, <3>2 DEF ReadIsKept, backend
    <3> QED BY <3>1, <3>2
  <2> QED BY <1>1, <2>1, <2>2, ReachRound DEF Moves, SchedPCs, AfterCollect, AfterHarvest
<1>6. CASE FrontStep(w)
  <2>1. NextPending(w)
    BY <1>6 DEF FrontStep, EpollFront, UringFront, IocpFront
  <2>2. thread' = Goto(w, "front") /\ core' = core /\ signal' = signal
        /\ round'.harvest = round.harvest /\ scenario' = scenario
    BY <2>1, NextPendingUpdates
  <2>3. thread[w].pc \in AfterCollect
    BY <2>1 DEF NextPending, InFrontLoop, AtFront, At, AfterCollect, AfterHarvest, SchedPCs
  <2>4. queue'.front = queue.front
    <3>1. CASE EpollFront(w)
      BY <1>1, <3>1 DEF EpollFront, ToReady, ToSleep, QueueType
    <3>2. CASE UringFront(w)
      BY <1>1, <3>2 DEF UringFront, ToReady, ToSleep, QueueType
    <3>3. CASE IocpFront(w)
      BY <1>1, <3>3 DEF IocpFront, ToReady, ToSleep, QueueType
    <3> QED BY <1>6, <3>1, <3>2, <3>3 DEF FrontStep
  <2>5. ReadIsKept' /\ (backend = "iouring" => kernel'.done = kernel.done)
    <3>1. CASE backend = "iouring"
      <4>1. UringFront(w)
        BY <1>6, <3>1 DEF FrontStep, Flagged
      <4>2. kernel'.done = kernel.done
        BY <1>1, <4>1 DEF UringFront, KernelType
      <4>3. ReadIsOnItsWay'
        BY <3>1, <4>1, FrontKeepsRead DEF ReachInv, ReadIsKept
      <4> QED BY <4>2, <4>3 DEF ReadIsKept
    <3>2. CASE backend # "iouring"
      BY <2>2, <3>2 DEF ReadIsKept, backend
    <3> QED BY <3>1, <3>2
  <2> QED BY <2>2, <2>3, <2>4, <2>5, <1>2 DEF SchedPCs, AfterCollect, AfterHarvest
<1>7. CASE HarvestStep(w)
  <2>1. thread' = Goto(w, "collect") /\ core' = core
        /\ thread[w].pc \in {"harvest", "poll"} /\ scenario' = scenario
    BY <1>7 DEF HarvestStep, EpollHarvest, UringHarvest, IocpHarvest, At
  <2>2. ReadIsKept'
    <3>1. CASE backend = "iouring"
      <4>1. UringHarvest(w) /\ round.harvest = {}
        BY <1>7, <2>1, <3>1, NothingLeft DEF HarvestStep, Flagged, UringHarvest, At, SchedPCs
      <4>2. PICK h : kernel' = [kernel EXCEPT !.done = kernel.done \ h]
                     /\ round' = [NewRound EXCEPT !.timestamp = clock, !.harvest = h,
                                                  !.full = Cardinality(h) = KernelBatch]
        BY <4>1 DEF UringHarvest
      <4>3. kernel'.done = kernel.done \ h /\ round'.harvest = h
            /\ kernel'.inside = kernel.inside /\ kernel'.toSubmit = kernel.toSubmit
        BY <1>1, <4>2 DEF KernelType, NewRound
      <4> QED BY <3>1, <4>1, <4>3 DEF ReachInv, ReadIsKept, ReadIsOnItsWay
    <3>2. CASE backend # "iouring"
      BY <2>1, <3>2 DEF ReadIsKept, backend
    <3> QED BY <3>1, <3>2
  <2> QED BY <2>1, <2>2, <1>2 DEF SchedPCs, AfterCollect, AfterHarvest
<1>8. CASE PollStep(w)
  <2>1. thread[w].pc \in {"submit", "poll"} /\ round' = round
        /\ core' = core /\ scenario' = scenario /\ queue' = queue /\ signal' = signal
    BY <1>8 DEF PollStep, EpollPoll, UringSubmit, UringPoll, At
  <2>2. CASE backend = "iouring" /\ UringSubmit(w)
    <3>1. thread[w].pc = "submit" /\ thread' = Goto(w, "decide")
      BY <2>2 DEF UringSubmit, At
    <3>2. kernel'.done = kernel.done
      BY <1>1, <2>2 DEF UringSubmit, KernelType
    <3>3. ReadIsKept'
      BY <2>2, SubmitKeepsRead DEF ReachInv, ReadIsKept
    <3> QED BY <2>1, <3>1, <3>2, <3>3, <1>2 DEF SchedPCs, AfterCollect, AfterHarvest
  <2>3. CASE ~(backend = "iouring" /\ UringSubmit(w))
    <3>1. thread' = Goto(w, Again) /\ Again \in SchedPCs \ (AfterCollect \cup {"poll"})
      BY <1>8, <2>3 DEF PollStep, EpollPoll, UringPoll, Again, SchedPCs, AfterCollect, AfterHarvest
    <3>2. kernel'.done = kernel.done /\ kernel'.inside = kernel.inside
          /\ kernel'.toSubmit = kernel.toSubmit
      BY <1>1, <1>8, <2>3 DEF PollStep, EpollPoll, UringPoll, KernelType
    <3>3. ReadIsKept'
      BY <2>1, <3>2 DEF ReachInv, ReadIsKept, ReadIsOnItsWay, backend
    <3> QED BY <2>1, <3>1, <3>3, <1>2 DEF SchedPCs
  <2> QED BY <2>2, <2>3
<1>9. CASE OwnerStep(w)
  BY <1>9, OwnerExecutes, WorkerReach
<1>10. CASE LastStep(w)
  BY <1>10, WorkerReach DEF LastStep
<1> QED BY <1>4, <1>5, <1>6, <1>7, <1>8, <1>9, <1>10, BackendCases

\* The kernel takes the wakeup only to complete the read of it.
LEMMA KernelReach ==
    ASSUME TInv, ReachInv, EpollKernel \/ UringKernel \/ IocpKernel \/ UNCHANGED vars
    PROVE  ReachInv'
<1>1. thread' = thread /\ queue' = queue /\ round' = round /\ scenario' = scenario
      /\ kernel \in KernelType /\ signal \in [ready : BOOLEAN, wake : BOOLEAN]
  BY DEF EpollKernel, UringKernel, IocpKernel, KernelWork, Arrive, Break, Complete,
         CompleteInternal, vars, TInv, TypeOK
<1>2. CASE backend = "iouring" /\ UringKernel
  <2>1. PICK op, as :
           /\ op \in kernel.inside /\ kernel' = Completed(op, as)
           /\ (op = SignalRead => as = SignalRead)
           /\ signal' = signal \/ op = SignalRead
    <3>1. CASE \E op : Complete(op)
      <4>1. PICK op : Complete(op)
        BY <3>1
      <4>2. op \in kernel.inside /\ op # SignalRead /\ signal' = signal
        BY <4>1 DEF Complete, SignalRead
      <4> QED BY <4>1, <4>2 DEF Complete
    <3>2. CASE \E op : CompleteInternal(op)
      BY <3>2 DEF CompleteInternal
    <3> QED BY <1>2, <3>1, <3>2 DEF UringKernel, KernelWork
  <2>2. kernel'.inside = kernel.inside \ {op} /\ kernel'.done = kernel.done \cup {as}
        /\ kernel'.toSubmit = kernel.toSubmit
    BY <1>1, <2>1 DEF Completed, KernelType
  <2>3. ReadIsKept'
    BY <1>1, <1>2, <2>1, <2>2 DEF ReachInv, ReadIsKept, ReadIsOnItsWay
  <2>4. FrontIsTold => FrontIsTold'
    BY <1>1, <1>2, <2>1, <2>2 DEF FrontIsTold, backend
  <2>5. FrontIsAnnounced' /\ SleepsEmpty'
    BY <1>1, <2>2, <2>4 DEF ReachInv, FrontIsAnnounced, SleepsEmpty, NothingIsLeft, backend
  <2> QED BY <2>3, <2>5 DEF ReachInv
<1>3. CASE ~(backend = "iouring" /\ UringKernel)
  <2>1. backend = "iouring" => kernel' = kernel
    BY <1>3 DEF EpollKernel, UringKernel, IocpKernel, vars
  <2>2. signal' = signal
    <3>1. ASSUME NEW op, op \in kernel.inside, Complete(op) PROVE signal' = signal
      BY <3>1 DEF Complete
    <3> QED BY <1>3, <3>1 DEF EpollKernel, Arrive, Break, UringKernel, IocpKernel, vars
  <2>3. ReadIsKept' /\ SleepsEmpty' /\ (FrontIsTold => FrontIsTold')
    BY <1>1, <2>1, <2>2 DEF ReachInv, ReadIsKept, ReadIsOnItsWay, SleepsEmpty, NothingIsLeft,
       FrontIsTold, backend
  <2> QED BY <1>1, <2>3 DEF ReachInv, FrontIsAnnounced
<1> QED BY <1>2, <1>3

\* Every step of the core leaves the sched-thread within reach.
LEMMA NextReach == TInv /\ SchedInv /\ ReachInv /\ [Next]_vars => ReachInv'
<1> SUFFICES ASSUME TInv, SchedInv, ReachInv, [Next]_vars PROVE ReachInv'
  OBVIOUS
<1>1. CASE CommonNext
  <2>1. ASSUME NEW c \in Clients, NEW t \in Tasks, ClientCall(c, t) PROVE ReachInv'
    BY <2>1, CallReach DEF ClientCall, Threads
  <2>2. ASSUME NEW w \in Workers, WorkerStep(w) PROVE ReachInv'
    <3>1. CASE PostClose(w, Of(w))
      <4>1. w \in Threads /\ Of(w) \in Tasks
        BY <3>1, ThreadsAssumption DEF PostClose, TInv, HandsAreFull, HandPCs, Threads, At, Of
      <4> QED BY <3>1, <4>1, CallReach
    <3>2. CASE ThreadStep(w)
      BY <3>2, ThreadReach DEF Threads
    <3>3. CASE SignalReady(w) \/ WorkerExit(w) \/ Pop(w) \/ WaitReady(w) \/ Return(w)
               \/ Reattach(w) \/ Repost(w) \/ Release(w)
      BY <3>3, WorkerReach
    <3>4. CASE ScheduleStart(w) \/ ScheduleEnd(w) \/ Collect(w)
      BY <3>4, ElectionReach
    <3> QED BY <2>2, <3>1, <3>2, <3>3, <3>4 DEF WorkerStep
  <2>3. ASSUME NEW c \in Clients, ThreadStep(c) PROVE ReachInv'
    BY <2>3, ThreadReach DEF Threads
  <2>4. CASE StopStart \/ StopNext \/ Tick
    BY <2>4, ControlReach DEF StopStart, StopNext
  <2> QED BY <1>1, <2>1, <2>2, <2>3, <2>4 DEF CommonNext
<1>2. ASSUME NEW w \in Workers, BackendStep(w) PROVE ReachInv'
  BY <1>2, BackendReach
<1> QED BY <1>1, <1>2, KernelReach DEF Next

\* The first round of io_uring submits the read of the wakeup.
LEMMA InitReach == Init => ReachInv
<1> SUFFICES ASSUME Init PROVE ReachInv
  OBVIOUS
<1>1. \A w \in Workers : thread[w].pc = "done"
  BY ThreadsAssumption DEF Init, NewThread, Idle, Threads
<1>2. ReadIsKept
  <2> SUFFICES ASSUME backend = "iouring" PROVE ReadIsOnItsWay
    BY DEF ReadIsKept
  <2>1. kernel.toSubmit = <<SignalRead>>
    BY DEF Init, SignalRead
  <2> QED BY <2>1 DEF ReadIsOnItsWay
<1> QED BY <1>1, <1>2 DEF ReachInv, FrontIsAnnounced, SleepsEmpty, AfterCollect, AfterHarvest,
              SchedPCs

\* The sched-thread that sleeps in the kernel has left nothing to hand out or to submit,
\* and what comes next reaches it: the thread that fills the front queue, and every
\* completion but those that are left over from a full batch, for a batch and a
\* submission queue of any size (IOCore_iouring.cpp:100-514, IOTask.cpp).
THEOREM SchedulerIsReached == Spec => []SleeperIsReached
<1>1. SchedInv /\ ReachInv => SleeperIsReached
  <2> SUFFICES ASSUME SchedInv, ReachInv, NEW w \in Workers, At(w, "poll")
               PROVE  /\ queue.ready = <<>> /\ queue.pending = <<>>
                      /\ queue.front # <<>> => \/ signal.wake \/ SignalRead \in kernel.done
                                               \/ \E p \in Threads : At(p, "signal")
                      /\ backend = "iouring" =>
                            /\ kernel.toSubmit = <<>>
                            /\ SignalRead \in kernel.inside \cup kernel.done
                            /\ kernel.done = {} \/ kernel.poll \/ round.full
    BY DEF SleeperIsReached
  <2>1. thread[w].pc = "poll" /\ thread[w].pc \in AfterHarvest /\ thread[w].pc \in AfterCollect
    BY DEF At, AfterHarvest, AfterCollect, SchedPCs
  <2>2. round.harvest = {}
    BY <2>1, NothingLeft DEF SchedPCs
  <2>3. NothingIsLeft /\ FrontIsTold /\ ReadIsKept
    BY <2>1 DEF ReachInv, SleepsEmpty, FrontIsAnnounced
  <2>4. backend = "iouring" => kernel.done = {} \/ kernel.poll \/ round.full
    BY <2>1 DEF SchedInv, DoneIsAnnounced
  <2> QED BY <2>2, <2>3, <2>4 DEF NothingIsLeft, FrontIsTold, ReadIsKept, ReadIsOnItsWay, At
<1>2. Init => TInv /\ SchedInv /\ ReachInv
  BY InitTypes, InitSched, InitReach
<1>3. TInv /\ SchedInv /\ ReachInv /\ [Next]_vars => (TInv /\ SchedInv /\ ReachInv)'
  BY NextTypes, NextSched, NextReach
<1> QED BY <1>1, <1>2, <1>3, PTL DEF Spec
=============================================================================
