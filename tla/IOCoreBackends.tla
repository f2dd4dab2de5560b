--------------------------- MODULE IOCoreBackends ---------------------------
(***************************************************************************)
(* IOCore with its four backends, of which the initial state chooses one,  *)
(* what is fair, and what must hold of all of them.                        *)
(***************************************************************************)
EXTENDS IOCoreKqueue, IOCoreIocp

BackendStep(w) == EpollStep(w) \/ KqueueStep(w) \/ UringStep(w) \/ IocpStep(w)

Next ==
    \/ CommonNext \/ EpollKernel \/ UringKernel \/ IocpKernel
    \/ \E w \in Workers : BackendStep(w)

Spec == Init /\ [][Next]_vars

\* The threads run; a client ends the call it is in; Stop() ends; the kernel
\* finishes what was cancelled; the time passes.  Neither the clients nor the
\* peers need to do anything.  A callback returns; it need not close.
Fairness ==
    /\ \A w \in Workers : WF_vars((WorkerStep(w) \/ BackendStep(w)) /\ ~At(w, "callback"))
    /\ \A w \in Workers : WF_vars(Return(w))
    /\ \A c \in Clients : WF_vars(ThreadStep(c))
    /\ WF_vars(StopNext) /\ WF_vars(Tick)
    /\ WF_vars((UringKernel \/ IocpKernel) /\ KernelWork)

FairSpec == Spec /\ Fairness

-----------------------------------------------------------------------------
Copies(t, s) == Cardinality({i \in DOMAIN s : s[i] = t})
InQueues(t) == Copies(t, queue.front) + Copies(t, queue.pending)
               + Copies(t, queue.list) + Copies(t, queue.ready)
\* The tasks that p is working on.
InHands(t) == {p \in Threads : /\ Of(p) = t
                  /\ thread[p].pc \in {"push", "execute", "callback", "closed", "attach"}}
Flagged == backend \in {"epoll", "kqueue"}
Harvested(t) == {x[2] : x \in {y \in round.harvest : y[1] = t}}

\* A task is in one queue or in one thread's hands: a worker's, or those of the
\* one who has changed its status from WAITING and is about to push it.
\* (IOCore_epoll.cpp:286: "the waker thread will push the task to the front
\* queue, can't touch it now".)
OneOwner ==
    \A t \in Tasks :
       /\ InQueues(t) + Cardinality(InHands(t)) <= 1
       /\ task[t].status = "WAITING" => InQueues(t) = 0 /\ InHands(t) = {}

\* The assertions of IOTask.cpp: the first PostClose() of a task finds it open,
\* the last execution finds it closed with nothing left, whatever is registered
\* in the kernel is new there.
TaskAssertions ==
    /\ \A t \in Tasks : task[t].status \in {"CLOSING", "CLOSED"} => task[t].guard
    /\ \A w \in Workers : At(w, "execute") =>
          LET r == task[Of(w)] IN
          /\ r.inQueues /\ r.sub /\ r.status # "PENDING"
          /\ r.isClosed <=> r.status = "CLOSED"
          /\ r.isClosed => r.pending = {} /\ r.toSubmit = <<>>
                           /\ (~Flagged => r.operations = Cardinality(r.ready))
    /\ \A p \in Threads : At(p, "push") => task[Of(p)].inQueues
    /\ \A w \in Workers : At(w, "callback") => ~task[Of(w)].inQueues
    /\ \A w \in Workers : At(w, "attach") =>
          task[Of(w)].pending = {} /\ task[Of(w)].ready = {}

\* The assertions of PrivScheduleDo(): a CLOSED task is never met again, a task
\* of the front queue is not asleep and, without flags, has taken all of its
\* events, and one that sleeps with a deadline is nowhere else.
ScheduleAssertions ==
    /\ \A t \in Tasks : Copies(t, queue.front) + Copies(t, queue.pending) > 0 =>
          /\ task[t].status \notin {"WAITING", "CLOSED"}
          /\ ~Flagged => task[t].ready = {} /\ "cancel" \notin task[t].locked
    /\ \A t \in Tasks : Copies(t, queue.list) + Copies(t, queue.ready) > 0 =>
          t \notin queue.waiting
    /\ \A t \in queue.waiting :
          /\ task[t].status \notin {"PENDING", "CLOSED"} /\ task[t].deadline # Infinite
          /\ task[t].status = "WAITING" => task[t].pending = {}
    /\ \A t \in Tasks : Flagged /\ Harvested(t) # {} => task[t].status # "CLOSED"

AssertionsHold == TaskAssertions /\ ScheduleAssertions

\* A task that is closed, and may be deleted by its owner, has nothing left in
\* the kernel, among what was collected from it or among what is to submit.
\* (IOTask.h: "Doing so without waiting for all the events to complete would
\* result into getting them anyway after the task is already deleted.")
KernelForgetsClosed ==
    \A t \in Tasks :
       ~task[t].sub /\ task[t].isClosed =>
          /\ t \notin queue.waiting
          /\ Harvested(t) = {} /\ kernel.reported[t] = {}
          /\ \A op \in kernel.inside \cup kernel.done \cup kernel.cancelled : op[1] # t
          /\ \A i \in DOMAIN kernel.toSubmit : kernel.toSubmit[i][1] # t

\* A task that waits for its socket, with something there for it, is going to
\* be told: the flag is in the kernel or on its way.  (IOTask.h: "if an event is
\* not consumed, it won't trigger the socket again".)
NoEdgeLost ==
    \A t \in kernel.data :
       /\ Flagged /\ Flag(t) \in task[t].locked
       /\ task[t].status \notin {"CLOSING", "CLOSED"}
       => Flag(t) \in kernel.reported[t] \cup Harvested(t) \cup task[t].pending
                      \cup task[t].ready

\* Without flags, every operation of a task is somewhere and is counted.  (The
\* count decides when a closed task may go.)
OperationsAreCounted ==
    \A t \in Tasks :
       ~Flagged =>
         /\ task[t].operations =
              Len(task[t].toSubmit)
              + Cardinality({i \in DOMAIN kernel.toSubmit : kernel.toSubmit[i][1] = t})
              + Cardinality({op \in kernel.inside \cup kernel.done \cup round.harvest : op[1] = t})
              + Cardinality(task[t].pending \cup task[t].ready)
         /\ task[t].operations = Cardinality(task[t].locked)
            \/ (task[t].isClosed /\ task[t].operations = 0)

\* WaitEmpty() may trust its count: with none, the core holds no task, and only
\* clients that have counted one are about to push.
CountCoversTasks ==
    /\ count >= Cardinality({t \in Tasks : task[t].sub})
    /\ count = 0 => /\ \A t \in Tasks : InQueues(t) = 0 /\ InHands(t) = {}
                    /\ queue.waiting = {}

-----------------------------------------------------------------------------
\* A worker is in the callback of t.
InCall(t) == \E w \in Workers : At(w, "callback") /\ Of(w) = t

Phase(t) ==
    IF InCall(t) THEN "called"
    ELSE IF task[t].sub THEN "posted"
    ELSE IF task[t].isClosed THEN "over" ELSE "new"

Owner == INSTANCE IOTaskSpec WITH
    phase <- [t \in Tasks |-> Phase(t)],
    woken <- [t \in Tasks |-> task[t].status = "READY"],
    closing <- [t \in Tasks |-> task[t].guard],
    running <- core.state = "RUNNING"

\* Every backend keeps the promise to the owner of a task, in every race of the
\* wakeups, the closes, the events and the deadlines.
ImplementsIOTask == Owner!Spec

\* Stop() returns: its two signals go from worker to worker like a domino.
StopReturns == (core.state = "JOIN") ~> (core.state = "STOPPED")

\* A task is called as expired only when its deadline has passed.  (IOTask.h:
\* "Check if the task was woken up on a deadline".)
ExpiredIsTruthful ==
    \A w \in Workers : At(w, "execute") /\ task[Of(w)].isExpired =>
        clock >= task[Of(w)].deadline

\* A task whose deadline has passed in its sleep is woken up, and no other one is
\* told that it has expired.
DeadlineIsServed ==
    /\ [] ExpiredIsTruthful
    /\ \A t \in Tasks :
          (task[t].status = "WAITING" /\ clock >= task[t].deadline)
             ~> (task[t].status # "WAITING" \/ core.state # "RUNNING")

\* What has come for a task in its sleep wakes it up.
DataIsServed ==
    \A t \in Tasks :
       (task[t].status = "WAITING" /\ kernel.reported[t] # {})
          ~> (task[t].status # "WAITING" \/ core.state # "RUNNING")

\* The scheduler that sleeps in the kernel has left nothing to be handed out or
\* submitted, and is reached by what comes next: who fills the front queue wakes the
\* kernel's queue, where io_uring reads the wakeup, and completions are announced,
\* but for those that are left over from a full batch.
SleeperIsReached ==
    \A w \in Workers : At(w, "poll") =>
        /\ queue.ready = <<>> /\ queue.pending = <<>>
        /\ queue.front # <<>> => \/ signal.wake \/ SignalRead \in kernel.done
                                 \/ \E p \in Threads : At(p, "signal")
        /\ backend = "iouring" =>
              /\ kernel.toSubmit = <<>>
              /\ SignalRead \in kernel.inside \cup kernel.done
              /\ kernel.done = {} \/ kernel.poll \/ round.full

\* "No work to do anywhere": it sleeps in poll() only when the kernel has completed
\* nothing, or has announced it (IOCore_iouring.cpp:469-482).  False of what is left
\* over from a full batch.
SleepsOnlyWithoutWork ==
    \A w \in Workers : At(w, "poll") /\ backend = "iouring" =>
        kernel.done = {} \/ kernel.poll
=============================================================================
