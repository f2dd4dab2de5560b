---------------------------- MODULE IOCoreEpoll ----------------------------
(***************************************************************************)
(* The epoll backend: src/mg/aio/IOCore_epoll.cpp and IOTask_epoll.cpp.    *)
(* The kernel reports a change of a socket once (EPOLLET), as flags.  The  *)
(* sched-thread merges them into myPendingEvents wherever the task is, and *)
(* gives them to the task as myReadyEvents when the task passes by.  A     *)
(* worker that has not consumed what it was told saves the flag back.      *)
(***************************************************************************)
EXTENDS IOCore

Reported(t) == kernel.reported[t]

\* The kernel: a peer sends or receives, or the connection fails.
Arrive(t) ==
    /\ task[t].socket
    /\ t \notin kernel.data \/ Flag(t) \notin Reported(t)
    /\ kernel' = [kernel EXCEPT !.data = @ \cup {t}, !.reported[t] = @ \cup {Flag(t)}]
    /\ UNCHANGED <<scenario, task, count, queue, scheduling, round, signal, core,
                   clock, thread>>

Break(t) ==
    /\ scenario.breaks /\ task[t].socket /\ "err" \notin Reported(t)
    /\ kernel' = [kernel EXCEPT !.data = @ \cup {t}, !.reported[t] = {Flag(t), "err"}]
    /\ UNCHANGED <<scenario, task, count, queue, scheduling, round, signal, core,
                   clock, thread>>

\* PrivKernelRegister(): the kernel tells at once what is already there.
EpollRegister(k, t, writable) ==
    IF writable THEN [k EXCEPT !.data = @ \cup {t}, !.reported[t] = {Flag(t)}] ELSE k

\* PrivKernelUnregister() and the close of the socket.
EpollUnregister(k, t) == [k EXCEPT !.reported[t] = {}, !.data = @ \ {t}]

\* What epoll_wait() with a zero timeout takes, the wakeup included.
EpollHarvest(w) ==
    /\ At(w, "harvest")
    /\ round' = [NewRound EXCEPT !.timestamp = clock,
                                 !.harvest = UNION {{t} \X Reported(t) : t \in Tasks}]
    /\ kernel' = [kernel EXCEPT !.reported = [t \in Tasks |-> {}]]
    /\ signal' = [signal EXCEPT !.wake = FALSE]
    /\ thread' = Goto(w, "collect")
    /\ UNCHANGED <<scenario, task, count, queue, scheduling, core, clock>>

\* The events of the task t are e now; a sleeping task gets them right away.
Report(w, t, e, taken) ==
    /\ At(w, "kernel")
    /\ round' = [round EXCEPT !.harvest = @ \ taken]
    /\ IF task[t].status = "WAITING"
       THEN ToReady(t, [task[t] EXCEPT !.status = "READY", !.ready = @ \cup e,
                                       !.pending = {}, !.isExpired = IsExpired(t)],
                    queue.pending)
       ELSE /\ task' = [task EXCEPT ![t].pending = e]
            /\ queue' = queue
    /\ UNCHANGED <<scenario, count, scheduling, signal, kernel, core, clock, thread>>

EpollEvent(w, t) ==
    LET taken == {x \in round.harvest : x[1] = t} IN
    /\ taken # {}
    /\ Report(w, t, task[t].pending \cup {x[2] : x \in taken}, taken)

\* A task of the front queue with something to do, with its last delivery if it
\* is closing, or without anything to do.
EpollFront(w) ==
    /\ NextPending(w)
    /\ LET t == Head(queue.pending)
           closing == task[t].status = "CLOSING"
       IN  \/ /\ ~Sleeps(t) /\ ~closing
              /\ ToReady(t, [task[t] EXCEPT !.status = Awake(@),
                                            !.ready = @ \cup task[t].pending,
                                            !.pending = {}, !.isExpired = IsExpired(t)],
                         Tail(queue.pending))
              /\ kernel' = kernel
           \/ /\ closing
              /\ ToReady(t, [task[t] EXCEPT !.status = "CLOSED", !.isClosed = TRUE,
                                            !.socket = FALSE, !.ready = {}, !.pending = {},
                                            !.isExpired = IsExpired(t)],
                         Tail(queue.pending))
              /\ kernel' = EpollUnregister(kernel, t)
           \/ ToSleep(t, task[t]) /\ kernel' = kernel

EpollExpired(w) == ExpireTop(w)

EpollPublish(w) == Publish(w, "decide")

EpollDecide(w) == Decide(w, "poll", Again)

\* A mutant: only the wakeup ends the sleep.
EpollPollDeaf(w) ==
    /\ At(w, "poll")
    /\ signal.wake \/ DeadlineIsNear(clock)
    /\ thread' = Goto(w, Again)
    /\ UNCHANGED <<scenario, task, count, queue, scheduling, round, signal, kernel,
                   core, clock>>

\* poll() of the epoll descriptor, which takes nothing from it.
EpollPoll(w) ==
    /\ At(w, "poll")
    /\ signal.wake \/ (\E t \in Tasks : Reported(t) # {}) \/ DeadlineIsNear(clock)
    /\ thread' = Goto(w, Again)
    /\ UNCHANGED <<scenario, task, count, queue, scheduling, round, signal, kernel,
                   core, clock>>

-----------------------------------------------------------------------------
(* The task in a worker's hands.                                            *)

\* PrivDumpReadyEvents() and ProcessArgs(): what was waited for and has been
\* reported is unlocked.
EpollProcessArgs(r) == [r EXCEPT !.locked = @ \ r.ready, !.ready = {}]

\* PrivCloseEnd() aborts the events that were in progress.
EpollCloseEnd(r) == [r EXCEPT !.ready = {}, !.locked = {}]

\* A transfer that succeeds saves the flag, since there may be more to come.
EpollSend(r, possible) == IF possible THEN [r EXCEPT !.ready = @ \cup {"out"}]
                                      ELSE [r EXCEPT !.locked = @ \cup {"out"}]

EpollRecv(r, possible) == IF possible THEN [r EXCEPT !.ready = @ \cup {"in"}]
                                      ELSE [r EXCEPT !.locked = @ \cup {"in"}]

EpollAccept(r, possible) == IF possible THEN r ELSE [r EXCEPT !.locked = @ \cup {"in"}]

EpollConnectStart(r, done) ==
    [r EXCEPT !.socket = TRUE, !.locked = IF done THEN @ ELSE @ \cup {"out"}]

EpollTransfer(t, r, possible) ==
    CASE Side(t) = "send"   -> EpollSend(r, possible)
      [] Side(t) = "recv"   -> EpollRecv(r, possible)
      [] OTHER              -> EpollAccept(r, possible)

\* OnEvent().  The owner comes again for more when it has got something
\* (Reschedule()); it waits for the kernel, or for a deadline.
EpollOwner(t, r) ==
    LET has == t \in kernel.data
        later == {[r EXCEPT !.deadline = d] : d \in scenario.deadlines \cup {Infinite}}
    IN  IF Side(t) = "timer" \/ Flag(t) \in r.locked
        THEN {<<x, kernel>> : x \in later}
        ELSE IF Side(t) = "send" /\ ~r.socket
        THEN {<<EpollConnectStart(x, FALSE), kernel>> : x \in later} \cup
             {<<EpollConnectStart([r EXCEPT !.deadline = 0], TRUE),
                EpollRegister(kernel, t, TRUE)>>}
        ELSE IF has
        THEN {<<EpollTransfer(t, [r EXCEPT !.deadline = 0], TRUE), k>> :
                 k \in {kernel, [kernel EXCEPT !.data = @ \ {t}]}}
        ELSE {<<EpollTransfer(t, x, FALSE), kernel>> : x \in later}

\* A broken socket is closed by its owner.
CallbackWith(w, processed) ==
    LET t == Of(w) IN
    IF "err" \in task[t].ready
    THEN Execute(w, Closing(Started(t)), kernel)
    ELSE \E x \in EpollOwner(t, processed) : Execute(w, x[1], x[2])

EpollCallback(w) == CallbackWith(w, EpollProcessArgs(Started(Of(w))))

EpollSchedule(w) ==
    \/ EpollHarvest(w) \/ (\E t \in Tasks : EpollEvent(w, t))
    \/ EpollFront(w) \/ EpollExpired(w)
    \/ EpollPublish(w) \/ EpollDecide(w) \/ EpollPoll(w)

EpollStep(w) ==
    /\ backend = "epoll"
    /\ \/ EpollSchedule(w)
       \/ At(w, "execute") /\ (EpollCallback(w) \/ LastExecute(w, EpollCloseEnd(task[Of(w)])))

EpollKernel == backend \in {"epoll", "kqueue"} /\ \E t \in Tasks : Arrive(t) \/ Break(t)
=============================================================================
