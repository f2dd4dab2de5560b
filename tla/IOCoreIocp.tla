----------------------------- MODULE IOCoreIocp -----------------------------
(***************************************************************************)
(* The backend of the Windows completion ports: IOCore_IOCP.cpp and        *)
(* IOTask_IOCP.cpp.  A worker starts its operations in the kernel itself;  *)
(* the sched-thread takes the completions and sleeps in the same call.     *)
(* The socket is closed at once, which ends what it has in the kernel, but *)
(* the task stays with the sched-thread until all of that has come back.   *)
(***************************************************************************)
EXTENDS IOCoreUring

\* A mutant: the wait has no timeout.
IocpHarvestEndless(w) ==
    /\ \/ At(w, "harvest")
       \/ At(w, "poll") /\ (signal.wake \/ kernel.done # {})
    /\ \E s \in Entries :
          /\ round' = [NewRound EXCEPT !.timestamp = clock, !.harvest = s,
                                       !.didWait = At(w, "poll")]
          /\ kernel' = [kernel EXCEPT !.done = @ \ s]
    /\ signal' = [signal EXCEPT !.wake = FALSE]
    /\ thread' = Goto(w, "collect")
    /\ UNCHANGED <<scenario, task, count, queue, scheduling, core, clock>>

\* GetQueuedCompletionStatusEx(): at once, or when there is something to take
\* or the next deadline has passed.  PrivPlatformSignal() has posted a packet.
IocpHarvest(w) ==
    /\ \/ At(w, "harvest")
       \/ At(w, "poll") /\ (signal.wake \/ kernel.done # {} \/ DeadlineIsNear(clock))
    /\ \E s \in Entries :
          /\ round' = [NewRound EXCEPT !.timestamp = clock, !.harvest = s,
                                       !.didWait = At(w, "poll")]
          /\ kernel' = [kernel EXCEPT !.done = @ \ s]
    /\ signal' = [signal EXCEPT !.wake = FALSE]
    /\ thread' = Goto(w, "collect")
    /\ UNCHANGED <<scenario, task, count, queue, scheduling, core, clock>>

\* A completion; the last one of a closed task sends it to its last execution.
IocpEvent(w, x) ==
    LET t == x[1]
        r == task[t]
        e == r.pending \cup {x[2]}
        next == IF r.status = "WAITING" THEN "READY" ELSE r.status
    IN  /\ At(w, "kernel") /\ x \in round.harvest
        /\ round' = [round EXCEPT !.harvest = @ \ {x}]
        /\ IF r.status = "WAITING" \/ (r.status = "CLOSED" /\ UringAllOver(r, e))
           THEN ToReady(t, WithEvents([r EXCEPT !.status = next], e, IsExpired(t)),
                        queue.pending)
           ELSE task' = [task EXCEPT ![t].pending = e] /\ queue' = queue
        /\ UNCHANGED <<scenario, count, scheduling, signal, kernel, core, clock, thread>>

\* The close of the socket makes its operations fail.
SocketClosed(t) == [kernel EXCEPT !.cancelled = @ \cup {op \in kernel.inside : op[1] = t}]

IocpFront(w) ==
    LET t == Head(queue.pending)
        r == task[t]
        over == UringAllOver(r, r.pending)
    IN  /\ NextPending(w)
        /\ \/ /\ ~Sleeps(t) /\ r.status # "CLOSING"
              /\ ToReady(t, WithEvents([r EXCEPT !.status = Awake(@)], r.pending,
                                       IsExpired(t)), Tail(queue.pending))
              /\ kernel' = kernel
           \/ /\ r.status = "CLOSING" /\ over
              /\ ToReady(t, WithEvents(Closed(r), r.pending, IsExpired(t)),
                         Tail(queue.pending))
              /\ kernel' = SocketClosed(t)
           \/ /\ r.status = "CLOSING" /\ ~over
              /\ task' = [task EXCEPT ![t] = Closed(r)]
              /\ queue' = [queue EXCEPT !.pending = Tail(@), !.waiting = @ \ {t}]
              /\ kernel' = SocketClosed(t)
           \/ ToSleep(t, r) /\ kernel' = kernel

IocpExpired(w) == ExpireTop(w)

IocpPublish(w) == Publish(w, "decide")

\* The wait is done at most once; a deadline that has passed meanwhile is
\* served without a look at the stop request.
IocpDecide(w) ==
    IF round.didWait THEN Decide(w, Again, Again) ELSE Decide(w, "poll", "harvest")

-----------------------------------------------------------------------------
(* The task in a worker's hands.                                            *)

\* The operation is in the kernel when the call returns, or has failed at once.
IocpStart(t, r, k) ==
    {<<[r EXCEPT !.operations = @ + 1, !.locked = @ \cup {"io"}],
       [k EXCEPT !.inside = @ \cup {<<t, "io">>}]>>} \cup
    (IF scenario.breaks THEN {<<Closing(r), k>>} ELSE {})

IocpSend(t, r, k) == IocpStart(t, r, k)
IocpRecv(t, r, k) == IocpStart(t, r, k)
IocpConnectStart(t, r, k) == IocpStart(t, [r EXCEPT !.socket = TRUE], k)

\* Accepts are retried as long as they succeed, or fail for no critical reason.
IocpAccept(t, r, k, got) ==
    IF got = {} THEN IocpStart(t, r, k) ELSE {<<[r EXCEPT !.deadline = 0], k>>}

IocpTransfer(t, r, k, got) ==
    CASE Side(t) = "send" /\ ~r.socket -> IocpConnectStart(t, r, k)
      [] Side(t) = "send" /\ r.socket  -> IocpSend(t, r, k)
      [] Side(t) = "recv"              -> IocpRecv(t, r, k)
      [] OTHER                         -> IocpAccept(t, r, k, got)

IocpDump(r) == UringDump(r)

IocpProcessArgs(r, got) == UringProcessArgs(r, got)

IocpCloseEnd(r) == [IocpDump(r) EXCEPT !.locked = {}]

IocpCallback(w) ==
    LET t == Of(w)
        got == task[t].ready
        r == IocpProcessArgs(IocpDump(Started(t)), got)
        later == {[r EXCEPT !.deadline = d] : d \in scenario.deadlines \cup {Infinite}}
    IN  \/ "fail" \in got /\ Execute(w, Closing(r), kernel)
        \/ /\ "fail" \in got => Side(t) = "accept"
           /\ \E x \in later :
                 IF Side(t) = "timer" \/ "io" \in r.locked THEN Execute(w, x, kernel)
                 ELSE \E y \in IocpTransfer(t, x, kernel, got) : Execute(w, y[1], y[2])

IocpSchedule(w) ==
    \/ IocpHarvest(w) \/ (\E x \in round.harvest : IocpEvent(w, x))
    \/ IocpFront(w) \/ IocpExpired(w) \/ IocpPublish(w) \/ IocpDecide(w)

IocpStep(w) ==
    /\ backend = "iocp"
    /\ \/ IocpSchedule(w)
       \/ At(w, "execute") /\ (IocpCallback(w) \/ LastExecute(w, IocpCloseEnd(task[Of(w)])))

IocpKernel == backend = "iocp" /\ \E op \in kernel.inside : Complete(op)
=============================================================================
