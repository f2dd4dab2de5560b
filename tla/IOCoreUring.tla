----------------------------- MODULE IOCoreUring -----------------------------
(***************************************************************************)
(* The io_uring backend: IOCore_iouring.cpp and IOTask_iouring.cpp.  A     *)
(* task leaves its operations in a list of its own, the sched-thread moves *)
(* them to the core's list when the task comes back, submits as many as    *)
(* the ring has room for, and collects the completions.  A task may only   *)
(* be closed when none of its operations is left in the kernel: the sched- *)
(* thread sends a cancel for the socket first.                             *)
(*                                                                         *)
(* An operation is a pair of its task and "io" or "cancel"; one that has   *)
(* failed becomes "fail".  <<NoTask, "signal">> reads the wakeup.          *)
(***************************************************************************)
EXTENDS IOCore

SignalRead == <<NoTask, "signal">>

-----------------------------------------------------------------------------
(* The kernel.                                                              *)

Completed(op, as) == [kernel EXCEPT !.inside = @ \ {op}, !.cancelled = @ \ {op},
                                    !.done = @ \cup {as}, !.poll = TRUE]

\* Data comes or goes; a cancelled operation fails, or ends well after all.
Complete(op) ==
    /\ op \in kernel.inside /\ op[2] = "io"
    /\ \/ kernel' = Completed(op, op)
       \/ /\ op \in kernel.cancelled \/ scenario.breaks
          /\ kernel' = Completed(op, <<op[1], "fail">>)
    /\ UNCHANGED <<scenario, task, count, queue, scheduling, round, signal, core,
                   clock, thread>>

\* The kernel's own work: cancels, and the read of the wakeup's eventfd.
CompleteInternal(op) ==
    /\ op \in kernel.inside /\ (op[2] = "cancel" \/ (op = SignalRead /\ signal.wake))
    /\ kernel' = Completed(op, op)
    /\ signal' = IF op = SignalRead THEN [signal EXCEPT !.wake = FALSE] ELSE signal
    /\ UNCHANGED <<scenario, task, count, queue, scheduling, round, core, clock, thread>>

\* What the kernel must do by itself.
KernelWork ==
    \/ \E op \in kernel.cancelled : Complete(op)
    \/ \E op \in kernel.inside : CompleteInternal(op)

-----------------------------------------------------------------------------
(* PrivScheduleDo().                                                        *)

\* At most KernelBatch entries of the completion queue, a full batch of them if there
\* are as many: the rest is for a later round, which nothing announces.
Entries == {s \in SUBSET kernel.done :
               \/ Cardinality(s) = KernelBatch
               \/ s = kernel.done /\ Cardinality(s) < KernelBatch}

UringHarvest(w) ==
    /\ At(w, "harvest")
    /\ \E s \in Entries :
          /\ round' = [NewRound EXCEPT !.timestamp = clock, !.harvest = s,
                                       !.full = Cardinality(s) = KernelBatch]
          /\ kernel' = [kernel EXCEPT !.done = @ \ s]
    /\ thread' = Goto(w, "collect")
    /\ UNCHANGED <<scenario, task, count, queue, scheduling, signal, core, clock>>

\* A task with its finished operations as the ready ones.
WithEvents(r, e, expired) == [r EXCEPT !.ready = e, !.pending = {}, !.isExpired = expired]
Closed(r) == [r EXCEPT !.status = "CLOSED", !.isClosed = TRUE, !.socket = FALSE]

\* A mutant: the task is closed when the cancel is over, whatever it has left.
UringAllOverSoon(r, e) == "cancel" \in e

\* All that the task had in the kernel has come back.
UringAllOver(r, e) == r.operations = Cardinality(e)

UringEvent(w, x) ==
    LET t == x[1]
        r == task[t]
        e == r.pending \cup {x[2]}
    IN  /\ At(w, "kernel") /\ x \in round.harvest
        /\ round' = [round EXCEPT !.harvest = @ \ {x}]
        /\ \/ /\ x = SignalRead
              /\ kernel' = [kernel EXCEPT !.toSubmit = <<SignalRead>> \o @]
              /\ UNCHANGED <<task, queue>>
           \/ /\ t # NoTask /\ r.status = "WAITING"
              /\ ToReady(t, WithEvents([r EXCEPT !.status = "READY"], e, IsExpired(t)),
                         queue.pending)
              /\ kernel' = kernel
           \/ /\ t # NoTask /\ r.status = "CLOSING" /\ "cancel" \in r.locked
              /\ UringAllOver(r, e)
              /\ ToReady(t, WithEvents(Closed(r), e, IsExpired(t)), queue.pending)
              /\ kernel' = kernel
           \/ /\ t # NoTask
              /\ \/ r.status \in {"PENDING", "READY"}
                 \/ /\ r.status = "CLOSING"
                    /\ ~("cancel" \in r.locked /\ UringAllOver(r, e))
              /\ task' = [task EXCEPT ![t].pending = e]
              /\ UNCHANGED <<queue, kernel>>
        /\ UNCHANGED <<scenario, count, scheduling, signal, core, clock, thread>>

WithCancel(ops, t) == Append(ops, <<t, "cancel">>)

\* A task of the front queue: its new operations go to the core in any case.  A
\* closing one is done with at once, or stays with the sched-thread and cancels
\* what it has in the kernel.
UringFront(w) ==
    LET t == Head(queue.pending)
        r == [task[t] EXCEPT !.toSubmit = <<>>]
        moved == kernel.toSubmit \o task[t].toSubmit
        over == UringAllOver(r, r.pending)
    IN  /\ NextPending(w)
        /\ \/ /\ ~Sleeps(t) /\ r.status # "CLOSING"
              /\ ToReady(t, WithEvents([r EXCEPT !.status = Awake(@)], r.pending,
                                       IsExpired(t)), Tail(queue.pending))
              /\ kernel' = [kernel EXCEPT !.toSubmit = moved]
           \/ /\ r.status = "CLOSING" /\ over
              /\ ToReady(t, WithEvents(Closed(r), r.pending, IsExpired(t)),
                         Tail(queue.pending))
              /\ kernel' = [kernel EXCEPT !.toSubmit = moved]
           \/ /\ r.status = "CLOSING" /\ ~over
              /\ task' = [task EXCEPT ![t] = [r EXCEPT !.locked = @ \cup {"cancel"},
                                                       !.operations = @ + 1]]
              /\ kernel' = [kernel EXCEPT !.toSubmit = WithCancel(moved, t)]
              /\ queue' = [queue EXCEPT !.pending = Tail(@), !.waiting = @ \ {t}]
           \/ ToSleep(t, r) /\ kernel' = [kernel EXCEPT !.toSubmit = moved]

UringExpired(w) == ExpireTop(w)

UringPublish(w) == Publish(w, IF kernel.toSubmit = <<>> THEN "decide" ELSE "submit")

\* As many as the submission queue takes.  A cancel is for what is in the
\* kernel when it comes.
UringSubmit(w) ==
    LET n == IF Len(kernel.toSubmit) < RingSize THEN Len(kernel.toSubmit) ELSE RingSize
        now == {kernel.toSubmit[i] : i \in 1..n}
        seen(i) == kernel.inside \cup {kernel.toSubmit[j] : j \in 1..(i - 1)}
        hit == UNION {{op \in seen(i) : op = <<kernel.toSubmit[i][1], "io">>} :
                         i \in {j \in 1..n : kernel.toSubmit[j][2] = "cancel"}}
    IN  /\ At(w, "submit")
        /\ kernel' = [kernel EXCEPT
                         !.toSubmit = SubSeq(@, n + 1, Len(@)),
                         !.inside = @ \cup now, !.cancelled = @ \cup hit]
        /\ thread' = Goto(w, "decide")
        /\ UNCHANGED <<scenario, task, count, queue, scheduling, round, signal, core, clock>>

UringDecide(w) == Decide(w, "poll", Again)

\* poll() of the ring's eventfd, which is read when it has been signaled.
UringPoll(w) ==
    /\ At(w, "poll")
    /\ kernel.poll \/ DeadlineIsNear(clock)
    /\ kernel' = [kernel EXCEPT !.poll = FALSE]
    /\ thread' = Goto(w, Again)
    /\ UNCHANGED <<scenario, task, count, queue, scheduling, round, signal, core, clock>>

-----------------------------------------------------------------------------
(* The task in a worker's hands.                                            *)

\* OperationStart() and the list of the task.
UringStart(t, r) == [r EXCEPT !.operations = @ + 1, !.locked = @ \cup {"io"},
                              !.toSubmit = Append(@, <<t, "io">>)]

UringSend(t, r) == UringStart(t, r)
UringRecv(t, r) == UringStart(t, r)
UringConnectStart(t, r) == UringStart(t, [r EXCEPT !.socket = TRUE])

\* An accepted peer is returned first, the next Accept() starts anew; after a
\* non-critical error it is tried again too.
UringAccept(t, r, got) ==
    IF got = {} THEN UringStart(t, r) ELSE [r EXCEPT !.deadline = 0]

UringTransfer(t, r, got) ==
    CASE Side(t) = "send" /\ ~r.socket -> UringConnectStart(t, r)
      [] Side(t) = "send" /\ r.socket  -> UringSend(t, r)
      [] Side(t) = "recv"              -> UringRecv(t, r)
      [] OTHER                         -> UringAccept(t, r, got)

\* A mutant: what has come back is still counted.
UringDumpKept(r) == [r EXCEPT !.ready = {}]

\* PrivDumpReadyEvents().
UringDump(r) == [r EXCEPT !.operations = @ - Cardinality(r.ready), !.ready = {}]

\* ProcessArgs() unlocks what has come back.
UringProcessArgs(r, got) == [r EXCEPT !.locked = IF got # {} THEN @ \ {"io"} ELSE @]

\* PrivCloseEnd().
UringCloseEnd(r) == [UringDump(r) EXCEPT !.locked = {}]

UringCallback(w) ==
    LET t == Of(w)
        got == task[t].ready
        r == UringProcessArgs(UringDump(Started(t)), got)
        later == {[r EXCEPT !.deadline = d] : d \in scenario.deadlines \cup {Infinite}}
    IN  \/ "fail" \in got /\ Execute(w, Closing(r), kernel)
        \/ /\ "fail" \in got => Side(t) = "accept"
           /\ \E x \in later :
                 Execute(w, IF Side(t) = "timer" \/ "io" \in r.locked THEN x
                            ELSE UringTransfer(t, x, got), kernel)

UringSchedule(w) ==
    \/ UringHarvest(w) \/ (\E x \in round.harvest : UringEvent(w, x))
    \/ UringFront(w) \/ UringExpired(w) \/ UringPublish(w)
    \/ UringSubmit(w) \/ UringDecide(w) \/ UringPoll(w)

UringStep(w) ==
    /\ backend = "iouring"
    /\ \/ UringSchedule(w)
       \/ At(w, "execute") /\ (UringCallback(w) \/ LastExecute(w, UringCloseEnd(task[Of(w)])))

UringKernel == backend = "iouring" /\ (KernelWork \/ \E op \in kernel.inside : Complete(op))
=============================================================================
