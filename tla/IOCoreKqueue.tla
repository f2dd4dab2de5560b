---------------------------- MODULE IOCoreKqueue ----------------------------
(***************************************************************************)
(* The kqueue backend: src/mg/aio/IOCore_kqueue.cpp and IOTask_kqueue.cpp. *)
(* It is the epoll backend but for the form of the events: the read and    *)
(* the write filter of a socket report apart, an error or an end of file   *)
(* comes with the filter that has seen it, and the end of file is reported *)
(* as something to read.                                                   *)
(***************************************************************************)
EXTENDS IOCoreEpoll

\* kevent() with a zero timeout: one entry per filter.
KqueueHarvest(w) == EpollHarvest(w)

\* A mutant: the event of the second filter replaces the first one.
KqueueEventAlone(w, x) == Report(w, x[1], {x[2]}, {x})

\* One filter's event.  The flag of an error sticks until the task is called.
KqueueEvent(w, x) == Report(w, x[1], task[x[1]].pending \cup {x[2]}, {x})

KqueueFront(w) == EpollFront(w)

KqueueExpired(w) == ExpireTop(w)

KqueuePublish(w) == Publish(w, "decide")

KqueueDecide(w) == Decide(w, "poll", Again)

KqueuePoll(w) == EpollPoll(w)

\* ProcessArgs(): what waits for a filter that has reported is unlocked.
KqueueProcessArgs(r) ==
    LET unlocked == {side \in {"in", "out"} : side \in r.ready}
    IN  [r EXCEPT !.locked = @ \ unlocked, !.ready = {}]

\* The transfers, Accept() and ConnectStart() do with their events what those of epoll
\* do.
KqueueCallback(w) == CallbackWith(w, KqueueProcessArgs(Started(Of(w))))

KqueueCloseEnd(r) == EpollCloseEnd(r)

KqueueSchedule(w) ==
    \/ KqueueHarvest(w) \/ (\E x \in round.harvest : KqueueEvent(w, x))
    \/ KqueueFront(w) \/ KqueueExpired(w)
    \/ KqueuePublish(w) \/ KqueueDecide(w) \/ KqueuePoll(w)

KqueueStep(w) ==
    /\ backend = "kqueue"
    /\ \/ KqueueSchedule(w)
       \/ At(w, "execute")
          /\ (KqueueCallback(w) \/ LastExecute(w, KqueueCloseEnd(task[Of(w)])))
=============================================================================
