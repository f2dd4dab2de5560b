\* Two workers that may sleep for ever and three callers of the mutex; two senders
\* and two receivers of one signal, or one of each kind and the receiver deletes the
\* signal; two tasks and two clients that race to wake them up.
SPECIFICATION ThreadsSpec
CONSTANTS
    Workers = {w1, w2}
    Callers = {c1, c2, c3}
    NoThread = NoThread
    Senders = {s1, s2}
    Receivers = {r1, r2}
    Nobody = Nobody
    Tasks = {t1, t2}
    Clients = {c1, c2}
    NoTask = NoTask
INVARIANTS
    MutualExclusion
    NoDanglingWaiter
    NoLostWakeup
    NoUseAfterDelete
    OneWakerPushes
PROPERTIES
    NoOvertaking
    LockSucceeds
    ImplementsSignalSpec
    WakeupNotLost
    RunnableTaskExecutes
