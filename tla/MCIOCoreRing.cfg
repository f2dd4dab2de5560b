\* The completion queue of io_uring when more has come than a batch takes.
SPECIFICATION Spec
CONSTANTS
    t1 = t1
    t2 = t2
    w1 = w1
    w2 = w2
    Tasks = {t1, t2}
    Workers = {w1, w2}
    Clients = {c1}
    NoTask = NoTask
    Scenarios <- SafetyScenarios
    ExecBatch = 2
    MaxTime = 1
    KernelBatch = 2
    RingSize = 1
INVARIANT
    SleepsOnlyWithoutWork
CHECK_DEADLOCK FALSE
