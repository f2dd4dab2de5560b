\* The same cores with fair threads: what they owe to their tasks and to Stop().
SPECIFICATION FairSpec
CONSTANTS
    t1 = t1
    t2 = t2
    w1 = w1
    w2 = w2
    Tasks = {t1, t2}
    Workers = {w1, w2}
    Clients = {c1}
    NoTask = NoTask
    Scenarios <- LiveScenarios
    ExecBatch = 2
    MaxTime = 1
    KernelBatch = 7
    RingSize = 1
PROPERTIES
    ImplementsIOTask
    StopReturns
    DeadlineIsServed
    DataIsServed
CHECK_DEADLOCK FALSE
