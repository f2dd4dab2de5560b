\* Every backend, one or two workers and one or two tasks, as in the scenarios.
\* A core without a task left sleeps for ever: that is no deadlock.
SPECIFICATION Spec
CONSTANTS
    t1 = t1
    t2 = t2
    w1 = w1
    w2 = w2
    Tasks = {t1, t2}
    Workers = {w1, w2}
    Clients = {c1}
    NoTask = NoTask
    Scenarios <- SafetyScenarios
    ExecBatch = 2
    MaxTime = 1
    KernelBatch = 2
    RingSize = 1
INVARIANTS
    OneOwner
    AssertionsHold
    KernelForgetsClosed
    NoEdgeLost
    OperationsAreCounted
    CountCoversTasks
    SleeperIsReached
CHECK_DEADLOCK FALSE
