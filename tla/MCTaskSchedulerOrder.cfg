\* Two workers, two tasks: the order of execution.
SPECIFICATION ScenesSpec
CONSTANTS
    Scenes = {"everything"}
    c1 = c1
    Workers = {w1, w2}
    Tasks = {t1, t2}
    Clients = {c1}
    Controller = Controller
    NoTask = NoTask
    NoThread = NoThread
    ExecBatch = 1
    Calls = {"start"}
    ClientCalls = {"post", "signal"}
    PostDeadlines = {"none", "future"}
SYMMETRY SchedulerSymmetry
INVARIANT
    SleeperIsCalled
PROPERTY
    FairOrder
