\* Two workers and one task: two clients post it, wake it up and signal it; or one
\* client does amid Start(), IsEmpty() and Stop().
SPECIFICATION FairScenesSpec
CONSTANTS
    Scenes = {"clients", "calls"}
    c1 = c1
    Workers = {w1, w2}
    Tasks = {t1}
    Clients = {c1, c2}
    Controller = Controller
    NoTask = NoTask
    NoThread = NoThread
    ExecBatch = 1
    Calls = {"start", "empty", "stop"}
    ClientCalls = {"post", "wakeup", "signal"}
    PostDeadlines = {"future", "never"}
INVARIANTS
    NoDuplicates
    SomebodySchedules
PROPERTIES
    ImplementsFairTaskLifecycle
    CallReturns
