\* IsEmpty() against a worker that takes a task between its two looks.
SPECIFICATION ScenesSpec
CONSTANTS
    Scenes = {"everything"}
    c1 = c1
    Workers = {w1, w2}
    Tasks = {t1}
    Clients = {c1}
    Controller = Controller
    NoTask = NoTask
    NoThread = NoThread
    ExecBatch = 1
    Calls = {"start", "empty"}
    ClientCalls = {"post"}
    PostDeadlines = {"none"}
INVARIANT
    EmptyMeansNoTaskRuns
