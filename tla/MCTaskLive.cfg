SPECIFICATION FairSpec
CONSTANTS
    Tasks = {t1}
    QueuedTasks = {}
    OwnedTasks = {t1}
    Calls = {c1, c2}
    Workers = {w1}
    NoTask = NoTask
    MaxAsks = 1
    EmitMayFail = FALSE
    JobMayPanic = FALSE
PROPERTY TasksFinish
CHECK_DEADLOCK FALSE
