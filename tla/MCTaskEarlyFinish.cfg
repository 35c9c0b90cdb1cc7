SPECIFICATION Spec
CONSTANTS
    Tasks = {t1}
    QueuedTasks = {}
    OwnedTasks = {t1}
    Calls = {c1, c2}
    Workers = {w1, w2}
    NoTask = NoTask
    MaxAsks = 0
    EmitMayFail = FALSE
    JobMayPanic = FALSE
INVARIANT FinishedAfterJob
CHECK_DEADLOCK FALSE
