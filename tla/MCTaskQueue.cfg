SPECIFICATION EitherQueue
CONSTANTS
    Tasks = {t1, t2}
    QueuedTasks = {}
    OwnedTasks = {t1, t2}
    Calls = {c1}
    Workers = {w1, w2}
    NoTask = NoTask
    MaxAsks = 0
    EmitMayFail = TRUE
    JobMayPanic = TRUE
SYMMETRY Symmetry
INVARIANTS FinishedOnce OneWorker QueueServed
PROPERTY ImplementsPromise
CHECK_DEADLOCK FALSE
