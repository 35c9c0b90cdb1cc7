SPECIFICATION FairClientSpec
CONSTANTS
    Tasks = {op, search}
    QueuedTasks = {search}
    OwnedTasks = {op, search}
    Calls = {c1}
    Groups <- Alone
    Workers = {w1}
    NoTask = NoTask
    MaxAsks = 2
    EmitMayFail = FALSE
    JobMayPanic = FALSE
INVARIANTS Informed GrantedByOwner
PROPERTY ClientEnds
CHECK_DEADLOCK FALSE
