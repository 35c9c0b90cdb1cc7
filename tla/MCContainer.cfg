SPECIFICATION FairSpec
CONSTANTS
    Clients = {c1, c2, c3}
    Kids = {k1}
    None = None
    StateMayFail = TRUE
    InitMayFail = TRUE
INVARIANTS ReuseServed OrphansKept WakesUp StartsAlone
PROPERTIES Terminates ContainerEnds Served
CHECK_DEADLOCK FALSE
