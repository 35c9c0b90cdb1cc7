SPECIFICATION Spec
CONSTANTS
    app = app
    base = base
    Commits <- Plain
    BaseOf <- TwoApps
    Containers = {k1}
    AutoPrune = {TRUE}
    ForceBase = TRUE
    MayFail = FALSE
    MayCrash = FALSE
INVARIANT DeferredReachable
