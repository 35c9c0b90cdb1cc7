SPECIFICATION FairSpec
CONSTANTS
    app = app
    base = base
    Commits <- WithModules
    BaseOf <- TwoApps
    Containers = {k1}
    AutoPrune = {FALSE, TRUE}
    ForceBase = FALSE
    MayFail = FALSE
    MayCrash = FALSE
INVARIANTS FollowsInstalled BaseThere
PROPERTY DeferredCollected
