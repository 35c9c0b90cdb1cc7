SPECIFICATION Spec
CONSTANTS
    app = app
    base = base
    Commits <- WithFiles
    BaseOf <- TwoApps
    Containers = {k1}
    AutoPrune = {FALSE}
    ForceBase = FALSE
    MayFail = TRUE
    MayCrash = TRUE
INVARIANTS LayersWhole FollowsInstalled
PROPERTY GcSparesRecorded
CONSTRAINT OneAtATime
