SPECIFICATION CommandsSpec
CONSTANTS
    daemon = daemon
    cli1 = cli1
    cli2 = cli2
    d1 = d1
    d2 = d2
    c1 = c1
    c2 = c2
    None = None
    Processes = {daemon, cli1, cli2}
    Threads = {d1, d2, c1, c2}
    ProcessOf <- DaemonAndTwo
    Uses <- Either
    Raws <- Texts
    Wants <- Wanted
    MaxOffers = 3
    Clients = {"ll-cli", "other"}
    Names = {"main", "testing"}
    Urls = {"u"}
    Priorities = {100}
    Step = 100
    MaxEdits = 2
    Patches <- PatchFiles
    Printed <- Prints
    Documents <- Docs
    Workdirs = {None, "/w", "relative"}
    Machines <- Hosts
    Asked <- Requests
    Configs <- ConfigFiles
    Devices <- Nodes
    Keys = {"K"}
    Declared <- Defined
    External <- Added
    Extensions <- Wishes
    KeyOrder <- Ordered
    Nvidia = "nv"
    Drivers = {None, 5, 6}
    Packages <- Packs
    MaxChanges = 2
    AppLayers = {"a1", "a2", "b1"}
    App <- AppOf
    Exported <- Files
    Desktop = {"desktop"}
    MaxOps = 2
    MaxStops = 2
    Procs = {"p", "q"}
    Options <- Starts
    DriverVersions = {1, 2}
    Offers <- Offered
    MaxRuns = 2
    MaxMoves = 1
    Ids = {"a", "b"}
    Runs = {1, 2}
    MaxPid = 3
    Overlays <- Roots
    MaxLost = 1
INVARIANTS LocalExclusion SleepersServed LoneExclusion UpdatesCount EditsKept
           BadPatchIgnored AsAsked SameInside LaunchEnds EntriesSound AsTold SeenAsIs
           RootKept
CHECK_DEADLOCK FALSE
