SPECIFICATION ToolsSpec
CONSTANTS
    p1 = p1
    p2 = p2
    c1 = c1
    c2 = c2
    r1 = r1
    t1 = t1
    t2 = t2
    sub = sub
    i1 = i1
    i2 = i2
    lib = lib
    b1 = b1
    b2 = b2
    Procs = {p1, p2}
    Commits = {c1, c2}
    RefNames = {r1}
    Trees = {t1, t2, sub}
    Files = {i1, i2, lib}
    RefOf <- OneRef
    Root <- TwoRoots
    Kids <- OneKid
    Holds <- InTree
    Info <- InfoOf
    Below <- Reached
    None = None
    MaxOps = 3
    Builders = {b1, b2}
    Sources <- Both
    Helpers = {b2}
    Format = "1.0"
    MaxRuns = 3
    Entries = {1, 2}
    MaxSignals = 2
    Inits = {p1, p2}
    Regular = {"file"}
    Links = {"link"}
    MaxInits = 3
INVARIANTS ObjectsWhole SourcesServed Orderly ContextSound
CHECK_DEADLOCK FALSE
