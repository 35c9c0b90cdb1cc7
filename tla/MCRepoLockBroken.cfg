SPECIFICATION Spec
CONSTANTS
    daemon = daemon
    cli1 = cli1
    d1 = d1
    d2 = d2
    c1 = c1
    Processes = {daemon, cli1}
    Threads = {d1, d2, c1}
    ProcessOf <- DaemonAndOne
    Uses <- AsUsed
INVARIANT CrossExclusion
