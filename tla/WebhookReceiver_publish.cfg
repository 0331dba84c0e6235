SPECIFICATION FairSpec
CONSTANTS
    r1 = r1
    r2 = r2
    bad = bad
    probe = probe
    Requests = {r1, r2, bad}
    Malformed = {bad}
    Probes = {probe}
    MaxThreads = 2
    MaxQueue = 1
    MaxRestarts = 1
INVARIANTS
    AcceptedIsLogged
    NoReportIsLost
PROPERTIES
    EveryRequestAnswered
CHECK_DEADLOCK FALSE
