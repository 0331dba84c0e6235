SPECIFICATION FairSpec
CONSTANTS
    c1 = c1
    c2 = c2
    Clients = {c1, c2}
    KindsOf <- UpToRenaming
    MaxRetries = 2
    Minute = 1
    Backoff = 1
    MaxJitter = 1
    Limit = 1
    Window = 2
    MaxAhead = 1
    MaxPenalty = 2
    MaxPenalties = 1
    MaxFailures = 1
INVARIANTS
    TypeOK
    PrimaryLimitIsWaitedOut
PROPERTIES
    WaitsAsTold
    EveryCallEnds
