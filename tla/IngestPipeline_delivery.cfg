SPECIFICATION PipelineFairSpec
CONSTANTS
    w1 = w1
    w2 = w2
    p1 = p1
    d1 = d1
    refused = refused
    first = first
    second = second
    Workers = {w1, w2}
    Partitions = {p1}
    Values = {d1, refused}
    PartitionOf <- OnePartition
    Valid = {d1, refused}
    Unstorable = {refused}
    Nobody = Nobody
    NoMessage = NoMessage
    MaxLog = 2
    MaxDisruptions = 1
    Requests = {first, second}
    Malformed = {}
    Probes = {}
    MaxThreads = 1
    MaxQueue = 1
    MaxRestarts = 1
    DeliveryOf <- DeliveriesOf
INVARIANTS
    NothingAcceptedIsLost
PROPERTIES
    KeepsPromise
CHECK_DEADLOCK FALSE
