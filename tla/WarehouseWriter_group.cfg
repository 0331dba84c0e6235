SPECIFICATION FairSpec
CONSTANTS
    w1 = w1
    w2 = w2
    d1 = d1
    d2 = d2
    bad = bad
    big = big
    p1 = p1
    p2 = p2
    Workers = {w1, w2}
    Partitions = {p1, p2}
    Values = {d1, d2, bad, big}
    PartitionOf <- TwoPartitions
    Valid = {d1, d2, big}
    Unstorable = {big}
    Nobody = Nobody
    NoMessage = NoMessage
    MaxLog = 2
    MaxDisruptions = 2
INVARIANTS
    CommittedIsDurable
    FirstLineageStored
    DeadLettersBounded
PROPERTIES
    CommittedNeverRegresses
    ImplementsContract
    EveryRecordCommitted
CHECK_DEADLOCK FALSE
