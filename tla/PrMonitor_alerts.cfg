SPECIFICATION FairSpec
CONSTANTS
    w1 = w1
    w2 = w2
    p1 = p1
    pr1 = pr1
    r1 = r1
    r2 = r2
    Workers = {w1}
    Partitions = {p1}
    Values <- AlertValues
    PartitionOf <- OnePartition
    PullRequests = {pr1}
    Reviews = {r1, r2}
    Nobody = Nobody
    NoMessage = NoMessage
    NoRow = NoRow
    NoReview = NoReview
    Refused <- RefusedNumber
    MaxLog = 3
    MaxDisruptions = 1
INVARIANTS
    PendingAlertHasOpenRow
PROPERTIES
    AlertsAreForStaleRows
    OneAlertForLife
    EveryRecordCommitted
    StaleRowIsAlerted
CHECK_DEADLOCK FALSE
