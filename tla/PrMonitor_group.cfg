SPECIFICATION Spec
CONSTANTS
    w1 = w1
    w2 = w2
    p1 = p1
    pr1 = pr1
    r1 = r1
    r2 = r2
    Workers = {w1, w2}
    Partitions = {p1}
    Values <- LifeValues
    PartitionOf <- OnePartition
    PullRequests = {pr1}
    Reviews = {r1, r2}
    Nobody = Nobody
    NoMessage = NoMessage
    NoRow = NoRow
    NoReview = NoReview
    Refused <- RefusedData
    MaxLog = 2
    MaxDisruptions = 2
SYMMETRY MonitorSymmetry
INVARIANTS
    CommittedIsApplied
    RowsAgree
    ProjectionConverges
PROPERTIES
    ProjectionMovesForward
CHECK_DEADLOCK FALSE
