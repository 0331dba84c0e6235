SPECIFICATION Spec
CONSTANTS
    MaxDeployments = 1
    MaxItems = 1
    InitialNewest <- None
    PageSize = 1
    WindowFrom = 1
    WindowTo = 9
    Cap = 9
    Unserved = 2
    MaxExpired = 0
    MaxFailures = 0
INVARIANTS
    CompletedServesTotal
CHECK_DEADLOCK FALSE
