SPECIFICATION FairSpec
CONSTANTS
    MaxDeployments = 2
    MaxItems = 3
    InitialNewest <- Some
    PageSize = 1
    WindowFrom = 1
    WindowTo = 2
    Cap = 3
    Unserved = 1
    MaxExpired = 1
    MaxFailures = 2
INVARIANTS
    CompletedListingIsWhole
    StatusesBeforeDeployment
    NothingBeforeNextPage
PROPERTIES
    ProgressIsKept
    WindowIsCompleted
CHECK_DEADLOCK FALSE
