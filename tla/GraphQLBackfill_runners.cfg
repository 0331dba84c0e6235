SPECIFICATION FairSpec
CONSTANTS
    r1 = r1
    r2 = r2
    Runners = {r1, r2}
    MaxPulls = 4
    MaxItems = 2
    InitialItems <- TwoPages
    PageSize = 1
    WindowFrom = 2
    WindowTo = 3
    MaxFailures = 2
INVARIANTS
    PagesBeforeCursorStored
    CompletedTraversalIsWhole
    HistoryBeforePullRequest
    InsertedCountsRows
PROPERTIES
    WindowIsCompleted
CHECK_DEADLOCK FALSE
