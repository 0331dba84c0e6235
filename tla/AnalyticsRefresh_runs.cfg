SPECIFICATION FairSpec
CONSTANTS
    a1 = a1
    a2 = a2
    Slots = {a1, a2}
    NoSlot = NoSlot
    MaxTries = 3
    MaxFailures = 3
    MaxOrphans = 1
    MaxClears = 2
INVARIANTS
    SucceededHasEvidence
    LedgerAgreesWithDag
PROPERTIES
    RowFollowsTransitions
    FirstErrorIsKept
    OwnArtifactIsRead
    RowBecomesTerminal
CHECK_DEADLOCK FALSE
