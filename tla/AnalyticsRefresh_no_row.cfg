SPECIFICATION Spec
CONSTANTS
    a1 = a1
    a2 = a2
    Slots = {a1}
    NoSlot = NoSlot
    MaxTries = 3
    MaxFailures = 3
    MaxOrphans = 0
    MaxClears = 0
INVARIANTS
    CallbackLeavesTerminalRow
CHECK_DEADLOCK FALSE
