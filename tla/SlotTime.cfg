SPECIFICATION FairSpec
CONSTANTS
    N = 2
    SlotTimeOut = 3
    Slotdiffs = 1
    Boots = {0, 1}
    Jitter = 1
    MaxSlot = 5
INVARIANTS DriftBounded InStep
PROPERTIES Progress
CHECK_DEADLOCK FALSE
