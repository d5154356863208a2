SPECIFICATION Spec
CONSTANTS
    N = 2
    SlotTimeOut = 3
    Slotdiffs = 3
    Boots = {0, 1}
    Jitter = 1
    MaxSlot = 2
INVARIANT OneCountdown
CHECK_DEADLOCK FALSE
