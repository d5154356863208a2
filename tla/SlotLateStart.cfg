SPECIFICATION Spec
CONSTANTS
    MaxSlot = 3
    LateStart = TRUE
INVARIANT FirstSlotAtStartTime
CHECK_DEADLOCK FALSE
