SPECIFICATION Spec
CONSTANTS
    N = 3
    Threshold = 2
    MaxSlot = 2
    MaxProposal = 2
    Me = 2
INVARIANTS AppliedOnce
CHECK_DEADLOCK FALSE
