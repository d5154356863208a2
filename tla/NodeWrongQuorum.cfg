SPECIFICATION Spec
CONSTANTS
    N = 3
    Threshold = 2
    MaxSlot = 3
    MaxProposal = 2
    Me = 0
INVARIANTS PrecommitIsSupported
CHECK_DEADLOCK FALSE
