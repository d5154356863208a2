SPECIFICATION Spec
CONSTANTS
    P = 5
    N = 4
    Thres = 2
    Threshold = 3
INVARIANT RecoversPrimary
CHECK_DEADLOCK FALSE
