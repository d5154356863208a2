SPECIFICATION Spec
CONSTANTS
    P = 5
    N = 4
    Thres = 3
    Threshold = 3
INVARIANT ThresholdSuffices
CHECK_DEADLOCK FALSE
