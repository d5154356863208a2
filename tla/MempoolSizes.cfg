SPECIFICATION Spec
CONSTANTS
    Threads = {c1}
    Txs = {1}
    Sizes = {1, 2}
    Size = 1
    MaxTxBytes = 3
    MaxTxsBytes = 4
    MaxPushes = 1
    FlushAlone = TRUE
INVARIANT BytesAreExact
CHECK_DEADLOCK FALSE
