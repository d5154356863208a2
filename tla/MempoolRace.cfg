SPECIFICATION Spec
CONSTANTS
    Threads = {c1, c2}
    Txs = {1}
    Sizes = {1}
    Size = 1
    MaxTxBytes = 3
    MaxTxsBytes = 4
    MaxPushes = 2
    FlushAlone = TRUE
INVARIANT SizeIsMaximum
CHECK_DEADLOCK FALSE
