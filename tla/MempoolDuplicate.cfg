SPECIFICATION Spec
CONSTANTS
    Threads = {c1}
    Txs = {1}
    Sizes = {1}
    Size = 2
    MaxTxBytes = 3
    MaxTxsBytes = 4
    MaxPushes = 2
    FlushAlone = TRUE
INVARIANT CommittedRemoved
CHECK_DEADLOCK FALSE
