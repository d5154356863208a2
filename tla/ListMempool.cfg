SPECIFICATION Spec
CONSTANTS
    Threads = {c1, c2}
    Txs = {1, 2}
    Sizes = {1, 3}
    Size = 2
    MaxTxBytes = 3
    MaxTxsBytes = 4
    MaxPushes = 4
    FlushAlone = TRUE
INVARIANTS SizeBounded BytesMatch NoPanic
CHECK_DEADLOCK FALSE
