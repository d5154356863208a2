SPECIFICATION FairSpec
CONSTANTS
    n1 = n1
    n2 = n2
    n3 = n3
    Nodes = {n1, n2, n3}
    RPC = RPC
    Links <- Line
    Txs = {t1, t2}
    Size = 4
    MaxDrops = 1
INVARIANT CopiesBounded
PROPERTIES NotReturnedBefore Spreads
CHECK_DEADLOCK FALSE
