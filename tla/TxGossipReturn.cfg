SPECIFICATION FairSpec
CONSTANTS
    n1 = n1
    n2 = n2
    n3 = n3
    Nodes = {n1, n2, n3}
    RPC = RPC
    Links <- Triangle
    Txs = {t1, t2}
    Size = 2
    MaxDrops = 0
PROPERTY NotReturned
CHECK_DEADLOCK FALSE
