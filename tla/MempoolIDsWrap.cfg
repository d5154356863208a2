SPECIFICATION IDsSpec
CONSTANTS
    Peers = {p1, p2}
    Modulus = 4
    PoolSize = 1
INVARIANT SenderIsPeer
