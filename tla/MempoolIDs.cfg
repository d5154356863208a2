SPECIFICATION IDsSpec
CONSTANTS
    Peers = {p1, p2, p3}
    Modulus = 5
    PoolSize = 2
INVARIANTS UniqueIDs ActiveIDsAreOwned EnoughIDs
