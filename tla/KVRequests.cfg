SPECIFICATION Spec
CONSTANTS
    Clients = {c1, c2}
    Names = {"alice", "bob"}
    Values = {2}
    Amounts = {0, 2}
    MaxTxs = 2
    MaxBlocks = 0
    MaxID = 2
    AtomicID = FALSE
INVARIANTS DistinctIDs
CHECK_DEADLOCK FALSE
