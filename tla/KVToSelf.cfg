SPECIFICATION FairSpec
CONSTANTS
    Clients = {c1}
    Names = {"alice", "bob"}
    Values = {2}
    Amounts = {0, 2}
    MaxTxs = 1
    MaxBlocks = 1
    MaxID = 2
    AtomicID = TRUE
PROPERTIES AmalgamateKeepsMoney
CHECK_DEADLOCK FALSE
