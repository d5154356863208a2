SPECIFICATION FairSpec
CONSTANTS
    Clients = {c1}
    Names = {"alice", "bob"}
    Values = {2}
    Amounts = {0, 2}
    MaxTxs = 2
    MaxBlocks = 1
    MaxID = 2
    AtomicID = TRUE
PROPERTIES ImplementsSerialBank
CHECK_DEADLOCK FALSE
