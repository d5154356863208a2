SPECIFICATION Spec
CONSTANTS
    Clients = {c1, c2}
    Names = {"alice", "bob"}
    Values = {2}
    Amounts = {3}
    MaxTxs = 2
    MaxBlocks = 2
    MaxID = 2
    AtomicID = TRUE
PROPERTIES ImplementsBank
CHECK_DEADLOCK FALSE
