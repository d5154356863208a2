SPECIFICATION TreeSpec
CONSTANTS
    Hashes = {1, 2, 3}
    MaxTime = 3
INVARIANTS TreeShape LatestIsNewestBelowPrecommit EvidencePath
CHECK_DEADLOCK FALSE
