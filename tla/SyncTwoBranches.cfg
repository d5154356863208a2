SPECIFICATION Spec
CONSTANTS
    N = 4
    Threshold = 3
    MaxSlot = 7
    Reach = {{0, 1, 2, 3}, {0, 1, 3}, {0}, {1}, {2}}
    MaxLostProposals = 3
    MaxLostVotes = 3
    Mixed = TRUE
INVARIANTS CommitsOneBranch
