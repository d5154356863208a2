SPECIFICATION Spec
CONSTANTS
    N = 4
    Threshold = 3
    MaxSlot = 6
    Reach <- AnyNodes
    MaxLostProposals = 0
    MaxLostVotes = 1
    Mixed = TRUE
INVARIANTS LastCommitedKept
