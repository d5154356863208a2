SPECIFICATION Spec
CONSTANTS
    N = 3
    Threshold = 2
    MaxSlot = 6
    Reach <- AnyNodes
    MaxLostProposals = 2
    MaxLostVotes = 1
    Mixed = TRUE
INVARIANTS CommittedInTree
