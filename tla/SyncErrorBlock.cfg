SPECIFICATION Spec
CONSTANTS
    N = 3
    Threshold = 2
    MaxSlot = 5
    Reach <- AnyNodes
    MaxLostProposals = 1
    MaxLostVotes = 0
    Mixed = TRUE
INVARIANTS NoErrorInTree
