SPECIFICATION Spec
CONSTANTS
    N = 4
    Threshold = 3
    MaxSlot = 7
    Reach <- AnyNodes
    MaxLostProposals = 4
    MaxLostVotes = 2
    Mixed = FALSE
INVARIANTS OneBranch CommitInTwoSlots ExecutedInOrder
PROPERTIES ImplementsLedger
