SPECIFICATION Spec
CONSTANTS
    N = 2
    Threshold = 2
    MaxSlot = 4
    MaxProposal = 3
    Me = 1
INVARIANTS OneVotePerSlot QuorumsAreCast UncommittedStates QuorumsAreSound TimelyApply
PROPERTIES QuorumsStay ProposesOnNewest
CHECK_DEADLOCK FALSE
