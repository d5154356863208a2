SPECIFICATION FairSpec
CONSTANTS
    MaxSlot = 6
    LateStart = FALSE
INVARIANTS NoPanic OneTick OneRoundEvent
PROPERTIES ImplementsRoundSteps EverySlotEntered RoundCompletes
