SPECIFICATION FairSpec
CONSTANTS
    Ops <- TwoOps
    Limit = 2
    CancelTests = 2
    Cancellable <- TwoOps
INVARIANTS
    TypeOK
    PlaceIsHeldUntilAnswer
PROPERTIES
    StartedEndsOrIsCancelled
CHECK_DEADLOCK FALSE
