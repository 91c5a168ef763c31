SPECIFICATION FairSpec
CONSTANTS
    Ops <- TwoOps
    Limit = 2
    CancelTests = 2
    Cancellable <- TwoOps
PROPERTIES
    CancelledNeverBegins
CHECK_DEADLOCK FALSE
