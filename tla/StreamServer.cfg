SPECIFICATION Spec
CONSTANTS
    LastPacket = 4
    Size <- SizeMC
    Prefix = 2
    LengthAt = 2
    Misread = {0, 1, 3}
    Setups <- ServerOnly
    MidPacket = FALSE
    MaxLosses = 0
INVARIANTS
    NothingIsMixedUp
CHECK_DEADLOCK FALSE
