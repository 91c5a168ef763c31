SPECIFICATION FairSpec
CONSTANTS
    LastPacket = 4
    Size <- SizeMC
    Prefix = 2
    LengthAt = 2
    Misread = {0, 1, 3}
    Setups <- SetupsThatWork
    MidPacket = FALSE
    MaxLosses = 2
INVARIANTS
    TypeOK
    NothingIsMixedUp
    BufferIsOnePartialPacket
PROPERTIES
    ReadsWholePackets
    ReadReturns
    EveryPacketArrives
CHECK_DEADLOCK FALSE
