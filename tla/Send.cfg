SPECIFICATION FairSpec
CONSTANTS
    s1 = s1
    s2 = s2
    Sockets <- OneSocket
    Messages <- Four
    Kind <- KindFour
    Packets <- PacketsFour
    Dest <- DestFour
    Answer <- AnswerFour
    Cancellable = {2, 3}
    Allowed = {"cancelAll"}
    MaxBreaks = 1
CONSTRAINT UntilDisturbed
INVARIANTS
    TypeOK
    QueueFollows
PROPERTIES
    StreamInOrder
    EveryOperationEnds
CHECK_DEADLOCK FALSE
