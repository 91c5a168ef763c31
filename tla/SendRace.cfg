SPECIFICATION Spec
CONSTANTS
    s1 = s1
    s2 = s2
    Sockets <- OneSocket
    Messages <- Two
    Kind <- KindTwo
    Packets <- PacketsTwo
    Dest <- DestSame
    Answer <- NoAnswer
    Cancellable = {}
    Allowed = {}
    MaxBreaks = 0
INVARIANTS
    TasksFollow
CHECK_DEADLOCK FALSE
