SPECIFICATION Spec
CONSTANTS
    s1 = s1
    s2 = s2
    Sockets <- TwoSockets
    Messages <- Two
    Kind <- KindTwo
    Packets <- PacketsTwo
    Dest <- DestTwo
    Answer <- NoAnswer
    Cancellable = {}
    Allowed = {}
    MaxBreaks = 0
INVARIANTS
    RightSocket
CHECK_DEADLOCK FALSE
