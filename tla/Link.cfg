SPECIFICATION FairSpec
CONSTANTS
    Requests <- Two
    Packets <- PacketsTwo
    Allowed = {"remove", "timeout"}
    MaxBreaks = 1
INVARIANTS
    TypeOK
    CompletedIsWhole
    AnsweredCancelLeavesNothing
    WaitsForSomething
PROPERTIES
    CancelIsFinal
    DeliversFiles
    EveryReceiveTaskEnds
CONSTRAINT FirstWhenDisturbed
CHECK_DEADLOCK FALSE
