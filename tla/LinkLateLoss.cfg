SPECIFICATION Spec
CONSTANTS
    Requests <- Two
    Packets <- PacketsTwo
    Allowed = {"lateLoss"}
    MaxBreaks = 1
INVARIANTS
    WaitsForSomething
CHECK_DEADLOCK FALSE
