SPECIFICATION Spec
CONSTANTS
    Requests <- Two
    Packets <- PacketsTwo
    Allowed = {}
    MaxBreaks = 0
INVARIANTS
    CompletedIsAlwaysWhole
CHECK_DEADLOCK FALSE
