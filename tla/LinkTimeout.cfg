SPECIFICATION Spec
CONSTANTS
    Requests <- Two
    Packets <- PacketsTwo
    Allowed = {"timeout"}
    MaxBreaks = 0
INVARIANTS
    LateTaskIsCancelled
CHECK_DEADLOCK FALSE
