SPECIFICATION Spec
CONSTANTS
    Turn = 1
    Positions <- NoAngles
    MaxAttempts = 1
    MaxCal = 0
    Commands = {"M750"}
    Events = {"M410"}
PROPERTIES
    AbortEndsCycle
CHECK_DEADLOCK FALSE
