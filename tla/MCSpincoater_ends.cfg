SPECIFICATION FairSpec
CONSTANTS
    Turn = 1
    Positions <- NoAngles
    MaxAttempts = 1
    MaxCal = 1
    Commands = {"M750"}
    Events = {"Kill", "Reset", "SelfDisarm"}
PROPERTIES
    CommandEnds
    KillStopsRotor
    ResetStopsRotor
CHECK_DEADLOCK FALSE
