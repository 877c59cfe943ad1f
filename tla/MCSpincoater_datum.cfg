SPECIFICATION Spec
CONSTANTS
    Turn = 3
    Positions <- FewAngles
    MaxAttempts = 1
    MaxCal = 0
    Commands = {"M751", "M752"}
    Events = {"PowerCycle", "HandTurn"}
INVARIANTS
    HomingInv
    BootDatumInv
PROPERTIES
    DatumKept
    DatumFromRotorAtRest
    HomedAtZero
    BootDatumAtMark
CHECK_DEADLOCK FALSE
