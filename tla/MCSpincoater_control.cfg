SPECIFICATION Spec
CONSTANTS
    Turn = 1
    Positions <- NoAngles
    MaxAttempts = 2
    MaxCal = 1
    Commands = {"M750", "M751", "M752"}
    Events = {"M410", "Kill", "Reset", "SelfDisarm"}
INVARIANTS
    TypeOK
    RotorToldToStop
    ModeRestored
    ProcedureAccountedFor
    DriverInv
    BootDatumInv
PROPERTIES
    DatumFromRotorAtRest
CHECK_DEADLOCK FALSE
