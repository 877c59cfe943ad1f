SPECIFICATION RunnerFairSpec
CONSTANTS
    BufSize = 4
    RxLines = 8
    MaxLines = 60
    Kinds <- AllKinds
    MaxMishaps = 2
    MaxRuns = 2
    Programs <- MCPrograms
    Scripts <- MCScripts
    Events = {"Estop", "Kill", "Reset", "Stop", "Timeout", "M112", "Unplug", "StartSpin"}
INVARIANTS
    TypeOK
    RunnerTypeOK
    KnownInv
    RelayInv
    RelaysOffAfterRun
    AbsoluteAfterRun
PROPERTIES
    RunsEnd
    OneLineInFlight
    MovesOnKnownAxes
    MovesInTheirMode
    LowersUnderOpenLid
    SpinsUnderClosedLid
    OpensOverStoppedChuck
CHECK_DEADLOCK FALSE
