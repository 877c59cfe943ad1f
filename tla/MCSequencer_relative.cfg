SPECIFICATION Spec
CONSTANTS
    BufSize = 4
    RxLines = 8
    MaxLines = 60
    Kinds <- AllKinds
    MaxMishaps = 1
    MaxRuns = 2
    Programs <- MCDispense
    Events = {"Estop"}
INVARIANTS
    RestoresAbsolute
CHECK_DEADLOCK FALSE
