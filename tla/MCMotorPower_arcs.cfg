SPECIFICATION Spec
CONSTANTS
    BufSize = 2
    RxLines = 1
    MaxLines = 3
    Kinds = {"G0", "G2", "G28"}
    Axes = {"x", "z"}
    ZAxis = "z"
    MaxMoves = 1
    Events = {"Estop"}
INVARIANT
    NoMovesUntilHomed
CHECK_DEADLOCK FALSE
