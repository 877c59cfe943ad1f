SPECIFICATION FairSpec
CONSTANTS
    BufSize = 2
    RxLines = 2
    MaxLines = 4
    Kinds = {"G0", "G28", "M42", "M750", "M118", "M410"}
    Axes = {"z"}
    ZAxis = "z"
    MaxMoves = 1
    Events = {"Estop", "Kill", "Reset"}
INVARIANTS
    TypeOK
    NoMovesUntilHomed
    RelayOnlyOnAfterLoss
    PowerInv
PROPERTIES
    LinesInOrder
    QueuedLinesNeverRun
    QueueDrains
CHECK_DEADLOCK FALSE
