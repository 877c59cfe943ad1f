SPECIFICATION FairSpec
CONSTANTS
    BufSize = 2
    RxLines = 2
    MaxLines = 2
    Kinds = {"G0", "G28", "M410", "M114"}
    Clients = {"panel"}
    ButtonText = "M114"
    MaxMishaps = 2
    LedgerMax = 1
    TextsOf <- SameTexts
    Events = {"PowerLoss", "Kill", "Reset", "Port", "Reconnect"}
INVARIANTS
    TypeOK
    NobodyForgotten
PROPERTIES
    StepEnds
CHECK_DEADLOCK FALSE
