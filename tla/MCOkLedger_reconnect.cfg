SPECIFICATION Spec
CONSTANTS
    BufSize = 2
    RxLines = 1
    MaxLines = 3
    Kinds = {"G0", "G28", "M410", "M114"}
    Clients = {"panel"}
    ButtonText = "M114"
    MaxMishaps = 1
    LedgerMax = 4
    TextsOf <- OwnTexts
    Events = {"Reconnect"}
PROPERTIES
    StepNotEarly
CHECK_DEADLOCK FALSE
