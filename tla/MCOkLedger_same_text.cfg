SPECIFICATION Spec
CONSTANTS
    BufSize = 2
    RxLines = 1
    MaxLines = 3
    Kinds = {"G0", "G28", "M410", "M114"}
    Clients = {"panel", "phone"}
    ButtonText = "M114"
    MaxMishaps = 0
    LedgerMax = 4
    TextsOf <- SameTexts
    Events = {"Timeout"}
PROPERTIES
    StepNotEarly
CHECK_DEADLOCK FALSE
