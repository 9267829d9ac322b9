SPECIFICATION LiveSpec
CONSTANTS
    Worksets = {w1, w2}
    ItemCount = 2
    MaxOutputs = 2
    MaxItems = 4
    MaxCredits = 4
    MaxTerminals = 3
    None = None
INVARIANTS TerminalPlaceReserved UnstartedNeverRan WorksetInOnePlace
PROPERTIES ReportingContract AcceptedReported
CHECK_DEADLOCK FALSE
