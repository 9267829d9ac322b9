SPECIFICATION FairStreamSpec
CONSTANTS
    Items = {i1, i2}
    MaxTerminals = 2
    MaxBytes = 2
    ByteSizes = {1}
    CounterModulus = 6
    QueueLimit = 2
    MaxThrows = 1
CHECK_DEADLOCK FALSE
INVARIANTS
    NoSpuriousProtocolFailure
PROPERTIES
    DeliverySpec
    TerminalsAcknowledged
