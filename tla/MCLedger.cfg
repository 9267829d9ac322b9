SPECIFICATION Spec
CONSTANTS
    Items = {i1, i2, i3}
    MaxTerminals = 3
    MaxBytes = 4
    ByteSizes = {1, 2}
    CounterModulus = 5
SYMMETRY ItemSymmetry
CHECK_DEADLOCK FALSE
INVARIANTS
    TypeOK
    BytesAccounted
    PublishedInTerminalOrder
    RetryOwnsReservation
    IdentityNotReused
