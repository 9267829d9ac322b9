SPECIFICATION Spec
CONSTANTS
    Jobs = {j1, j2, j3}
    NoJob = none
    ClaimBatch = 2
    FinalizationBatch = 2
    MaxFaults = 1
    MaxRestarts = 1
SYMMETRY JobSymmetry
INVARIANTS
    CancellationsCovered
    HoldsUndecided
    FinalizationsAnnounced
    NoSilentLoss
PROPERTIES
    FinalizedOnce
CHECK_DEADLOCK FALSE
