SPECIFICATION Spec
CONSTANTS
    Jobs = {j1, j2, j3}
    Steps = {s1}
    StepOf <- MCStepOf
    FirstWorksets = 1
    MaxAttempts = 2
    DecidedStates = {"SUCCEEDED"}
    MaxWorksets = 2
    MaxDispatches = 2
    MaxReopens = 1
    MaxCancellations = 2
SYMMETRY JobSymmetry
CHECK_DEADLOCK FALSE
INVARIANTS
    TypeOK
    UnfinishedOwned
    OneOpenDispatch
    QueuedClaimable
    AvailabilityCovers
    ResultCoherent
    CompletedOnce
    AttemptsBounded
    OneActiveRequest
PROPERTY
    EndsAreFinal
