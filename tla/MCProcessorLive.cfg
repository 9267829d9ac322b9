SPECIFICATION FairSpec
CONSTANTS
    Jobs = {j1, j2}
    NoJob = none
    ClaimBatch = 1
    FinalizationBatch = 2
    MaxFaults = 1
    MaxRestarts = 0
PROPERTIES
    ResultsFinalized
    StopEnds
CHECK_DEADLOCK FALSE
