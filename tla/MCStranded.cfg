SPECIFICATION FairSpec
CONSTANTS
    Writers = {w1}
    Watcher = watcher
    Processor = processor
    ClaimBatch = 2
    GenerationLimit = 9
    MaxResults = 2
    MaxReadyChanges = 0
PROPERTY
    ResultsProcessed
