SPECIFICATION FairSpec
CONSTANTS
    Writers = {w1}
    Watcher = watcher
    Processor = processor
    ClaimBatch = 1
    GenerationLimit = 9
    MaxResults = 2
    MaxReadyChanges = 1
PROPERTY
    CacheConverges
