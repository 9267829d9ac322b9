SPECIFICATION LiveSpec
CONSTANTS
    ItemCount = 2
    Cancellable = {2}
    MaxDispatches = 1
    MaxGenerations = 1
    PreparedCapacity = 1
    EvidenceLimit = 9
    DbMayFail = FALSE
    WorkerMayDie = TRUE
    ReplyMayTimeOut = TRUE
    MayShutDown = TRUE
CHECK_DEADLOCK FALSE
PROPERTIES
    HandedOutSettles
    ShutdownRecovers
