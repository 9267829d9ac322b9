SPECIFICATION Spec
CONSTANTS
    ItemCount = 1
    Cancellable = {}
    MaxDispatches = 1
    MaxGenerations = 1
    PreparedCapacity = 1
    EvidenceLimit = 9
    DbMayFail = FALSE
    WorkerMayDie = FALSE
    ReplyMayTimeOut = FALSE
    MayShutDown = FALSE
CHECK_DEADLOCK FALSE
INVARIANT StartBeforeTerminal
