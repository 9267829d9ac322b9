SPECIFICATION Spec
CONSTANTS
    ItemCount = 1
    Cancellable = {1}
    MaxDispatches = 2
    MaxGenerations = 2
    PreparedCapacity = 1
    EvidenceLimit = 1
    DbMayFail = TRUE
    WorkerMayDie = TRUE
    ReplyMayTimeOut = TRUE
    MayShutDown = TRUE
CHECK_DEADLOCK FALSE
INVARIANTS
    AckedIsDurable
    ForgottenIsClosed
    CancellationOnItsWay
PROPERTY CustodyKept
