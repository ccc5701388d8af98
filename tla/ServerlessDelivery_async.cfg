CONSTANTS
    Requests = {r1, r2, r3}
    Payloads = {p1, p2}
    NoRequest = NoRequest
    SynchronousFlush = FALSE
    PipelineFlush = TRUE
    BatchThreshold = 2
    PipelineCap = 1
    CleanupInterval = 1
    StaleAge = 2
    DeadlineMayExpire = FALSE
    ShutdownMayTimeOut = FALSE
SYMMETRY Symmetry
SPECIFICATION Spec
INVARIANTS
    TypeOK
    NoSilentLoss
    ReportNotLost
    LatePairsDrained
    ActiveIsRegistered
    NoSplitPair
