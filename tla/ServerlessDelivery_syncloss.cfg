CONSTANTS
    Requests = {r1, r2}
    Payloads = {p1, p2}
    NoRequest = NoRequest
    SynchronousFlush = TRUE
    PipelineFlush = FALSE
    BatchThreshold = 1
    PipelineCap = 1
    CleanupInterval = 9
    StaleAge = 2
    DeadlineMayExpire = FALSE
    ShutdownMayTimeOut = FALSE
SPECIFICATION Spec
INVARIANTS
    NoSilentLoss
