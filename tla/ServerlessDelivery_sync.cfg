CONSTANTS
    Requests = {r1, r2, r3}
    Payloads = {p1, p2}
    NoRequest = NoRequest
    SynchronousFlush = TRUE
    PipelineFlush = FALSE
    BatchThreshold = 1
    PipelineCap = 1
    CleanupInterval = 3
    StaleAge = 2
    DeadlineMayExpire = FALSE
    ShutdownMayTimeOut = FALSE
SYMMETRY Symmetry
SPECIFICATION Spec
INVARIANTS
    NoAbandonedSend
