CONSTANTS
    Requests = {r1, r2}
    Payloads = {p1, p2}
    NoRequest = NoRequest
    SynchronousFlush = FALSE
    PipelineFlush = TRUE
    BatchThreshold = 1
    PipelineCap = 1
    CleanupInterval = 1
    StaleAge = 2
    DeadlineMayExpire = TRUE
    ShutdownMayTimeOut = TRUE
SPECIFICATION FairSpec
PROPERTIES
    Custody
    EventsEnd
