CONSTANTS
    Handshakes = {"background", "shutdown"}
    Payloads = {p1, p2}
    ErrorEvent = error
    Unparsable = {p2}
    Reported = {1}
    Invocations = 2
    MaxRuns = 1
    TelemetryMax = 1
    MetricMax = 1
    MaxRetries = 1
    PipelineFlush = TRUE
    BlockingHandshake = FALSE
    FlushCap = 2
    PayloadMax = 1
    ShutdownMayTimeOut = FALSE
SPECIFICATION Spec
INVARIANTS
    TypeOK
    OneCopy
PROPERTIES
    TakenIsKept
