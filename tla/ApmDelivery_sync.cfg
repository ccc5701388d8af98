CONSTANTS
    Handshakes = {"background", "shutdown"}
    Payloads = {p1}
    ErrorEvent = error
    Unparsable = {}
    Reported = {}
    Invocations = 2
    MaxRuns = 2
    TelemetryMax = 1
    MetricMax = 1
    MaxRetries = 2
    PipelineFlush = FALSE
    BlockingHandshake = TRUE
    FlushCap = 2
    PayloadMax = 1
    ShutdownMayTimeOut = TRUE
SPECIFICATION FairSpec
INVARIANTS
    CurrentKeepsEntry
    SendUsesCurrentSession
PROPERTIES
    EventsEnd
