CONSTANTS
    Handshakes = {"background", "heartbeat", "drain"}
    Payloads = {p1, p2}
    ErrorEvent = error
    Harvest = {p1}
    Unparsable = {p2}
    Reported = {1}
    Invocations = 1
    MaxRuns = 1
    TelemetryMax = 1
    MetricMax = 1
    MaxRetries = 1
    PayloadMax = 1
    AgentRetryMax = 1
SPECIFICATION Spec
INVARIANTS
    TypeOK
    OneCopy
PROPERTIES
    OnlyLateFilesLost
