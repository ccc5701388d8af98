CONSTANTS
    Handshakes = {"background", "heartbeat", "drain"}
    Payloads = {p1}
    ErrorEvent = error
    Harvest = {p1}
    Unparsable = {}
    Reported = {1}
    Invocations = 1
    MaxRuns = 1
    TelemetryMax = 1
    MetricMax = 1
    MaxRetries = 1
    PayloadMax = 1
    AgentRetryMax = 1
SPECIFICATION FairSpec
PROPERTIES
    HeartbeatDrains
    ShutdownEnds
