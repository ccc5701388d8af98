CONSTANTS
    FunctionLogs = {f1}
    ExtensionLogs = {}
    PlatformLogs = {p1}
    Invocations = 2
    CollectTraceId = TRUE
    PipelineFlush = TRUE
    HoldMax = 1
    TraceMapMax = 1
    FlushThreshold = 1
    FailedMax = 1
    MaxRetries = 1
SPECIFICATION Spec
VIEW View
INVARIANTS
    TypeOK
    OneCopy
    NoLogLost
    StampedRight
    ShutdownFlushesAll
