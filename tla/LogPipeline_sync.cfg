CONSTANTS
    FunctionLogs = {f1}
    ExtensionLogs = {e1}
    PlatformLogs = {}
    Invocations = 2
    CollectTraceId = TRUE
    PipelineFlush = FALSE
    HoldMax = 1
    TraceMapMax = 1
    FlushThreshold = 2
    FailedMax = 1
    MaxRetries = 1
SPECIFICATION FairSpec
INVARIANTS
    RetryEndsWithInvocation
    TraceOfOwnRequest
    HeldAwaitsTrace
PROPERTIES
    FlushEnds
