CONSTANTS
    Invocations = 2
    InstanceId = InstanceId
    ClockIds = {c1, c2}
    MaxWait = 2
    Fallback = 1
    Margin = 2
    Scenes <- DeadlinesAndErrors
    StaleAge = 1
SPECIFICATION Spec
INVARIANTS
    TypeOK
    NoLostWakeup
    WaitsInTime
    SkippedOnlyIfSent
PROPERTIES
    NoSecondSend
SYMMETRY
    SymmetryOfIds
