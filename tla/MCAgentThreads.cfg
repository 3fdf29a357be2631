SPECIFICATION Spec
CONSTANTS
    Workers <- TwoWorkers
    control = "ai"
    telemetry = "telemetry"
    MaxEvents = 4
INVARIANTS
    TypeOK
    NoLostWakeup
    NoWorkAfterStop
PROPERTIES
    ShutdownCompletes
    ResumeTakesEffect
CHECK_DEADLOCK FALSE
