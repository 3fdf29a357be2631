SPECIFICATION Spec
CONSTANTS
    StaleTimeout = 5
    Horizon = 10
    PollPeriod = 1
    DelayLimit = 3
    Cooldown = 2
    OpenWait = 3
    Interval = 1
    YieldWait = 1
    MonitorLate = 1
    AgentLate = 1
    MaxRecoveries = 1
    SuspendLengths <- Naps
    Env <- Awake
INVARIANTS
    NoFalseKill
    HangDeadline
    FailSafeAsserted
PROPERTY
    HangEnds
