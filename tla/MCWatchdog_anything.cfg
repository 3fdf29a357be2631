SPECIFICATION Spec
CONSTANTS
    StaleTimeout = 2
    Horizon = 4
    PollPeriod = 1
    DelayLimit = 2
    Cooldown = 1
    OpenWait = 1
    Interval = 1
    YieldWait = 1
    MonitorLate = 1
    AgentLate = 1
    MaxRecoveries = 1
    SuspendLengths = {2}
    Env <- Anything
INVARIANTS
    TypeOK
    NoStaleSection
PROPERTIES
    Supervised
    Attended
