SPECIFICATION Spec
CONSTANTS
    Snapshots <- SomeSnapshots
    QueueNorm <- SomeQueueNorm
    Weights <- SomeWeights
    Epsilon = 1
    HighDeadband = 1600
    MediumDeadband = 8000
    LowDeadband = 16000
    MinInterval = 50
    MaxInterval = 500
    None = None
    Answers <- SomeAnswers
INVARIANTS
    TypeOK
    Settled
    Tracks
