SPECIFICATION Spec
CONSTANTS
    Tags <- PairTags
    Collected <- PairCollected
    Hooked = "Foreground_App_Hash"
    MaxSets = 2
INVARIANTS
    TypeOK
    SnapshotCurrent
    StampNotStale
    GroupInOrder
PROPERTY Promised
