CONSTANTS
    LastFile = 3
    Maxima <- AnyNumber
    Limit = 2
    MaxRecords = 7
    Failing <- AnyCall
SPECIFICATION Spec
INVARIANTS TypeOK Ordered Retained SizeBounded HeaderPlace
PROPERTY LosesOldest
