SPECIFICATION Spec
CONSTANTS
    Params <- OneParam
    MaxValue = 2
    Unit = 2
    Inputs <- OnAndOffTheScale
    Deadbands = {1, 3}
    None = None
    Copies = {"nanoloop"}
    Failing = {"get", "set", "write", "duplicate", "enumerate", "name"}
INVARIANTS
    TypeOK
    UserChoiceStands
    BalancedSpared
PROPERTY AppliedWritten
