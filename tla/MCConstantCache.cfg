SPECIFICATION Spec
CONSTANTS
    Keys = {1, 2}
    Wanted <- MCWanted
    MaxCalls = 3
    MaxFuel = 0
INVARIANTS
    TypeOK
    IdsDefinedOnce
    MemoTruthful
    OperandsDefined
    NoTwins
    Decorated
    CacheStable
