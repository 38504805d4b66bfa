SPECIFICATION Spec
CONSTANTS
    Keys = {1, 2}
    Wanted <- MCWanted
    MaxCalls = 2
    MaxFuel = 0
INVARIANT
    CachesAll
