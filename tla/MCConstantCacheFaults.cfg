SPECIFICATION Spec
CONSTANTS
    Keys = {1, 2}
    Wanted <- MCWanted
    MaxCalls = 2
    MaxFuel = 10
INVARIANTS
    KeysSorted
    MemosDistinct
    LeavesReportFailure
