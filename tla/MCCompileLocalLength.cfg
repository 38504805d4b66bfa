SPECIFICATION Spec
CONSTANTS
    Programs <- MCPrograms
    FirstId = 21
    MaxFails = 1
INVARIANT LocalLength
