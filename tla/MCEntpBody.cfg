SPECIFICATION Spec
CONSTANTS
    Kernels = 2
    Params <- MCParams
    Names = {1}
    MaxStmts = 3
    MaxId = 13
    MaxFails = 1
INVARIANTS
    TypeOK
    WindowKeysDistinct
    
    BranchTargetsDefined
    VariablesDeclared
    BlocksClosed
