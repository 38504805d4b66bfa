SPECIFICATION Spec
CONSTANTS
    Kinds <- MCKinds
    FirstId = 1
    MaxNodes = 6
    MaxCalls = 2
    MaxFails = 1
INVARIANTS
    TypeOK
    IdsDefinedOnce
    OperandsDefined
    Awaited
    TranslatesExpression
