SPECIFICATION Spec
CONSTANTS
    Words = 19
    Limit = 9
    Operands <- MCOperands
    Lengths <- MCLengths
INVARIANTS
    TypeOK
    WithinAllocation
    Tiled
PROPERTY
    ImplementsLog
