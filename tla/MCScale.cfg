SPECIFICATION Spec
CONSTANTS
    HdrSize = 1
    NodeSize = 2
    Sizes <- MCSizes
    MaxCap = 10
    Data = {d}
    Zero = zero
    Meta = meta
INVARIANTS
    TypeOK
    Linked
    Packed
    RecordsIntact
    IndexFinds
PROPERTY
    ImplementsStack
