SPECIFICATION Spec
CONSTANT
    Room <- MCRoom
INVARIANTS
    TypeOK
    Layout
    OutputOwned
