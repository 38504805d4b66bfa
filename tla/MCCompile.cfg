SPECIFICATION FairSpec
CONSTANTS
    Programs <- MCPrograms
    FirstId = 21
    MaxFails = 1
INVARIANTS
    TypeOK
    EntryIdsAgree
    IdsUnique
    ParamsBound
    InterfacesDeclared
PROPERTY
    Delivers
