SPECIFICATION Spec
CONSTANTS
    Kinds <- MCOperators
    FirstId = 1
    MaxNodes = 5
    MaxCalls = 1
    MaxFails = 0
INVARIANT
    SuccessTranslates
