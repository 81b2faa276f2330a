CONSTANTS
    NULL = NULL
    Names <- MNames
    Extensions <- MPrefixFree
    BuiltinIndex <- MBuiltinIndex
    Programs <- NoPrograms
    Sessions <- ReturnTest
    STACK_SIZE = 16
    MAX_FRAMES = 6
    GlobalSlots <- MGlobalSlots
    Lines <- ReturnLines
    Settled <- ReturnTest
    HasText <- MHasText
    MAX_CONSTANTS = 64
    MAX_SCOPES = 5
SPECIFICATION SpecEngines
INVARIANT
    DefinedWhereInterpreted
CHECK_DEADLOCK FALSE
