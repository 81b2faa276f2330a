CONSTANTS
    NULL = NULL
    Names <- MNames
    Extensions <- MPrefixFree
    BuiltinIndex <- MBuiltinIndex
    Programs <- NoPrograms
    Sessions <- BuiltinSessions
    STACK_SIZE = 16
    MAX_FRAMES = 6
    GlobalSlots <- MGlobalSlots
    HasText <- MHasText
    MAX_CONSTANTS = 64
    MAX_SCOPES = 5
SPECIFICATION Spec
INVARIANT
    ValuesAsTested
CHECK_DEADLOCK FALSE
