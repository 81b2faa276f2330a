CONSTANTS
    NULL = NULL
    Names <- MNames
    Extensions <- MPrefixFree
    BuiltinIndex <- MBuiltinIndex
    Programs <- NoPrograms
    Sessions <- EndlessRecursion
    STACK_SIZE = 16
    MAX_FRAMES = 8
    GlobalSlots <- MGlobalSlots
    HasText <- MHasText
    MAX_CONSTANTS = 64
    MAX_SCOPES = 5
SPECIFICATION Spec
INVARIANT
    OverflowReported
CHECK_DEADLOCK FALSE
