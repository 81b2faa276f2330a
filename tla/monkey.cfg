CONSTANTS
    NULL = NULL
    Names <- MNames
    Extensions <- MPrefixFree
    BuiltinIndex <- MBuiltinIndex
    Programs <- NoPrograms
    Sessions <- MSessions
    STACK_SIZE = 16
    MAX_FRAMES = 6
    GlobalSlots <- MGlobalSlots
    HasText <- MHasText
    MAX_CONSTANTS = 64
    MAX_SCOPES = 5
SPECIFICATION Spec
INVARIANTS
    TypeOK
    UndefinedOnlyAfterFailure
    FramesNested
    DepthAgrees
PROPERTIES
    EarlierCodeStays
    
    SessionEnds
CHECK_DEADLOCK FALSE
