CONSTANTS
    NULL = NULL
    Names <- MNames
    Extensions <- MPrefixFree
    BuiltinIndex <- MBuiltinIndex
    Programs <- NoPrograms
    Sessions <- MSessions
    STACK_SIZE = 16
    MAX_FRAMES = 6
    GlobalSlots <- MGlobalSlots
    Lines <- MLines
    Settled <- MSettled
    HasText <- MHasText
    MAX_CONSTANTS = 64
    MAX_SCOPES = 5
SPECIFICATION SpecEngines
INVARIANTS
    InterpreterTypeOK
    EnginesAgree
    DefinedWhereInterpreted
PROPERTIES
    ErrorsUnwind
    
    BothEnd
CHECK_DEADLOCK FALSE
