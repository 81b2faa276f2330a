CONSTANTS
    NULL = NULL
    Names <- MNames
    Extensions <- MPrefixFree
    BuiltinIndex <- MBuiltinIndex
    Programs <- FloodPrograms
    HasText <- MHasText
    MAX_CONSTANTS = 64
    MAX_SCOPES = 5
SPECIFICATION SpecCompiler
INVARIANT
    CodeKept
CHECK_DEADLOCK FALSE
