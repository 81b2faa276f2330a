CONSTANTS
    NULL = NULL
    Names <- MNames
    Extensions <- MPrefixFree
    BuiltinIndex <- MBuiltinIndex
    Programs <- BalancedPrograms
    HasText <- MHasText
    MAX_CONSTANTS = 64
    MAX_SCOPES = 5
SPECIFICATION SpecCompiler
INVARIANTS
    CompilerTypeOK
    LastInstructionTrue
    FunctionsClosed
    CodeVerifies
    OperandsExist
CHECK_DEADLOCK FALSE
