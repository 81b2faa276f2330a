CONSTANTS
    Unset = Unset
    MAX_ERRORS = 4
    ERR_MSG_LEN = 35
    MaxDepth = 10
    MAX_SRC_LEN = 400
    MAX_IDENTIFIER_LEN = 9
    MAX_STR_LEN = 13
    MAX_STMT_STR_LEN = 40
    Sources <- MSources
SPECIFICATION Spec
INVARIANTS
    TypeOK
    NullReported
    AcceptedIsWhole
    ReadsBack
    FindsTheTree
PROPERTY
    Ends
CHECK_DEADLOCK FALSE
