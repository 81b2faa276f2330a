CONSTANTS
    CommandLines <- MCommandLines
    Files <- MFiles
    MAX_INPUT = 32
    MAX_SRC_LEN = 16
SPECIFICATION Spec
INVARIANT
    EngineAsDocumented
CHECK_DEADLOCK FALSE
