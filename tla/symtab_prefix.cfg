CONSTANTS
    a = a
    ab = ab
    len = len
    NULL = NULL
    Names = {a, ab, len}
    Extensions <- AExtendedByAb
    BuiltinIndex <- LenIsBuiltin
    MaxDepth = 3
    MaxDefinitions = 2
SPECIFICATION Spec
PROPERTY
    NamesStay
