CONSTANTS
    a = a
    ab = ab
    len = len
    NULL = NULL
    Names = {a, len}
    Extensions <- PrefixFree
    BuiltinIndex <- LenIsBuiltin
    MaxDepth = 4
    MaxDefinitions = 2
SPECIFICATION Spec
INVARIANTS
    TypeOK
    SlotsDistinct
    CapturesInRange
    CapturesCurrent
    CaptureChain
PROPERTIES
    NamesStay
    ImplementsLexicalScope
