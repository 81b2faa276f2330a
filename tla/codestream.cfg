CONSTANTS
    Instructions <- AllInstructions
    MaxInstructions = 2
SPECIFICATION Spec
INVARIANTS
    TypeOK
    ListingFaithful
PROPERTY
    ListingEnds
CHECK_DEADLOCK FALSE
