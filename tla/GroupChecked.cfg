SPECIFICATION SpecQ
CONSTANTS
    Q = 113
    WordQ = 128
    WordBits = 7
INVARIANTS
    TypeOK
    ResidueExact
PROPERTY OnlyNegatedZeroUnreduced
