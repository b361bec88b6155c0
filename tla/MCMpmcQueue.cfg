SPECIFICATION Spec
CONSTANTS
    Producers = {p1, p2}
    Consumers = {c1, c2}
    Values = {a, b}
    NoValue = NoValue
    Size = 2
    MaxEnqueues = 3
SYMMETRY ThreadSymmetry
INVARIANTS
    TypeOK
    NoDataRace
    CountInRange
    Ownership
PROPERTIES
    DeclinesJustified
    ImplementsFifo
