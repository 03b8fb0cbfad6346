SPECIFICATION Spec
CONSTANTS
    NONE = NONE
    Callers = {c1, c2}
    Tags = {a, b}
    MaxWrites = 2
    MaxInvalidations = 1
SYMMETRY MCSymmetry
INVARIANTS TypeOK HitIsCurrent
PROPERTIES KeepsContract
