SPECIFICATION Spec
CONSTANTS
    NONE = NONE
    Keys = {k1, k2, k3}
    Tags = {a, b}
    MaxSize = 2
    MaxWrites = 4
    MaxInvalidations = 1
SYMMETRY MCSymmetry
INVARIANTS TypeOK SizeBounded IndexExact
PROPERTIES KeepsContract
