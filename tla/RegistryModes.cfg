SPECIFICATION RegistrySpec
CONSTANTS
    Names = {n1, n2, n3}
    Funcs = {f1, f2}
    MaxSchedules = 2
SYMMETRY MCSymmetry
CHECK_DEADLOCK FALSE
INVARIANTS WellFormed OneSubmissionMode
