\* Three sellers, on pages of one or of two; accounts and numbers are interchangeable.
SPECIFICATION Spec
CONSTANTS
    Account = {a1, a2, a3}
    Address <- MCAddress
    Lower <- MCLower
    Brn = {n1, n2, n3}
    NoBrn = NoBrn
    PageSizes = {1, 2}
    MaxClock = 2
INVARIANTS TypeOK AccountsWhole RefusedOnlyForTaken WalkComplete
SYMMETRY Symmetry
CHECK_DEADLOCK FALSE
