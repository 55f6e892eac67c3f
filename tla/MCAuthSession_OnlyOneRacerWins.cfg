\* Shows that OnlyOneRacerWins does not hold.
SPECIFICATION Spec
CONSTANTS
    User = {u1}
    Jti = {j1, j2, j3}
    NoJti = NoJti
    Request = {r1, r2}
INVARIANTS OnlyOneRacerWins
SYMMETRY Symmetry
