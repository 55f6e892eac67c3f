\* Two requests at a time over three tokens of two accounts.
SPECIFICATION Spec
CONSTANTS
    User = {u1, u2}
    Jti = {j1, j2, j3}
    NoJti = NoJti
    Request = {r1, r2}
INVARIANTS TypeOK DeadTokensRejected DeliveredWasRegistered BanRevokesEarlier
PROPERTIES LockoutHolds
SYMMETRY Symmetry
