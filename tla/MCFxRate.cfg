\* Two workers, whose runs overlap by retries and redelivery, and one checkout.
SPECIFICATION Spec
CONSTANTS
    Worker = {w1, w2}
    Session = {s1}
    Quote <- MCQuote
    Damage <- MCDamage
    NaN = NaN
    Infinity = Infinity
    Garbage = Garbage
    NoRate = NoRate
    Fallback = 950
    Scale = 100
    Digit = 2
    MaxAmount = 500
    MaxRate = 600
    Carts <- MCCarts
    Price <- MCPrice
    MaxRetries = 1
    MaxQueued = 1
    MaxPeriods = 5
INVARIANTS TypeOK OrdersReconcile OnlyBadRatesFail RateFresh
SYMMETRY Symmetry
