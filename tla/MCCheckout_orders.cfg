\* Buyers only: two sessions, two orders, every kind of cart; no symmetry, because of liveness.
SPECIFICATION FairSpec
CONSTANTS
    Product = {1, 2, 3}
    CartIds = {1, 2, 3, 9}
    SellerOf <- MCSellerOf
    Buyer = {b1, b2}
    OrderId = {o1, o2}
    Carts <- MCCarts
    MaxQuantity = 2
    MaxStock = 2
    Price = {10}
    InitialProduct <- Stocked
    Session = {s1, s2}
    Staff = {}
    PatchStock = {}
INVARIANTS TypeOK NoLockCycle LockedCopiesCurrent MailOnlyPlaced
PROPERTIES RefinesLedger RequestsAnswered
