\* Two buyers' sessions and one seller or admin on one product row.
SPECIFICATION Spec
CONSTANTS
    Product = {1}
    CartIds = {1, 2}
    SellerOf <- MCSellerOf
    Buyer = {b1}
    OrderId = {o1, o2}
    Carts <- SmallCarts
    MaxQuantity = 1
    MaxStock = 2
    Price = {10, 20}
    InitialProduct <- OneInStock
    Session = {s1, s2}
    Staff = {w1}
    PatchStock = {0, 2}
PROPERTIES RefinesLedger UnitsConserved
SYMMETRY Symmetry
