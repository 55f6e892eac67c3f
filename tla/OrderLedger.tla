----------------------------- MODULE OrderLedger -----------------------------
(***************************************************************************)
(* What the order service promises: a checkout, a cancellation and a write *)
(* to a product each happen at one instant, on the rows as they are at     *)
(* that instant.  services/order_service.py implements it with row locks;  *)
(* Checkout.tla models that implementation and is shown to refine this.    *)
(***************************************************************************)
EXTENDS Tables, Integers, FiniteSets

CONSTANTS
    Product,        \* ids of the product rows, ordered as ORDER BY id orders them
    SellerOf,       \* the seller of each product (a column no operation writes)
    Buyer,          \* buyer accounts
    OrderId,        \* ids new orders may take: a bound on their number
    CartIds,        \* ids a cart may name: the product rows and ids of no row
    Carts,          \* consolidated carts: functions from ids to quantities
    MaxQuantity,    \* largest quantity of one product in a cart
    MaxStock,       \* largest stock_quantity: 2^31 - 1 for an INTEGER column
    Price,          \* the prices products may have
    InitialProduct  \* the contents table products may start with

ASSUME ProductAssumption == Product \subseteq Nat /\ IsFiniteSet(Product)
ASSUME OrderIdAssumption == IsFiniteSet(OrderId)
ASSUME MaxAssumption == MaxQuantity \in Nat /\ MaxStock \in Nat

CartTable == UNION {[S -> 1..MaxQuantity] : S \in SUBSET CartIds}

ASSUME CartAssumption == Product \subseteq CartIds /\ Carts \subseteq CartTable

VARIABLES
    product,    \* table products: the columns a checkout reads or a writer sets
    order,      \* table orders with their order_items
    payment     \* table payments, keyed by the order's id

ledgerVars == <<product, order, payment>>

ProductRow ==
    [stock : 0..MaxStock, price : Price, approved : BOOLEAN, active : BOOLEAN]
Item == [quantity : 1..MaxQuantity, unitPrice : Price]
ItemTable == UNION {[S -> Item] : S \in SUBSET Product}
OrderRow ==
    [status : {"PENDING", "PAID", "CANCELLED"}, buyer : Buyer, items : ItemTable]
PaymentRow == [status : {"PENDING", "SUCCESS"}]

ASSUME InitialAssumption == InitialProduct \subseteq [Product -> ProductRow]

LedgerTypeOK ==
    /\ product \in [Product -> ProductRow]
    /\ IsTable(order, OrderId, OrderRow)
    /\ IsTable(payment, OrderId, PaymentRow)

LedgerInit ==
    /\ product \in InitialProduct
    /\ order = EmptyTable
    /\ payment = EmptyTable

Available(p) == product[p].approved /\ product[p].active

(* The cart can be sold as the rows are now.  *)
CanPlace(cart) ==
    /\ DOMAIN cart \subseteq Product
    /\ \A p, q \in DOMAIN cart : SellerOf[p] = SellerOf[q]
    /\ \A p \in DOMAIN cart : Available(p) /\ cart[p] <= product[p].stock

(* The order_items rows: the quantity and the price snapshotted.  *)
ItemsOf(cart) ==
    [p \in DOMAIN cart |->
        [quantity |-> cart[p], unitPrice |-> product[p].price]]

PlaceOrder(o, b, cart) ==
    /\ o \notin DOMAIN order
    /\ CanPlace(cart)
    /\ order' = Insert(order, o,
                       [status |-> "PENDING", buyer |-> b, items |-> ItemsOf(cart)])
    /\ payment' = Insert(payment, o, [status |-> "PENDING"])
    /\ product' = [p \in Product |->
                     IF p \in DOMAIN cart
                     THEN [product[p] EXCEPT !.stock = @ - cart[p]]
                     ELSE product[p]]

CancelOrder(o) ==
    /\ o \in DOMAIN order
    /\ order[o].status = "PENDING"
    /\ LET items == order[o].items
       IN  /\ \A p \in DOMAIN items :
                 product[p].stock + items[p].quantity <= MaxStock
           /\ product' = [p \in Product |->
                            IF p \in DOMAIN items
                            THEN [product[p] EXCEPT !.stock = @ + items[p].quantity]
                            ELSE product[p]]
    /\ order' = [order EXCEPT ![o].status = "CANCELLED"]
    /\ UNCHANGED payment

(* A payment gateway settles a pending order.  *)
SettleOrder(o) ==
    /\ o \in DOMAIN order
    /\ order[o].status = "PENDING"
    /\ order' = [order EXCEPT ![o].status = "PAID"]
    /\ payment' = [payment EXCEPT ![o].status = "SUCCESS"]
    /\ UNCHANGED product

(* A seller or an admin writes columns of one product row.  *)
WriteProduct(p, row) ==
    /\ product' = [product EXCEPT ![p] = row]
    /\ UNCHANGED <<order, payment>>

LedgerNext ==
    \/ \E o \in OrderId, b \in Buyer, cart \in Carts : PlaceOrder(o, b, cart)
    \/ \E o \in OrderId : CancelOrder(o) \/ SettleOrder(o)
    \/ \E p \in Product, row \in ProductRow : WriteProduct(p, row)

LedgerSpec == LedgerInit /\ [][LedgerNext]_ledgerVars
-----------------------------------------------------------------------------
(* Units of p that order o holds: those of every order not cancelled.  *)
UnitsOf(o, p) ==
    IF /\ o \in DOMAIN order
       /\ order[o].status # "CANCELLED"
       /\ p \in DOMAIN order[o].items
    THEN order[o].items[p].quantity
    ELSE 0

(* The units of p the orders hold, one element per unit.  *)
UnitsHeld(p) == {u \in OrderId \X (1..MaxQuantity) : u[2] <= UnitsOf(u[1], p)}

(* Units the shop accounts for: on the shelf or in an order.  *)
Units(p) == product[p].stock + Cardinality(UnitsHeld(p))
=============================================================================
