----------------------------- MODULE MCCheckout -----------------------------
(* Instances of Checkout for TLC.  *)
EXTENDS Checkout, Cart, TLC

(* Products 1 and 2 are of one seller, 3 of another; 9 is the id of no row. *)
MCSellerOf == [p \in Product |-> IF p = 3 THEN "another" ELSE "one"]

Row(stock, price) ==
    [stock |-> stock, price |-> price, approved |-> TRUE, active |-> TRUE]

(* Every listing is live, product 1 has one or two units.  *)
Stocked ==
    {[p \in Product |-> IF p = 1 THEN Row(stock, 10) ELSE Row(2, 10)] :
        stock \in {1, 2}}

(* Every listing is live and down to its last unit.  *)
OneInStock == [Product -> {Row(1, 10)}]

(* One product, one product on two lines, two products in either order, a  *)
(* cart of two sellers, an id that names nothing.                          *)
Payloads ==
    {<<Line(1, 1)>>,
     <<Line(2, 1), Line(1, 1)>>,
     <<Line(1, 1), Line(1, 1)>>,
     <<Line(1, 1), Line(3, 1)>>,
     <<Line(9, 1), Line(1, 1)>>}

MCCarts == {Consolidate(items) : items \in Payloads}

(* Two carts that overlap, for the run with writers.  *)
SmallCarts ==
    {Consolidate(items) : items \in {<<Line(1, 1)>>, <<Line(2, 1), Line(1, 1)>>}}
(* Sessions, buyers and order ids are interchangeable.  *)
Symmetry ==
    Permutations(Session) \cup Permutations(Staff)
        \cup Permutations(OrderId) \cup Permutations(Buyer)
=============================================================================
