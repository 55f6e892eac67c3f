-------------------------------- MODULE Cart --------------------------------
(***************************************************************************)
(* _consolidate_cart of services/order_service.py: the lines a client      *)
(* posts, a product possibly on several of them, become one quantity per   *)
(* product.                                                                *)
(***************************************************************************)
EXTENDS Integers, FiniteSets, Sequences, SequencesExt

Line(id, quantity) == [product |-> id, quantity |-> quantity]

(* dict.get(id, 0)  *)
Get(consolidated, id) ==
    IF id \in DOMAIN consolidated THEN consolidated[id] ELSE 0

(* One pass of the loop over the lines.  *)
AddLine(consolidated, item) ==
    [id \in DOMAIN consolidated \cup {item.product} |->
        IF id = item.product
        THEN Get(consolidated, id) + item.quantity
        ELSE consolidated[id]]

Consolidate(items) == FoldLeft(AddLine, [id \in {} |-> 0], items)
=============================================================================
