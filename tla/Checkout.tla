------------------------------ MODULE Checkout ------------------------------
(***************************************************************************)
(* services/order_service.py: create_order and cancel_order as database    *)
(* transactions that take one row lock at a time, interleaved with each    *)
(* other, with the writes of sellers and admins to product rows            *)
(* (services/product_service.py, services/admin_service.py), and with the  *)
(* loss of a request at any point.                                         *)
(*                                                                         *)
(* A row that a transaction has read FOR UPDATE is locked until the        *)
(* transaction ends, so the locks are not a variable: a transaction holds  *)
(* the product rows it has seen, and a cancellation that is past its first *)
(* statement holds its order row.                                          *)
(***************************************************************************)
EXTENDS OrderLedger

CONSTANTS
    Session,        \* database sessions that serve buyers' requests
    Staff,          \* sessions that serve sellers and admins
    PatchStock      \* the values a seller sets stock_quantity to

ASSUME SessionAssumption == IsFiniteSet(Session)
ASSUME PatchAssumption == PatchStock \subseteq 0..MaxStock

VARIABLES
    tx,         \* the transactions of the sessions that serve a buyer
    writer,     \* the transactions of the busy staff sessions
    mailed      \* orders whose confirmation email was queued

vars == <<product, order, payment, tx, writer, mailed>>

(***************************************************************************)
(* A buyer's transaction.  oid is the order being created or cancelled;    *)
(* cart the quantities it moves; seen the ORM copies of the product rows   *)
(* read FOR UPDATE so far.  pc is the statement it is at:                  *)
(*   "order"      cancel: SELECT of the order row FOR UPDATE               *)
(*   "products"   SELECT of the product rows FOR UPDATE, and what follows  *)
(*   "flushed"    checkout: the order is flushed, the commit is next       *)
(*   "committed"  checkout: committed, the email is not yet dispatched     *)
(***************************************************************************)
SeenTable == UNION {[S -> ProductRow] : S \in SUBSET Product}
Tx == [op : {"checkout", "cancel"},
       pc : {"order", "products", "flushed", "committed"},
       buyer : Buyer, oid : OrderId, cart : CartTable, seen : SeenTable]
Writer == [product : Product, loaded : ProductRow, wanted : ProductRow]

TypeOK ==
    /\ LedgerTypeOK
    /\ IsTable(tx, Session, Tx)
    /\ IsTable(writer, Staff, Writer)
    /\ mailed \subseteq OrderId

Init ==
    /\ LedgerInit
    /\ tx = EmptyTable
    /\ writer = EmptyTable
    /\ mailed = {}
-----------------------------------------------------------------------------
(* Row locks.  *)

At(s, op, pc) == s \in DOMAIN tx /\ tx[s].op = op /\ tx[s].pc = pc

HoldsProduct(s, p) == s \in DOMAIN tx /\ p \in DOMAIN tx[s].seen
HoldsOrder(s, o) == At(s, "cancel", "products") /\ tx[s].oid = o

(* Fault: the SELECT without FOR UPDATE.  *)
NoRowLock(p) == TRUE

ProductFree(p) == \A s \in Session : ~HoldsProduct(s, p)
NoOrderLock(o) == TRUE

OrderFree(o) == \A s \in Session : ~HoldsOrder(s, o)

(* Product rows the transaction has still to lock: ids of no row select none. *)
ToLock(s) == (DOMAIN tx[s].cart \cap Product) \ DOMAIN tx[s].seen

(* Fault: the SELECT without ORDER BY.  *)
AnyNext(s, p) == p \in ToLock(s)

(* ORDER BY id: the row locked next.  *)
IsNext(s, p) == p \in ToLock(s) /\ \A q \in ToLock(s) : p <= q

Locked(s, op) == At(s, op, "products") /\ ToLock(s) = {}

(* The request is answered and its session returned to the pool.  *)
Finish(s) == tx' = Delete(tx, s)
-----------------------------------------------------------------------------
(* Checkout.  *)

(* A buyer posts a cart; the id the order will have is fresh.  *)
StartCheckout(s, b, cart, o) ==
    /\ s \notin DOMAIN tx
    /\ o \notin DOMAIN order
    /\ \A r \in DOMAIN tx : ~(tx[r].op = "checkout" /\ tx[r].oid = o)
    /\ tx' = Insert(tx, s, [op |-> "checkout", pc |-> "products", buyer |-> b,
                            oid |-> o, cart |-> cart, seen |-> EmptyTable])
    /\ UNCHANGED <<product, order, payment, writer, mailed>>

(* SELECT ... ORDER BY id FOR UPDATE locks its next row and reads it as it *)
(* is once the lock is granted.  Checkout and cancel share it.             *)
LockProduct(s) ==
    /\ s \in DOMAIN tx
    /\ tx[s].pc = "products"
    /\ \E p \in Product :
         /\ IsNext(s, p)
         /\ ProductFree(p)
         /\ tx' = [tx EXCEPT ![s].seen = Insert(@, p, product[p])]
    /\ UNCHANGED <<product, order, payment, writer, mailed>>

(* Fault: the checks without the one on stock_quantity.  *)
AcceptedUnstocked(s) ==
    /\ DOMAIN tx[s].seen = DOMAIN tx[s].cart
    /\ \A p \in DOMAIN tx[s].seen : tx[s].seen[p].approved /\ tx[s].seen[p].active

(* The checks create_order makes on the rows it has read.  *)
CartAccepted(s) ==
    LET cart == tx[s].cart
        seen == tx[s].seen
    IN  /\ DOMAIN seen = DOMAIN cart
        /\ \A p, q \in DOMAIN seen : SellerOf[p] = SellerOf[q]
        /\ \A p \in DOMAIN seen :
             seen[p].approved /\ seen[p].active /\ cart[p] <= seen[p].stock

(* 404, 422 or 409: the exception rolls the transaction back.  *)
RejectCheckout(s) ==
    /\ Locked(s, "checkout")
    /\ ~CartAccepted(s)
    /\ Finish(s)
    /\ UNCHANGED <<product, order, payment, writer, mailed>>

(* The copies in memory, with the cart taken off their stock.  *)
Decremented(s) ==
    [p \in DOMAIN tx[s].seen |->
        [tx[s].seen[p] EXCEPT !.stock = @ - tx[s].cart[p]]]

(* Fault: the email is dispatched before the commit.  *)
FlushAndMail(s) ==
    /\ Locked(s, "checkout")
    /\ CartAccepted(s)
    /\ tx' = [tx EXCEPT ![s].pc = "flushed", ![s].seen = Decremented(s)]
    /\ mailed' = mailed \cup {tx[s].oid}
    /\ UNCHANGED <<product, order, payment, writer>>

(* The copies are decremented and the order is flushed.  *)
FlushCheckout(s) ==
    /\ Locked(s, "checkout")
    /\ CartAccepted(s)
    /\ tx' = [tx EXCEPT ![s].pc = "flushed", ![s].seen = Decremented(s)]
    /\ UNCHANGED <<product, order, payment, writer, mailed>>

(* Order, items, payment and stock become visible together; locks go.  *)
CommitCheckout(s) ==
    /\ At(s, "checkout", "flushed")
    /\ LET cart == tx[s].cart
           seen == tx[s].seen
           items == [p \in DOMAIN cart |->
                       [quantity |-> cart[p], unitPrice |-> seen[p].price]]
       IN  /\ product' = [p \in Product |->
                            IF p \in DOMAIN seen
                            THEN [product[p] EXCEPT !.stock = seen[p].stock]
                            ELSE product[p]]
           /\ order' = Insert(order, tx[s].oid,
                              [status |-> "PENDING", buyer |-> tx[s].buyer,
                               items |-> items])
           /\ payment' = Insert(payment, tx[s].oid, [status |-> "PENDING"])
    /\ tx' = [tx EXCEPT ![s].pc = "committed", ![s].seen = EmptyTable]
    /\ UNCHANGED <<writer, mailed>>

(* dispatch_task: best effort, a broker outage is swallowed.  *)
DispatchConfirmation(s) ==
    /\ At(s, "checkout", "committed")
    /\ mailed' \in {mailed, mailed \cup {tx[s].oid}}
    /\ Finish(s)
    /\ UNCHANGED <<product, order, payment, writer>>
-----------------------------------------------------------------------------
(* Cancellation.  *)

StartCancel(s, b, o) ==
    /\ s \notin DOMAIN tx
    /\ tx' = Insert(tx, s, [op |-> "cancel", pc |-> "order", buyer |-> b,
                            oid |-> o, cart |-> EmptyTable, seen |-> EmptyTable])
    /\ UNCHANGED <<product, order, payment, writer, mailed>>

(* The WHERE of the first statement.  *)
OwnOrder(s) ==
    tx[s].oid \in DOMAIN order /\ order[tx[s].oid].buyer = tx[s].buyer

(* Fault: the check of the status is missing.  *)
AnyStatus(o) == TRUE

Cancellable(o) == order[o].status = "PENDING"

(* 404 for no order of that id and buyer, 409 for one past PENDING.  *)
RefuseCancel(s) ==
    /\ At(s, "cancel", "order")
    /\ OwnOrder(s) =>
         OrderFree(tx[s].oid) /\ ~Cancellable(tx[s].oid)
    /\ Finish(s)
    /\ UNCHANGED <<product, order, payment, writer, mailed>>

LockOrder(s) ==
    /\ At(s, "cancel", "order")
    /\ OwnOrder(s)
    /\ OrderFree(tx[s].oid)
    /\ Cancellable(tx[s].oid)
    /\ LET items == order[tx[s].oid].items
       IN  tx' = [tx EXCEPT ![s].pc = "products",
                            ![s].cart = [p \in DOMAIN items |-> items[p].quantity]]
    /\ UNCHANGED <<product, order, payment, writer, mailed>>

(* A restored stock_quantity has to fit its INTEGER column.  *)
Restorable(s) ==
    \A p \in DOMAIN tx[s].seen : tx[s].seen[p].stock + tx[s].cart[p] <= MaxStock

CommitCancel(s) ==
    /\ Locked(s, "cancel")
    /\ Restorable(s)
    /\ LET cart == tx[s].cart
           seen == tx[s].seen
       IN  product' = [p \in Product |->
                         IF p \in DOMAIN seen
                         THEN [product[p] EXCEPT !.stock = seen[p].stock + cart[p]]
                         ELSE product[p]]
    /\ order' = [order EXCEPT ![tx[s].oid].status = "CANCELLED"]
    /\ Finish(s)
    /\ UNCHANGED <<payment, writer, mailed>>

(* The UPDATE fails with a numeric overflow: 500, rolled back.  *)
OverflowCancel(s) ==
    /\ Locked(s, "cancel")
    /\ ~Restorable(s)
    /\ Finish(s)
    /\ UNCHANGED <<product, order, payment, writer, mailed>>
-----------------------------------------------------------------------------
(* Faults and the other writers of these rows.  *)

(* The process, the connection or the request dies: PostgreSQL rolls back  *)
(* what was not committed, and what was to follow the commit never runs.   *)
Crash(s) ==
    /\ s \in DOMAIN tx
    /\ Finish(s)
    /\ UNCHANGED <<product, order, payment, writer, mailed>>

(* A payment gateway's callback, which is not part of the repository: it   *)
(* can only write the order row while no cancellation has it locked.       *)
CapturePayment(o) ==
    /\ OrderFree(o)
    /\ SettleOrder(o)
    /\ UNCHANGED <<tx, writer, mailed>>

(* A staff request loads a product row, with no lock, and changes its copy. *)
Load(w, p, wanted) ==
    /\ w \notin DOMAIN writer
    /\ writer' = Insert(writer, w, [product |-> p, loaded |-> product[p],
                                    wanted |-> wanted])
    /\ UNCHANGED <<product, order, payment, tx, mailed>>

(* update_product: any PATCH sends the listing back to moderation.  *)
LoadUpdate(w, p, stock, price) ==
    Load(w, p, [product[p] EXCEPT !.stock = stock, !.price = price,
                                  !.approved = FALSE])

(* delete_product: soft, and nothing to do for an inactive product.  *)
LoadDelete(w, p) ==
    product[p].active /\ Load(w, p, [product[p] EXCEPT !.active = FALSE])

LoadApprove(w, p) ==
    ~product[p].approved /\ Load(w, p, [product[p] EXCEPT !.approved = TRUE])

LoadReject(w, p) == Load(w, p, [product[p] EXCEPT !.approved = FALSE])

(* The UPDATE waits for the row lock, then the transaction commits.  *)
CommitWrite(w) ==
    /\ w \in DOMAIN writer
    /\ LET r == writer[w]
       IN  /\ Dirty(r.loaded, r.wanted) => ProductFree(r.product)
           /\ product' = [product EXCEPT
                            ![r.product] = Flush(@, r.loaded, r.wanted)]
    /\ writer' = Delete(writer, w)
    /\ UNCHANGED <<order, payment, tx, mailed>>

AbortWrite(w) ==
    /\ w \in DOMAIN writer
    /\ writer' = Delete(writer, w)
    /\ UNCHANGED <<product, order, payment, tx, mailed>>
-----------------------------------------------------------------------------
BuyerStart(s) ==
    \/ \E b \in Buyer, cart \in Carts, o \in OrderId : StartCheckout(s, b, cart, o)
    \/ \E b \in Buyer, o \in OrderId : StartCancel(s, b, o)

(* The step a request being served takes next.  *)
BuyerStep(s) ==
    \/ LockProduct(s)
    \/ RejectCheckout(s) \/ FlushCheckout(s) \/ CommitCheckout(s)
    \/ DispatchConfirmation(s)
    \/ RefuseCancel(s) \/ LockOrder(s) \/ CommitCancel(s) \/ OverflowCancel(s)

StaffStart(w) ==
    \E p \in Product :
        \/ \E stock \in PatchStock \cup {product[p].stock}, price \in Price :
              LoadUpdate(w, p, stock, price)
        \/ LoadDelete(w, p)
        \/ LoadApprove(w, p)
        \/ LoadReject(w, p)

Next ==
    \/ \E s \in Session : BuyerStart(s) \/ BuyerStep(s) \/ Crash(s)
    \/ \E o \in OrderId : CapturePayment(o)
    \/ \E w \in Staff : StaffStart(w) \/ CommitWrite(w) \/ AbortWrite(w)

Spec == Init /\ [][Next]_vars

(***************************************************************************)
(* A request being served goes on: the event loop runs every ready task.   *)
(* PostgreSQL queues the waiters of a row, so a request whose row becomes  *)
(* free again and again is granted it: strong fairness.                    *)
(***************************************************************************)
FairSpec == Spec /\ \A s \in Session : SF_vars(BuyerStep(s))
-----------------------------------------------------------------------------
(* Properties.  *)

(* What create_order and cancel_order have read under lock is still the    *)
(* row's value when they commit, whatever sellers, admins and other buyers *)
(* did in between (order_service.py, "Stock locking").                     *)
LockedCopiesCurrent ==
    \A s \in DOMAIN tx : \A p \in DOMAIN tx[s].seen :
        tx[s].seen[p] =
            IF tx[s].pc = "flushed"
            THEN [product[p] EXCEPT !.stock = @ - tx[s].cart[p]]
            ELSE product[p]

(* Session s waits for a row that r has locked.  *)
WaitsFor(s, r) ==
    \/ /\ tx[s].pc = "products"
       /\ \E p \in Product : IsNext(s, p) /\ HoldsProduct(r, p)
    \/ /\ At(s, "cancel", "order")
       /\ OwnOrder(s)
       /\ HoldsOrder(r, tx[s].oid)

(* Checkouts and cancellations never wait for each other in a circle, so   *)
(* PostgreSQL's deadlock detector never has to abort one: locks are taken  *)
(* in ORDER BY id, order rows before product rows (the docstring of        *)
(* create_order, the comment before the second SELECT of cancel_order).    *)
NoLockCycle ==
    \A W \in SUBSET DOMAIN tx :
        W # {} => \E s \in W : \A r \in W : ~WaitsFor(s, r)

(* The units of a product, on the shelf and in orders that are not         *)
(* cancelled, add up to the same number after every checkout, cancellation,*)
(* payment, rejection and crash; only a seller's PATCH that sets a new     *)
(* stock_quantity changes it, and no other write to the row undoes a sale  *)
(* it raced with (the docstring of cancel_order: "an eventual              *)
(* reconciliation pass would find the totals consistent").                 *)
UnitsConserved ==
    [][\A p \in Product :
         Units(p)' # Units(p) =>
           \E w \in Staff : /\ CommitWrite(w)
                           /\ writer[w].product = p
                           /\ writer[w].wanted.stock # writer[w].loaded.stock]_vars

(* The buyer is only mailed about an order that is in the database: the    *)
(* dispatch follows the commit (the end of create_order).                  *)
MailOnlyPlaced == mailed \subseteq DOMAIN order

(* Row by row, the transactions amount to checkouts and cancellations that *)
(* each happen at one instant: nothing is sold that is not approved, active*)
(* and in stock at that instant, at another price than the listed one,     *)
(* across sellers or without its payment row, and no order is cancelled    *)
(* twice or after it was paid.                                             *)
RefinesLedger == LedgerSpec

(* A request being served is answered, though it may have to wait for rows *)
(* that others lock.                                                       *)
RequestsAnswered == \A s \in Session : s \in DOMAIN tx ~> s \notin DOMAIN tx
=============================================================================
