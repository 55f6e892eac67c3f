--------------------------- MODULE Checkout_proofs ---------------------------
(***************************************************************************)
(* Proofs about Checkout, for any number of products, buyers, sessions and *)
(* orders.  The inductive invariant IInv says what one transaction knows   *)
(* (Sound) and that two transactions never know the same row (Apart).      *)
(***************************************************************************)
EXTENDS Checkout, TLAPS, FiniteSetTheorems, WellFoundedInduction

(***************************************************************************)
(* The ledger neither loses nor invents units of stock.  The proof counts  *)
(* the units an order holds one by one: UnitsHeld gains or loses exactly   *)
(* the block {o} \X 1..n of an order o that holds n units.                 *)
(***************************************************************************)
Block(o, n) == {o} \X (1..n)

(* A block of n units has n members.                                       *)
LEMMA BlockSize ==
    ASSUME NEW o, NEW n \in Nat
    PROVE  IsFiniteSet(Block(o, n)) /\ Cardinality(Block(o, n)) = n
<1>1. IsFiniteSet({o}) /\ Cardinality({o}) = 1
  BY FS_Singleton
<1>2. IsFiniteSet(1..n) /\ Cardinality(1..n) = n
  BY FS_Interval
<1>3. /\ IsFiniteSet({o} \X (1..n))
      /\ Cardinality({o} \X (1..n)) = Cardinality({o}) * Cardinality(1..n)
  BY <1>1, <1>2, FS_Product
<1>4. Cardinality({o} \X (1..n)) = 1 * n
  BY <1>1, <1>2, <1>3
<1> QED
  BY <1>3, <1>4 DEF Block

(* The units of a product that orders hold are finitely many.              *)
LEMMA HeldFinite ==
    ASSUME NEW p
    PROVE  IsFiniteSet(UnitsHeld(p)) /\ Cardinality(UnitsHeld(p)) \in Nat
<1>1. IsFiniteSet(1..MaxQuantity)
  BY FS_Interval, MaxAssumption
<1>2. IsFiniteSet(OrderId \X (1..MaxQuantity))
  BY <1>1, OrderIdAssumption, FS_Product
<1>3. UnitsHeld(p) \in SUBSET (OrderId \X (1..MaxQuantity))
  BY DEF UnitsHeld
<1> QED
  BY <1>2, <1>3, FS_Subset, FS_CardinalityType

(* Adding a disjoint block of n elements adds n.  *)
LEMMA AddBlock ==
    ASSUME NEW S, IsFiniteSet(S), NEW o, NEW n \in Nat,
           S \cap Block(o, n) = {}
    PROVE  Cardinality(S \cup Block(o, n)) = Cardinality(S) + n
<1>1. Cardinality(S \cap Block(o, n)) = 0
  BY FS_EmptySet
<1>2. Cardinality(S) \in Nat
  BY FS_CardinalityType
<1>3. IsFiniteSet(Block(o, n)) /\ Cardinality(Block(o, n)) = n
  BY BlockSize
<1>4. Cardinality(S \cup Block(o, n)) =
        Cardinality(S) + Cardinality(Block(o, n)) - Cardinality(S \cap Block(o, n))
  BY <1>3, FS_Union
<1> QED
  BY <1>1, <1>2, <1>3, <1>4

(* The units an order holds of a product: a quantity of its items.  *)
LEMMA UnitsOfTyped ==
    ASSUME LedgerTypeOK, NEW o, NEW p
    PROVE  UnitsOf(o, p) \in 0..MaxQuantity
<1>1. CASE o \in DOMAIN order /\ p \in DOMAIN order[o].items
  <2>1. order[o].items \in ItemTable
    BY <1>1 DEF LedgerTypeOK, IsTable, OrderRow
  <2>2. order[o].items[p].quantity \in 1..MaxQuantity
    BY <1>1, <2>1 DEF ItemTable, Item
  <2> QED
    BY <2>2, MaxAssumption DEF UnitsOf
<1>2. CASE ~(o \in DOMAIN order /\ p \in DOMAIN order[o].items)
  BY <1>2, MaxAssumption DEF UnitsOf
<1> QED
  BY <1>1, <1>2

(* Placing an order moves units from the shelf to the order.               *)
LEMMA PlaceConserves ==
    ASSUME LedgerTypeOK, NEW o \in OrderId, NEW b \in Buyer, NEW cart \in Carts,
           PlaceOrder(o, b, cart), NEW p \in Product
    PROVE  Units(p)' = Units(p)
<1> DEFINE n == IF p \in DOMAIN cart THEN cart[p] ELSE 0
<1>1. n \in 0..MaxQuantity
  BY CartAssumption, MaxAssumption DEF CartTable
<1>2. order' = Insert(order, o, [status |-> "PENDING", buyer |-> b,
                                 items |-> ItemsOf(cart)])
      /\ o \notin DOMAIN order
  BY DEF PlaceOrder
<1>3. UnitsOf(o, p) = 0 /\ UnitsOf(o, p)' = n
  BY <1>2 DEF UnitsOf, Insert, ItemsOf
<1>4. ASSUME NEW q \in OrderId, q # o PROVE UnitsOf(q, p)' = UnitsOf(q, p)
  BY <1>2, <1>4 DEF UnitsOf, Insert
<1> HIDE DEF n
<1>5. UnitsHeld(p)' = UnitsHeld(p) \cup Block(o, n)
  BY <1>1, <1>3, <1>4, MaxAssumption DEF UnitsHeld, Block
<1>6. UnitsHeld(p) \cap Block(o, n) = {}
  BY <1>1, <1>3, MaxAssumption DEF UnitsHeld, Block
<1>7. Cardinality(UnitsHeld(p)') = Cardinality(UnitsHeld(p)) + n
  BY <1>1, <1>5, <1>6, HeldFinite, AddBlock, MaxAssumption
<1>8. product'[p].stock = product[p].stock - n /\ product[p].stock \in Nat
  BY MaxAssumption DEF PlaceOrder, LedgerTypeOK, ProductRow, n
<1> QED
  BY <1>1, <1>7, <1>8, HeldFinite, MaxAssumption DEF Units

(* Cancelling a pending order puts its units back on the shelf.            *)
LEMMA CancelConserves ==
    ASSUME LedgerTypeOK, NEW o \in OrderId, CancelOrder(o), NEW p \in Product
    PROVE  Units(p)' = Units(p)
<1> DEFINE n == UnitsOf(o, p)
<1>1. n \in 0..MaxQuantity
  BY UnitsOfTyped
<1>2. /\ o \in DOMAIN order /\ order[o].status = "PENDING"
      /\ order' = [order EXCEPT ![o] = [order[o] EXCEPT !.status = "CANCELLED"]]
      /\ order[o] \in OrderRow
  BY DEF CancelOrder, LedgerTypeOK, IsTable
<1>3. UnitsOf(o, p)' = 0
  BY <1>2 DEF UnitsOf, OrderRow
<1>4. ASSUME NEW q \in OrderId, q # o PROVE UnitsOf(q, p)' = UnitsOf(q, p)
  BY <1>2, <1>4 DEF UnitsOf
<1>5. UnitsHeld(p) = UnitsHeld(p)' \cup Block(o, n)
  <2> HIDE DEF n
  <2>1. \A q \in OrderId : q # o => UnitsOf(q, p)' = UnitsOf(q, p)
    BY <1>4
  <2>2. UnitsOf(o, p) = n
    BY DEF n
  <2> QED
    BY <1>1, <1>3, <2>1, <2>2, MaxAssumption DEF UnitsHeld, Block
<1>6. UnitsHeld(p)' \cap Block(o, n) = {}
  <2> HIDE DEF n
  <2> QED
    BY <1>1, <1>3, MaxAssumption DEF UnitsHeld, Block
<1>7. IsFiniteSet(UnitsHeld(p)') /\ Cardinality(UnitsHeld(p)') \in Nat
  <2>1. UnitsHeld(p)' \in SUBSET UnitsHeld(p)
    BY <1>5
  <2> QED
    BY <2>1, HeldFinite, FS_Subset, FS_CardinalityType
<1>8. Cardinality(UnitsHeld(p)) = Cardinality(UnitsHeld(p)') + n
  <2>1. n \in Nat
    BY <1>1, MaxAssumption
  <2> HIDE DEF n
  <2>2. Cardinality(UnitsHeld(p)' \cup Block(o, n)) = Cardinality(UnitsHeld(p)') + n
    BY <1>6, <1>7, <2>1, AddBlock
  <2> QED
    BY <1>5, <2>2
<1>9. product'[p].stock = product[p].stock + n /\ product[p].stock \in Nat
  BY <1>2, MaxAssumption DEF CancelOrder, LedgerTypeOK, ProductRow, UnitsOf
<1> QED
  BY <1>1, <1>7, <1>8, <1>9, MaxAssumption DEF Units

(* Paying for an order leaves its units where they are.                    *)
LEMMA SettleConserves ==
    ASSUME LedgerTypeOK, NEW o \in OrderId, SettleOrder(o), NEW p \in Product
    PROVE  Units(p)' = Units(p)
<1>1. /\ o \in DOMAIN order /\ order[o].status = "PENDING"
      /\ order' = [order EXCEPT ![o] = [order[o] EXCEPT !.status = "PAID"]]
      /\ order[o] \in OrderRow
  BY DEF SettleOrder, LedgerTypeOK, IsTable
<1>2. ASSUME NEW q \in OrderId PROVE UnitsOf(q, p)' = UnitsOf(q, p)
  BY <1>1 DEF UnitsOf, OrderRow
<1>3. UnitsHeld(p)' = UnitsHeld(p)
  BY <1>2 DEF UnitsHeld
<1> QED
  BY <1>3 DEF SettleOrder, Units
-----------------------------------------------------------------------------
(* The transactions.  *)

(* A cart, and the rows a session has seen, begin as the empty table ...  *)
LEMMA EmptyFunction ==
    ASSUME NEW ids, NEW rows
    PROVE  EmptyTable \in UNION {[S -> rows] : S \in SUBSET ids}
<1>1. EmptyTable \in [{} -> rows]
  BY DEF EmptyTable
<1>2. {} \in SUBSET ids
  OBVIOUS
<1> QED
  BY <1>1, <1>2

(* ... and gains a row.  *)
LEMMA InsertFunction ==
    ASSUME NEW ids, NEW rows, NEW f \in UNION {[S -> rows] : S \in SUBSET ids},
           NEW id \in ids, NEW row \in rows
    PROVE  Insert(f, id, row) \in UNION {[S -> rows] : S \in SUBSET ids}
<1>1. Insert(f, id, row) \in [DOMAIN f \cup {id} -> rows]
  BY DEF Insert
<1>2. DOMAIN f \cup {id} \in SUBSET ids
  OBVIOUS
<1> QED
  BY <1>1, <1>2

(* What holds of a transaction record t, whatever the others do.  *)
StatementOrder(t) ==
    /\ t.op = "checkout" => t.pc # "order"
    /\ t.op = "cancel" => t.pc \in {"order", "products"}
    /\ t.pc \in {"order", "committed"} => DOMAIN t.seen = {}

(* The rows locked are the first ones of the cart, in the order of ids.  *)
LocksAscend(t) ==
    /\ DOMAIN t.seen \subseteq DOMAIN t.cart
    /\ \A p \in DOMAIN t.seen :
         \A q \in (DOMAIN t.cart \cap Product) \ DOMAIN t.seen : p < q

CopiesCurrent(t) ==
    \A p \in DOMAIN t.seen :
        t.seen[p] = IF t.pc = "flushed"
                    THEN [product[p] EXCEPT !.stock = @ - t.cart[p]]
                    ELSE product[p]

(* A flushed checkout passed its checks, and they still hold.  *)
StillPlaceable(t) ==
    t.pc = "flushed" => DOMAIN t.seen = DOMAIN t.cart /\ CanPlace(t.cart)

(* The order of a checkout exists once it is committed.  *)
CheckoutOrder(t) ==
    t.op = "checkout" =>
        /\ t.cart \in Carts
        /\ (t.pc = "committed") <=> (t.oid \in DOMAIN order)

(* The order of a cancellation past its first statement is still pending.  *)
CancelledOrder(t) ==
    (t.op = "cancel" /\ t.pc = "products") =>
        /\ t.oid \in DOMAIN order
        /\ order[t.oid].status = "PENDING"
        /\ DOMAIN t.cart = DOMAIN order[t.oid].items
        /\ \A p \in DOMAIN t.cart : t.cart[p] = order[t.oid].items[p].quantity

Sound(t) ==
    /\ StatementOrder(t)
    /\ LocksAscend(t)
    /\ CopiesCurrent(t)
    /\ StillPlaceable(t)
    /\ CheckoutOrder(t)
    /\ CancelledOrder(t)

(* Two transactions lock different product rows, cancel different orders   *)
(* and create different ones.                                              *)
Apart(t, u) ==
    /\ DOMAIN t.seen \cap DOMAIN u.seen = {}
    /\ (t.op = "cancel" /\ t.pc = "products" /\ u.op = "cancel" /\ u.pc = "products")
         => t.oid # u.oid
    /\ (t.op = "checkout" /\ u.op = "checkout") => t.oid # u.oid

IInv ==
    /\ TypeOK
    /\ \A s \in DOMAIN tx : Sound(tx[s])
    /\ \A s, r \in DOMAIN tx : s # r => Apart(tx[s], tx[r])
    /\ MailOnlyPlaced
-----------------------------------------------------------------------------
(* A step that changes no row and at most the transaction of s keeps IInv  *)
(* if it leaves s sound and apart from the others.                         *)
LEMMA OneSession ==
    ASSUME IInv, NEW s \in Session,
           UNCHANGED <<product, order, payment>>,
           IsTable(tx', Session, Tx),
           \A r \in DOMAIN tx' \ {s} : r \in DOMAIN tx /\ tx'[r] = tx[r],
           s \in DOMAIN tx' =>
               /\ Sound(tx'[s])
               /\ \A r \in DOMAIN tx \ {s} : Apart(tx'[s], tx[r]),
           IsTable(writer', Staff, Writer),
           mailed' \subseteq DOMAIN order, mailed' \subseteq OrderId
    PROVE  IInv'
<1>1. TypeOK'
  BY DEF IInv, TypeOK, LedgerTypeOK
<1>2. \A r \in DOMAIN tx' : Sound(tx'[r])
  BY DEF IInv
<1>3. (\A r \in DOMAIN tx : Sound(tx[r]))'
  BY <1>2 DEF Sound, StatementOrder, LocksAscend, CopiesCurrent, StillPlaceable,
              CheckoutOrder, CancelledOrder, CanPlace, Available
<1>4. \A q, r \in DOMAIN tx' : q # r => Apart(tx'[q], tx'[r])
  BY DEF IInv, Apart
<1>5. MailOnlyPlaced'
  BY DEF MailOnlyPlaced
<1> QED
  BY <1>1, <1>3, <1>4, <1>5 DEF IInv, Apart

(* The transaction of a request that ends takes nothing with it.  *)
LEMMA FinishKeeps ==
    ASSUME IInv, NEW s \in Session, Finish(s),
           UNCHANGED <<product, order, payment>>,
           IsTable(writer', Staff, Writer),
           mailed' \subseteq DOMAIN order, mailed' \subseteq OrderId
    PROVE  IInv'
<1>1. IsTable(tx', Session, Tx)
  BY DEF IsTable, Delete, Finish, IInv, TypeOK
<1>2. /\ s \notin DOMAIN tx'
      /\ \A r \in DOMAIN tx' \ {s} : r \in DOMAIN tx /\ tx'[r] = tx[r]
  BY DEF Delete, Finish
<1> QED
  BY <1>1, <1>2, OneSession
-----------------------------------------------------------------------------
(* InitI keeps the inductive invariant.                                    *)
LEMMA InitIInv == Init => IInv
<1> SUFFICES ASSUME Init PROVE IInv
  OBVIOUS
<1>1. TypeOK
  BY InitialAssumption DEF IsTable, EmptyTable, Init, LedgerInit, TypeOK, LedgerTypeOK
<1>2. DOMAIN tx = {} /\ MailOnlyPlaced
  BY DEF IsTable, EmptyTable, Init, MailOnlyPlaced
<1> QED
  BY <1>1, <1>2 DEF IInv

(* StartCheckout keeps the inductive invariant.                            *)
LEMMA StartCheckoutKeeps ==
    ASSUME IInv, NEW s \in Session, NEW b \in Buyer, NEW cart \in Carts,
           NEW o \in OrderId, StartCheckout(s, b, cart, o)
    PROVE  IInv'
<1> DEFINE t == [op |-> "checkout", pc |-> "products", buyer |-> b,
                 oid |-> o, cart |-> cart, seen |-> EmptyTable]
<1>1. EmptyTable \in SeenTable
  BY EmptyFunction DEF SeenTable
<1>2. t \in Tx
  BY <1>1, CartAssumption DEF Tx
<1>3. tx' = Insert(tx, s, t)
  BY DEF StartCheckout
<1>4. IsTable(tx', Session, Tx)
  BY <1>2, <1>3 DEF IsTable, Insert, IInv, TypeOK
<1>5. /\ tx'[s] = t
      /\ \A r \in DOMAIN tx' \ {s} : r \in DOMAIN tx /\ tx'[r] = tx[r]
  <2> HIDE DEF t
  <2> QED
    BY <1>3 DEF Insert
<1>6. DOMAIN t.seen = {}
  BY DEF IsTable, EmptyTable
<1>7. Sound(t)
  BY <1>6 DEF StartCheckout, Sound, StatementOrder, LocksAscend, CopiesCurrent,
              StillPlaceable, CheckoutOrder, CancelledOrder
<1>8. \A r \in DOMAIN tx \ {s} : Apart(t, tx[r])
  BY <1>6 DEF StartCheckout, Apart
<1>9. /\ UNCHANGED <<product, order, payment, writer, mailed>>
      /\ mailed \subseteq DOMAIN order /\ mailed \subseteq OrderId
      /\ IsTable(writer, Staff, Writer)
  BY DEF StartCheckout, IInv, MailOnlyPlaced, TypeOK
<1> HIDE DEF t
<1> QED
  BY <1>4, <1>5, <1>7, <1>8, <1>9, OneSession

(* What TypeOK says of one transaction.  *)
LEMMA TxTyped ==
    ASSUME IInv, NEW s \in DOMAIN tx
    PROVE  /\ s \in Session
           /\ tx[s] \in Tx
           /\ tx[s].cart \in [DOMAIN tx[s].cart -> 1..MaxQuantity]
           /\ DOMAIN tx[s].seen \subseteq Product
           /\ tx[s].seen \in [DOMAIN tx[s].seen -> ProductRow]
           /\ Sound(tx[s])
<1>1. s \in Session /\ tx[s] \in Tx /\ Sound(tx[s])
  BY DEF IInv, TypeOK, IsTable
<1>2. tx[s].cart \in CartTable /\ tx[s].seen \in SeenTable
  BY <1>1 DEF Tx
<1> QED
  BY <1>1, <1>2 DEF CartTable, SeenTable

(* An UPDATE of one transaction, as OneSession wants it.  *)
LEMMA UpdateKeeps ==
    ASSUME IInv, NEW s \in DOMAIN tx, NEW t \in Tx,
           tx' = [tx EXCEPT ![s] = t],
           UNCHANGED <<product, order, payment, writer>>,
           mailed' = mailed,
           Sound(t),
           \A r \in DOMAIN tx \ {s} : Apart(t, tx[r])
    PROVE  IInv'
<1>1. IsTable(tx', Session, Tx) /\ IsTable(writer', Staff, Writer)
  BY DEF IsTable, IInv, TypeOK
<1>2. /\ tx'[s] = t
      /\ \A r \in DOMAIN tx' \ {s} : r \in DOMAIN tx /\ tx'[r] = tx[r]
  OBVIOUS
<1>3. mailed' \subseteq DOMAIN order /\ mailed' \subseteq OrderId
  BY DEF IInv, MailOnlyPlaced, TypeOK
<1>4. s \in Session
  BY TxTyped
<1> QED
  BY <1>1, <1>2, <1>3, <1>4, OneSession

(* LockProduct keeps the inductive invariant.                              *)
LEMMA LockProductKeeps ==
    ASSUME IInv, NEW s \in Session, LockProduct(s)
    PROVE  IInv'
<1>1. s \in DOMAIN tx /\ tx[s].pc = "products"
  BY DEF LockProduct
<1>2. PICK p \in Product :
        /\ IsNext(s, p)
        /\ ProductFree(p)
        /\ tx' = [tx EXCEPT ![s].seen = Insert(@, p, product[p])]
  BY DEF LockProduct
<1> DEFINE u == tx[s]
           t == [u EXCEPT !.seen = Insert(u.seen, p, product[p])]
<1>3. product[p] \in ProductRow
  BY DEF IInv, TypeOK, LedgerTypeOK
<1>4. Insert(u.seen, p, product[p]) \in SeenTable
  <2>1. u.seen \in SeenTable
    BY <1>1, TxTyped DEF Tx
  <2> QED
    BY <1>3, <2>1, InsertFunction DEF SeenTable
<1>5. t \in Tx
  BY <1>1, <1>4, TxTyped DEF Tx
<1>6. /\ t.op = u.op /\ t.pc = u.pc /\ t.oid = u.oid /\ t.cart = u.cart
      /\ t.seen = Insert(u.seen, p, product[p])
  BY <1>1, TxTyped DEF Tx
<1>7. /\ DOMAIN t.seen = DOMAIN u.seen \cup {p}
      /\ t.seen[p] = product[p]
      /\ \A q \in DOMAIN u.seen \ {p} : t.seen[q] = u.seen[q]
  <2> HIDE DEF t
  <2> QED
    BY <1>6 DEF Insert
<1>8. p \in DOMAIN u.cart /\ p \notin DOMAIN u.seen
      /\ \A q \in ToLock(s) : p <= q
  BY <1>2 DEF IsNext, ToLock
<1>9. Sound(t)
  <2> HIDE DEF t
  <2>1. StatementOrder(t) /\ CheckoutOrder(t) /\ CancelledOrder(t) /\ StillPlaceable(t)
    BY <1>1, <1>6, TxTyped
    DEF Sound, StatementOrder, CheckoutOrder, CancelledOrder, StillPlaceable
  <2>2. CopiesCurrent(t)
    BY <1>1, <1>6, <1>7, TxTyped DEF Sound, CopiesCurrent
  <2>3. LocksAscend(t)
    <3>1. LocksAscend(u)
      BY <1>1, TxTyped DEF Sound
    <3>2. DOMAIN t.seen \subseteq DOMAIN t.cart
      BY <1>6, <1>7, <1>8, <3>1 DEF LocksAscend
    <3>3. ASSUME NEW a \in DOMAIN t.seen,
                 NEW q \in (DOMAIN t.cart \cap Product) \ DOMAIN t.seen
          PROVE  a < q
      <4>1. q \in ToLock(s) /\ q # p /\ q \in Nat /\ p \in Nat
        BY <1>6, <1>7, ProductAssumption DEF ToLock
      <4>2. CASE a = p
        BY <1>8, <4>1, <4>2
      <4>3. CASE a \in DOMAIN u.seen
        BY <1>6, <1>7, <3>1, <4>3 DEF LocksAscend
      <4> QED
        BY <1>7, <4>2, <4>3
    <3> QED
      BY <3>2, <3>3 DEF LocksAscend
  <2> QED
    BY <2>1, <2>2, <2>3 DEF Sound
<1>10. \A r \in DOMAIN tx \ {s} : Apart(t, tx[r])
  <2> HIDE DEF t
  <2> TAKE r \in DOMAIN tx \ {s}
  <2>1. r \in Session /\ p \notin DOMAIN tx[r].seen
    BY <1>2, TxTyped DEF ProductFree, HoldsProduct
  <2>2. Apart(u, tx[r])
    BY <1>1 DEF IInv
  <2> QED
    BY <1>6, <1>7, <2>1, <2>2 DEF Apart
<1>11. tx' = [tx EXCEPT ![s] = t] /\ UNCHANGED <<product, order, payment, writer, mailed>>
  BY <1>1, <1>2 DEF LockProduct
<1> HIDE DEF t
<1> QED
  BY <1>1, <1>5, <1>9, <1>10, <1>11, UpdateKeeps

(* End keeps the inductive invariant.                                      *)
LEMMA EndKeeps ==
    ASSUME IInv, NEW s \in Session,
           RejectCheckout(s) \/ RefuseCancel(s) \/ OverflowCancel(s) \/ Crash(s)
    PROVE  IInv'
<1>1. Finish(s) /\ UNCHANGED <<product, order, payment, writer, mailed>>
  BY DEF RejectCheckout, RefuseCancel, OverflowCancel, Crash
<1>2. IsTable(writer, Staff, Writer) /\ mailed \subseteq DOMAIN order
      /\ mailed \subseteq OrderId
  BY DEF IInv, TypeOK, MailOnlyPlaced
<1> QED
  BY <1>1, <1>2, FinishKeeps

(* DispatchConfirmation keeps the inductive invariant.                     *)
LEMMA DispatchConfirmationKeeps ==
    ASSUME IInv, NEW s \in Session, DispatchConfirmation(s)
    PROVE  IInv'
<1>1. s \in DOMAIN tx /\ tx[s].op = "checkout" /\ tx[s].pc = "committed"
  BY DEF DispatchConfirmation, At
<1>2. tx[s].oid \in DOMAIN order /\ tx[s].oid \in OrderId
  BY <1>1, TxTyped DEF Sound, CheckoutOrder, Tx
<1>3. /\ IsTable(writer', Staff, Writer)
      /\ mailed' \subseteq DOMAIN order /\ mailed' \subseteq OrderId
  BY <1>2 DEF DispatchConfirmation, IInv, TypeOK, MailOnlyPlaced
<1>4. Finish(s) /\ UNCHANGED <<product, order, payment>>
  BY DEF DispatchConfirmation
<1> QED
  BY <1>3, <1>4, FinishKeeps

(* FlushCheckout keeps the inductive invariant.                            *)
LEMMA FlushCheckoutKeeps ==
    ASSUME IInv, NEW s \in Session, FlushCheckout(s)
    PROVE  IInv'
<1> DEFINE u == tx[s]
           sold == [p \in DOMAIN u.seen |->
                      [u.seen[p] EXCEPT !.stock = @ - u.cart[p]]]
           t == [u EXCEPT !.pc = "flushed", !.seen = sold]
<1>1. /\ s \in DOMAIN tx /\ u.op = "checkout" /\ u.pc = "products"
      /\ ToLock(s) = {} /\ CartAccepted(s)
  BY DEF FlushCheckout, Locked, At
<1>2. /\ u \in Tx /\ Sound(u)
      /\ u.cart \in [DOMAIN u.cart -> 1..MaxQuantity]
      /\ DOMAIN u.seen \subseteq Product
      /\ u.seen \in [DOMAIN u.seen -> ProductRow]
  BY <1>1, TxTyped
<1>3. /\ DOMAIN u.seen = DOMAIN u.cart
      /\ \A p \in DOMAIN u.seen : u.seen[p] = product[p]
      /\ \A p \in DOMAIN u.seen : u.cart[p] <= u.seen[p].stock
  BY <1>1, <1>2 DEF CartAccepted, Sound, CopiesCurrent
<1>4. sold \in SeenTable
  <2>1. ASSUME NEW p \in DOMAIN u.seen
        PROVE  [u.seen[p] EXCEPT !.stock = @ - u.cart[p]] \in ProductRow
    <3>1. u.seen[p].stock \in 0..MaxStock /\ u.cart[p] \in 1..MaxQuantity
      BY <1>2, <1>3 DEF ProductRow
    <3>2. u.seen[p].stock - u.cart[p] \in 0..MaxStock
      BY <1>3, <3>1, MaxAssumption
    <3> QED
      BY <1>2, <3>2 DEF ProductRow
  <2>2. sold \in [DOMAIN u.seen -> ProductRow]
    BY <2>1
  <2> QED
    BY <1>2, <2>2 DEF SeenTable
<1>5. t \in Tx
  BY <1>2, <1>4 DEF Tx
<1>6. /\ t.op = u.op /\ t.pc = "flushed" /\ t.oid = u.oid /\ t.cart = u.cart
      /\ t.seen = sold /\ DOMAIN t.seen = DOMAIN u.seen
  BY <1>2 DEF Tx
<1>7. \A p \in DOMAIN t.seen :
        t.seen[p] = [product[p] EXCEPT !.stock = @ - t.cart[p]]
  BY <1>3, <1>6
<1>8. CanPlace(t.cart)
  BY <1>1, <1>2, <1>3, <1>6 DEF CartAccepted, CanPlace, Available
<1>9. tx' = [tx EXCEPT ![s] = t] /\ UNCHANGED <<product, order, payment, writer, mailed>>
  BY <1>1 DEF FlushCheckout, Decremented
<1> HIDE DEF t, sold
<1>10. Sound(t)
  <2>1. StatementOrder(t) /\ CheckoutOrder(t) /\ CancelledOrder(t) /\ LocksAscend(t)
    BY <1>1, <1>2, <1>6
    DEF Sound, StatementOrder, CheckoutOrder, CancelledOrder, LocksAscend
  <2>2. CopiesCurrent(t)
    BY <1>6, <1>7 DEF CopiesCurrent
  <2>3. StillPlaceable(t)
    BY <1>3, <1>6, <1>8 DEF StillPlaceable
  <2> QED
    BY <2>1, <2>2, <2>3 DEF Sound
<1>11. \A r \in DOMAIN tx \ {s} : Apart(t, tx[r])
  BY <1>1, <1>6 DEF IInv, Apart
<1> QED
  BY <1>1, <1>5, <1>9, <1>10, <1>11, UpdateKeeps

(* StartCancel keeps the inductive invariant.                              *)
LEMMA StartCancelKeeps ==
    ASSUME IInv, NEW s \in Session, NEW b \in Buyer, NEW o \in OrderId,
           StartCancel(s, b, o)
    PROVE  IInv'
<1> DEFINE t == [op |-> "cancel", pc |-> "order", buyer |-> b,
                 oid |-> o, cart |-> EmptyTable, seen |-> EmptyTable]
<1>1. EmptyTable \in SeenTable /\ EmptyTable \in CartTable
  BY EmptyFunction DEF SeenTable, CartTable
<1>2. t \in Tx
  BY <1>1 DEF Tx
<1>3. tx' = Insert(tx, s, t)
  BY DEF StartCancel
<1>4. IsTable(tx', Session, Tx)
  BY <1>2, <1>3 DEF IsTable, Insert, IInv, TypeOK
<1>5. /\ tx'[s] = t
      /\ \A r \in DOMAIN tx' \ {s} : r \in DOMAIN tx /\ tx'[r] = tx[r]
  <2> HIDE DEF t
  <2> QED
    BY <1>3 DEF Insert
<1>6. DOMAIN t.seen = {} /\ t.op = "cancel" /\ t.pc = "order"
  BY DEF IsTable, EmptyTable
<1> HIDE DEF t
<1>7. Sound(t)
  BY <1>6 DEF Sound, StatementOrder, LocksAscend, CopiesCurrent,
              StillPlaceable, CheckoutOrder, CancelledOrder
<1>8. \A r \in DOMAIN tx \ {s} : Apart(t, tx[r])
  BY <1>6 DEF Apart
<1>9. /\ UNCHANGED <<product, order, payment, writer, mailed>>
      /\ mailed \subseteq DOMAIN order /\ mailed \subseteq OrderId
      /\ IsTable(writer, Staff, Writer)
  BY DEF StartCancel, IInv, MailOnlyPlaced, TypeOK
<1> QED
  BY <1>4, <1>5, <1>7, <1>8, <1>9, OneSession

(* What TypeOK says of one order.  *)
LEMMA OrderTyped ==
    ASSUME IInv, NEW o \in DOMAIN order
    PROVE  /\ o \in OrderId
           /\ order[o] \in OrderRow
           /\ DOMAIN order[o].items \subseteq Product
           /\ order[o].items \in [DOMAIN order[o].items -> Item]
<1>1. o \in OrderId /\ order[o] \in OrderRow
  BY DEF IInv, TypeOK, LedgerTypeOK, IsTable
<1>2. order[o].items \in ItemTable
  BY <1>1 DEF OrderRow
<1> QED
  BY <1>1, <1>2 DEF ItemTable

(* LockOrder keeps the inductive invariant.                                *)
LEMMA LockOrderKeeps ==
    ASSUME IInv, NEW s \in Session, LockOrder(s)
    PROVE  IInv'
<1> DEFINE u == tx[s]
           items == order[u.oid].items
           quantities == [p \in DOMAIN items |-> items[p].quantity]
           t == [u EXCEPT !.pc = "products", !.cart = quantities]
<1>1. /\ s \in DOMAIN tx /\ u.op = "cancel" /\ u.pc = "order"
      /\ u.oid \in DOMAIN order /\ order[u.oid].status = "PENDING"
      /\ OrderFree(u.oid)
  BY DEF LockOrder, At, OwnOrder, Cancellable
<1>2. u \in Tx /\ Sound(u)
  BY <1>1, TxTyped
<1>3. quantities \in CartTable
  <2>1. quantities \in [DOMAIN items -> 1..MaxQuantity]
    BY <1>1, OrderTyped DEF Item
  <2>2. DOMAIN items \subseteq CartIds
    BY <1>1, OrderTyped, CartAssumption
  <2> QED
    BY <2>1, <2>2 DEF CartTable
<1>4. t \in Tx
  BY <1>2, <1>3 DEF Tx
<1>5. /\ t.op = "cancel" /\ t.pc = "products" /\ t.oid = u.oid
      /\ t.cart = quantities /\ t.seen = u.seen /\ DOMAIN t.seen = {}
  BY <1>1, <1>2 DEF Tx, Sound, StatementOrder
<1>6. /\ DOMAIN t.cart = DOMAIN order[t.oid].items
      /\ \A p \in DOMAIN t.cart : t.cart[p] = order[t.oid].items[p].quantity
  BY <1>5
<1>7. tx' = [tx EXCEPT ![s] = t] /\ UNCHANGED <<product, order, payment, writer, mailed>>
  BY <1>1 DEF LockOrder
<1> HIDE DEF t, quantities
<1>8. Sound(t)
  BY <1>1, <1>5, <1>6
  DEF Sound, StatementOrder, LocksAscend, CopiesCurrent, StillPlaceable,
      CheckoutOrder, CancelledOrder
<1>9. \A r \in DOMAIN tx \ {s} : Apart(t, tx[r])
  <2> TAKE r \in DOMAIN tx \ {s}
  <2>1. r \in Session /\ ~HoldsOrder(r, u.oid)
    BY <1>1, TxTyped DEF OrderFree
  <2> QED
    BY <1>5, <2>1 DEF Apart, HoldsOrder, At
<1> QED
  BY <1>1, <1>4, <1>7, <1>8, <1>9, UpdateKeeps

-----------------------------------------------------------------------------
(* Steps that write rows.  A transaction whose rows are not among those    *)
(* written stays sound.                                                    *)
LEMMA Undisturbed ==
    ASSUME IInv, NEW r \in DOMAIN tx, tx'[r] = tx[r],
           \A p \in DOMAIN tx[r].seen : product'[p] = product[p],
           tx[r].op = "checkout" =>
               (tx[r].oid \in DOMAIN order' <=> tx[r].oid \in DOMAIN order),
           (tx[r].op = "cancel" /\ tx[r].pc = "products") =>
               /\ tx[r].oid \in DOMAIN order'
               /\ order'[tx[r].oid] = order[tx[r].oid]
    PROVE  Sound(tx[r])'
<1>1. Sound(tx[r])
  BY DEF IInv
<1>2. StatementOrder(tx[r])' /\ LocksAscend(tx[r])'
  BY <1>1 DEF Sound, StatementOrder, LocksAscend
<1>3. CopiesCurrent(tx[r])'
  BY <1>1 DEF Sound, CopiesCurrent
<1>4. StillPlaceable(tx[r])'
  BY <1>1 DEF Sound, StillPlaceable, CanPlace, Available
<1>5. CheckoutOrder(tx[r])'
  BY <1>1 DEF Sound, CheckoutOrder
<1>6. CancelledOrder(tx[r])'
  BY <1>1 DEF Sound, CancelledOrder
<1> QED
  BY <1>2, <1>3, <1>4, <1>5, <1>6 DEF Sound

(* A product row changed by a sale or a cancellation stays in its type.  *)
LEMMA StockTyped ==
    ASSUME NEW row \in ProductRow, NEW n \in 0..MaxStock
    PROVE  [row EXCEPT !.stock = n] \in ProductRow
BY DEF ProductRow

(* CommitCheckout keeps the inductive invariant.                           *)
LEMMA CommitCheckoutKeeps ==
    ASSUME IInv, NEW s \in Session, CommitCheckout(s)
    PROVE  IInv'
<1> DEFINE u == tx[s]
           items == [p \in DOMAIN u.cart |->
                       [quantity |-> u.cart[p], unitPrice |-> u.seen[p].price]]
           row == [status |-> "PENDING", buyer |-> u.buyer, items |-> items]
           t == [u EXCEPT !.pc = "committed", !.seen = EmptyTable]
<1>1. s \in DOMAIN tx /\ u.op = "checkout" /\ u.pc = "flushed"
  BY DEF CommitCheckout, At
<1>2. /\ u \in Tx /\ Sound(u)
      /\ u.cart \in [DOMAIN u.cart -> 1..MaxQuantity]
      /\ DOMAIN u.seen \subseteq Product
      /\ u.seen \in [DOMAIN u.seen -> ProductRow]
      /\ DOMAIN u.seen = DOMAIN u.cart
      /\ u.oid \in OrderId /\ u.oid \notin DOMAIN order /\ u.buyer \in Buyer
  BY <1>1, TxTyped DEF Sound, StillPlaceable, CheckoutOrder, Tx
<1>3. row \in OrderRow
  <2>1. items \in [DOMAIN u.cart -> Item]
    BY <1>2 DEF Item, ProductRow
  <2>2. items \in ItemTable
    BY <1>2, <2>1 DEF ItemTable
  <2> HIDE DEF items
  <2> QED
    BY <1>2, <2>2 DEF OrderRow
<1>4. order' = Insert(order, u.oid, row)
  BY DEF CommitCheckout
<1>5. product' = [p \in Product |-> IF p \in DOMAIN u.seen
                                    THEN [product[p] EXCEPT !.stock = u.seen[p].stock]
                                    ELSE product[p]]
  BY DEF CommitCheckout
<1>6. EmptyTable \in SeenTable
  BY EmptyFunction DEF SeenTable
<1>7. t \in Tx
  BY <1>2, <1>6 DEF Tx
<1>8. /\ t.op = "checkout" /\ t.pc = "committed" /\ t.oid = u.oid
      /\ t.cart = u.cart /\ DOMAIN t.seen = {}
  BY <1>1, <1>2 DEF IsTable, EmptyTable, Tx
<1>9. tx' = [tx EXCEPT ![s] = t]
  BY <1>1 DEF CommitCheckout
<1> HIDE DEF row, items, t
<1>10. TypeOK'
  <2>1. product' \in [Product -> ProductRow]
    <3>1. ASSUME NEW p \in DOMAIN u.seen
          PROVE  [product[p] EXCEPT !.stock = u.seen[p].stock] \in ProductRow
      <4>1. product[p] \in ProductRow /\ u.seen[p].stock \in 0..MaxStock
        BY <1>2 DEF IInv, TypeOK, LedgerTypeOK, ProductRow
      <4> QED
        BY <4>1, StockTyped
    <3> QED
      BY <1>5, <3>1 DEF IInv, TypeOK, LedgerTypeOK
  <2>2. IsTable(order', OrderId, OrderRow)
    BY <1>2, <1>3, <1>4 DEF IsTable, Insert, IInv, TypeOK, LedgerTypeOK
  <2>3. IsTable(payment', OrderId, PaymentRow)
    BY <1>2 DEF IsTable, Insert, CommitCheckout, IInv, TypeOK, LedgerTypeOK, PaymentRow
  <2>4. IsTable(tx', Session, Tx)
    BY <1>7, <1>9 DEF IsTable, IInv, TypeOK
  <2> QED
    BY <2>1, <2>2, <2>3, <2>4 DEF CommitCheckout, IInv, TypeOK, LedgerTypeOK
<1>11. /\ DOMAIN order' = DOMAIN order \cup {u.oid}
       /\ \A o \in DOMAIN order : order'[o] = order[o]
  BY <1>2, <1>4 DEF Insert
<1>12. tx'[s] = t /\ DOMAIN tx' = DOMAIN tx /\ \A r \in DOMAIN tx \ {s} : tx'[r] = tx[r]
  BY <1>1, <1>9
<1>13. Sound(tx[s])'
  BY <1>1, <1>2, <1>8, <1>11, <1>12
  DEF Sound, StatementOrder, LocksAscend, CopiesCurrent, StillPlaceable,
      CheckoutOrder, CancelledOrder
<1>14. ASSUME NEW r \in DOMAIN tx, r # s PROVE Sound(tx[r])'
  <2>1. Apart(u, tx[r])
    BY <1>1, <1>14 DEF IInv
  <2>2. Sound(tx[r])
    BY DEF IInv
  <2>3. \A p \in DOMAIN tx[r].seen : product'[p] = product[p]
    <3>1. DOMAIN tx[r].seen \subseteq Product
      BY TxTyped
    <3> QED
      BY <1>5, <2>1, <3>1 DEF Apart
  <2>4. tx[r].op = "checkout" =>
          (tx[r].oid \in DOMAIN order' <=> tx[r].oid \in DOMAIN order)
    BY <1>1, <1>11, <2>1 DEF Apart
  <2>5. (tx[r].op = "cancel" /\ tx[r].pc = "products") =>
          tx[r].oid \in DOMAIN order' /\ order'[tx[r].oid] = order[tx[r].oid]
    BY <1>11, <2>2 DEF Sound, CancelledOrder
  <2> QED
    BY <1>12, <1>14, <2>3, <2>4, <2>5, Undisturbed
<1>15. (\A r \in DOMAIN tx : Sound(tx[r]))'
  <2>1. ASSUME NEW r \in DOMAIN tx' PROVE Sound(tx[r])'
    <3>1. CASE r = s
      BY <1>13, <3>1
    <3>2. CASE r # s
      BY <1>12, <1>14, <3>2
    <3> QED
      BY <3>1, <3>2
  <2> QED
    BY <2>1
<1>16. \A q, r \in DOMAIN tx' : q # r => Apart(tx'[q], tx'[r])
  BY <1>1, <1>8, <1>12 DEF IInv, Apart
<1>17. MailOnlyPlaced'
  BY <1>11 DEF CommitCheckout, IInv, MailOnlyPlaced
<1> QED
  BY <1>10, <1>15, <1>16, <1>17 DEF IInv, Apart

(* CommitCancel keeps the inductive invariant.                             *)
LEMMA CommitCancelKeeps ==
    ASSUME IInv, NEW s \in Session, CommitCancel(s)
    PROVE  IInv'
<1> DEFINE u == tx[s]
<1>1. /\ s \in DOMAIN tx /\ u.op = "cancel" /\ u.pc = "products"
      /\ ToLock(s) = {} /\ Restorable(s)
  BY DEF CommitCancel, Locked, At
<1>2. /\ u \in Tx /\ Sound(u)
      /\ u.cart \in [DOMAIN u.cart -> 1..MaxQuantity]
      /\ DOMAIN u.seen \subseteq Product
      /\ DOMAIN u.seen \subseteq DOMAIN u.cart
      /\ u.seen \in [DOMAIN u.seen -> ProductRow]
      /\ u.oid \in DOMAIN order /\ order[u.oid].status = "PENDING"
  BY <1>1, TxTyped DEF Sound, CancelledOrder, LocksAscend
<1>3. product' = [p \in Product |->
                    IF p \in DOMAIN u.seen
                    THEN [product[p] EXCEPT !.stock = u.seen[p].stock + u.cart[p]]
                    ELSE product[p]]
  BY DEF CommitCancel
<1>4. order' = [order EXCEPT ![u.oid] = [order[u.oid] EXCEPT !.status = "CANCELLED"]]
  BY DEF CommitCancel
<1>5. TypeOK'
  <2>1. product' \in [Product -> ProductRow]
    <3>1. ASSUME NEW p \in DOMAIN u.seen
          PROVE  [product[p] EXCEPT !.stock = u.seen[p].stock + u.cart[p]]
                   \in ProductRow
      <4>1. product[p] \in ProductRow /\ u.seen[p].stock \in 0..MaxStock
            /\ u.cart[p] \in 1..MaxQuantity
        BY <1>2 DEF IInv, TypeOK, LedgerTypeOK, ProductRow
      <4>2. u.seen[p].stock + u.cart[p] <= MaxStock
        BY <1>1 DEF Restorable
      <4>3. u.seen[p].stock + u.cart[p] \in 0..MaxStock
        BY <4>1, <4>2, MaxAssumption
      <4> QED
        BY <4>1, <4>3, StockTyped
    <3> QED
      BY <1>3, <3>1 DEF IInv, TypeOK, LedgerTypeOK
  <2>2. IsTable(order', OrderId, OrderRow)
    <3>1. [order[u.oid] EXCEPT !.status = "CANCELLED"] \in OrderRow
      BY <1>2, OrderTyped DEF OrderRow
    <3> QED
      BY <1>4, <3>1 DEF IsTable, IInv, TypeOK, LedgerTypeOK
  <2>3. IsTable(tx', Session, Tx)
    BY DEF IsTable, Delete, CommitCancel, Finish, IInv, TypeOK
  <2> QED
    BY <2>1, <2>2, <2>3 DEF CommitCancel, IInv, TypeOK, LedgerTypeOK
<1>6. DOMAIN order' = DOMAIN order /\ \A o \in DOMAIN order \ {u.oid} : order'[o] = order[o]
  BY <1>4
<1>7. DOMAIN tx' = DOMAIN tx \ {s} /\ \A r \in DOMAIN tx' : tx'[r] = tx[r]
  BY DEF Delete, CommitCancel, Finish
<1>8. ASSUME NEW r \in DOMAIN tx' PROVE Sound(tx[r])'
  <2>1. r \in DOMAIN tx /\ Apart(u, tx[r])
    BY <1>1, <1>7 DEF IInv
  <2>2. Sound(tx[r])
    BY <2>1 DEF IInv
  <2>3. \A p \in DOMAIN tx[r].seen : product'[p] = product[p]
    <3>1. DOMAIN tx[r].seen \subseteq Product
      BY <2>1, TxTyped
    <3> QED
      BY <1>3, <2>1, <3>1 DEF Apart
  <2>4. (tx[r].op = "cancel" /\ tx[r].pc = "products") =>
          tx[r].oid \in DOMAIN order' /\ order'[tx[r].oid] = order[tx[r].oid]
    BY <1>1, <1>6, <2>1, <2>2 DEF Apart, Sound, CancelledOrder
  <2> QED
    BY <1>6, <1>7, <2>1, <2>3, <2>4, Undisturbed
<1>9. \A q, r \in DOMAIN tx' : q # r => Apart(tx'[q], tx'[r])
  BY <1>7 DEF IInv
<1>10. MailOnlyPlaced'
  BY <1>6 DEF CommitCancel, IInv, MailOnlyPlaced
<1> QED
  BY <1>5, <1>8, <1>9, <1>10 DEF IInv, Apart

(* CapturePayment keeps the inductive invariant.                           *)
LEMMA CapturePaymentKeeps ==
    ASSUME IInv, NEW o \in OrderId, CapturePayment(o)
    PROVE  IInv'
<1>1. /\ o \in DOMAIN order /\ OrderFree(o)
      /\ order' = [order EXCEPT ![o] = [order[o] EXCEPT !.status = "PAID"]]
      /\ payment' = [payment EXCEPT ![o].status = "SUCCESS"]
      /\ UNCHANGED <<product, tx, writer, mailed>>
  BY DEF CapturePayment, SettleOrder
<1>2. TypeOK'
  <2>1. [order[o] EXCEPT !.status = "PAID"] \in OrderRow
    BY <1>1, OrderTyped DEF OrderRow
  <2>2. IsTable(order', OrderId, OrderRow)
    BY <1>1, <2>1 DEF IsTable, IInv, TypeOK, LedgerTypeOK
  <2>3. IsTable(payment, OrderId, PaymentRow)
    BY DEF IInv, TypeOK, LedgerTypeOK
  <2>4. IsTable(payment', OrderId, PaymentRow)
    <3>1. CASE o \in DOMAIN payment
      <4>1. [payment[o] EXCEPT !.status = "SUCCESS"] \in PaymentRow
        BY <2>3, <3>1 DEF IsTable, PaymentRow
      <4>2. payment' = [payment EXCEPT ![o] = [payment[o] EXCEPT !.status = "SUCCESS"]]
        BY <1>1
      <4> QED
        BY <2>3, <4>1, <4>2 DEF IsTable
    <3>2. CASE o \notin DOMAIN payment
      BY <1>1, <2>3, <3>2 DEF IsTable
    <3> QED
      BY <3>1, <3>2
  <2> QED
    BY <1>1, <2>2, <2>4 DEF IInv, TypeOK, LedgerTypeOK
<1>3. DOMAIN order' = DOMAIN order /\ \A q \in DOMAIN order \ {o} : order'[q] = order[q]
  BY <1>1
<1>4. ASSUME NEW r \in DOMAIN tx PROVE Sound(tx[r])'
  <2>1. r \in Session /\ Sound(tx[r]) /\ ~HoldsOrder(r, o)
    BY <1>1, TxTyped DEF OrderFree
  <2>2. (tx[r].op = "cancel" /\ tx[r].pc = "products") =>
          tx[r].oid \in DOMAIN order' /\ order'[tx[r].oid] = order[tx[r].oid]
    BY <1>3, <2>1 DEF HoldsOrder, At, Sound, CancelledOrder
  <2>3. tx'[r] = tx[r] /\ \A p \in DOMAIN tx[r].seen : product'[p] = product[p]
    BY <1>1
  <2> QED
    BY <1>3, <2>2, <2>3, Undisturbed
<1>5. MailOnlyPlaced'
  BY <1>1, <1>3 DEF IInv, MailOnlyPlaced
<1> QED
  BY <1>1, <1>2, <1>4, <1>5 DEF IInv, Apart
-----------------------------------------------------------------------------
(* Staff.  *)

(* Load keeps the inductive invariant.                                     *)
LEMMA LoadKeeps ==
    ASSUME IInv, NEW w \in Staff, NEW p \in Product, NEW wanted \in ProductRow,
           Load(w, p, wanted)
    PROVE  IInv'
<1>1. [product |-> p, loaded |-> product[p], wanted |-> wanted] \in Writer
  BY DEF Writer, IInv, TypeOK, LedgerTypeOK
<1>2. IsTable(writer', Staff, Writer)
  BY <1>1 DEF IsTable, Insert, Load, IInv, TypeOK
<1> QED
  BY <1>2 DEF Load, IInv, TypeOK, LedgerTypeOK, Sound, StatementOrder, LocksAscend,
     CopiesCurrent, StillPlaceable, CanPlace, Available, CheckoutOrder,
     CancelledOrder, Apart, MailOnlyPlaced

(* StaffStart keeps the inductive invariant.                               *)
LEMMA StaffStartKeeps ==
    ASSUME IInv, NEW w \in Staff, StaffStart(w)
    PROVE  IInv'
<1>1. PICK p \in Product :
        \/ \E stock \in PatchStock \cup {product[p].stock}, price \in Price :
             LoadUpdate(w, p, stock, price)
        \/ LoadDelete(w, p)
        \/ LoadApprove(w, p)
        \/ LoadReject(w, p)
  BY DEF StaffStart
<1>2. product[p] \in ProductRow /\ product[p].stock \in 0..MaxStock
  BY DEF IInv, TypeOK, LedgerTypeOK, ProductRow
<1>3. PICK wanted \in ProductRow : Load(w, p, wanted)
  <2>1. ASSUME NEW stock \in PatchStock \cup {product[p].stock}, NEW price \in Price,
               LoadUpdate(w, p, stock, price)
        PROVE  \E wanted \in ProductRow : Load(w, p, wanted)
    <3>1. stock \in 0..MaxStock
      BY <1>2, PatchAssumption
    <3>2. [product[p] EXCEPT !.stock = stock, !.price = price, !.approved = FALSE]
            \in ProductRow
      BY <1>2, <3>1 DEF ProductRow
    <3> QED
      BY <2>1, <3>2 DEF LoadUpdate
  <2>2. /\ [product[p] EXCEPT !.active = FALSE] \in ProductRow
        /\ [product[p] EXCEPT !.approved = TRUE] \in ProductRow
        /\ [product[p] EXCEPT !.approved = FALSE] \in ProductRow
    BY <1>2 DEF ProductRow
  <2> QED
    BY <1>1, <2>1, <2>2 DEF LoadDelete, LoadApprove, LoadReject
<1> QED
  BY <1>3, LoadKeeps

(* An UPDATE of typed rows gives a typed row; one with no column changes   *)
(* nothing.                                                                *)
LEMMA FlushTyped ==
    ASSUME NEW row \in ProductRow, NEW loaded \in ProductRow, NEW wanted \in ProductRow
    PROVE  /\ Flush(row, loaded, wanted) \in ProductRow
           /\ ~Dirty(loaded, wanted) => Flush(row, loaded, wanted) = row
<1>1. /\ DOMAIN row = {"stock", "price", "approved", "active"}
      /\ DOMAIN loaded = {"stock", "price", "approved", "active"}
  BY DEF ProductRow
<1>2. Flush(row, loaded, wanted) =
        [stock |-> IF wanted.stock # loaded.stock THEN wanted.stock ELSE row.stock,
         price |-> IF wanted.price # loaded.price THEN wanted.price ELSE row.price,
         approved |-> IF wanted.approved # loaded.approved
                      THEN wanted.approved ELSE row.approved,
         active |-> IF wanted.active # loaded.active
                    THEN wanted.active ELSE row.active]
  BY <1>1 DEF Flush
<1>3. Flush(row, loaded, wanted) \in ProductRow
  BY <1>2 DEF ProductRow
<1>4. ~Dirty(loaded, wanted) => Flush(row, loaded, wanted) = row
  BY <1>1 DEF Dirty, Flush, ProductRow
<1> QED
  BY <1>3, <1>4

(* CommitWrite keeps the inductive invariant.                              *)
LEMMA CommitWriteKeeps ==
    ASSUME IInv, NEW w \in Staff, CommitWrite(w)
    PROVE  IInv'
<1> DEFINE r == writer[w]
           row == Flush(product[r.product], r.loaded, r.wanted)
<1>1. /\ w \in DOMAIN writer /\ r \in Writer
      /\ r.product \in Product /\ r.loaded \in ProductRow /\ r.wanted \in ProductRow
      /\ product \in [Product -> ProductRow]
  BY DEF CommitWrite, IInv, TypeOK, LedgerTypeOK, IsTable, Writer
<1>2. row \in ProductRow /\ (~Dirty(r.loaded, r.wanted) => row = product[r.product])
  BY <1>1, FlushTyped
<1>3. /\ product' = [product EXCEPT ![r.product] = row]
      /\ Dirty(r.loaded, r.wanted) => ProductFree(r.product)
      /\ UNCHANGED <<order, payment, tx, mailed>>
      /\ writer' = Delete(writer, w)
  BY DEF CommitWrite
<1> HIDE DEF row
<1>4. TypeOK'
  BY <1>1, <1>2, <1>3 DEF IsTable, Delete, IInv, TypeOK, LedgerTypeOK
<1>5. ASSUME NEW s \in DOMAIN tx PROVE Sound(tx[s])'
  <2>1. s \in Session /\ DOMAIN tx[s].seen \subseteq Product
    BY TxTyped
  <2>2. \A p \in DOMAIN tx[s].seen : product'[p] = product[p]
    BY <1>1, <1>2, <1>3, <2>1 DEF ProductFree, HoldsProduct
  <2>3. Sound(tx[s])
    BY DEF IInv
  <2> QED
    BY <1>3, <2>2, <2>3, Undisturbed DEF Sound, CancelledOrder
<1>6. MailOnlyPlaced'
  BY <1>3 DEF IInv, MailOnlyPlaced
<1> QED
  BY <1>3, <1>4, <1>5, <1>6 DEF IInv, Apart

(* AbortWrite keeps the inductive invariant.                               *)
LEMMA AbortWriteKeeps ==
    ASSUME IInv, NEW w \in Staff, AbortWrite(w)
    PROVE  IInv'
<1>1. IsTable(writer', Staff, Writer)
  BY DEF IsTable, Delete, AbortWrite, IInv, TypeOK
<1> QED
  BY <1>1 DEF AbortWrite, IInv, TypeOK, LedgerTypeOK, Sound, StatementOrder,
     LocksAscend, CopiesCurrent, StillPlaceable, CanPlace, Available, CheckoutOrder,
     CancelledOrder, Apart, MailOnlyPlaced

-----------------------------------------------------------------------------
(* Every step keeps the inductive invariant.                               *)
LEMMA NextKeeps == IInv /\ [Next]_vars => IInv'
<1> SUFFICES ASSUME IInv, [Next]_vars PROVE IInv'
  OBVIOUS
<1>1. CASE UNCHANGED vars
  BY <1>1 DEF vars, IInv, TypeOK, LedgerTypeOK, Sound, StatementOrder, LocksAscend,
     CopiesCurrent, StillPlaceable, CanPlace, Available, CheckoutOrder,
     CancelledOrder, Apart, MailOnlyPlaced
<1>2. ASSUME NEW s \in Session, BuyerStart(s) PROVE IInv'
  BY <1>2, StartCheckoutKeeps, StartCancelKeeps DEF BuyerStart
<1>3. ASSUME NEW s \in Session, BuyerStep(s) PROVE IInv'
  BY <1>3, LockProductKeeps, EndKeeps, FlushCheckoutKeeps, CommitCheckoutKeeps,
     DispatchConfirmationKeeps, LockOrderKeeps, CommitCancelKeeps DEF BuyerStep
<1>4. ASSUME NEW s \in Session, Crash(s) PROVE IInv'
  BY <1>4, EndKeeps
<1>5. ASSUME NEW o \in OrderId, CapturePayment(o) PROVE IInv'
  BY <1>5, CapturePaymentKeeps
<1>6. ASSUME NEW w \in Staff, StaffStart(w) \/ CommitWrite(w) \/ AbortWrite(w)
      PROVE  IInv'
  BY <1>6, StaffStartKeeps, CommitWriteKeeps, AbortWriteKeeps
<1> QED
  BY <1>1, <1>2, <1>3, <1>4, <1>5, <1>6 DEF Next

(* The inductive invariant holds of every reachable state. *)
THEOREM Invariance == Spec => []IInv
<1>1. Init => IInv
  BY InitIInv
<1>2. IInv /\ [Next]_vars => IInv'
  BY NextKeeps
<1> QED
  BY <1>1, <1>2, PTL DEF Spec

(* Every variable keeps its type, stock_quantity its column's range: no    *)
(* interleaving makes it negative (the CHECK of models/product.py never    *)
(* fires) or too large for its INTEGER column.                             *)
THEOREM TypeCorrect == Spec => []TypeOK
<1>1. IInv => TypeOK
  BY DEF IInv
<1> QED
  BY <1>1, Invariance, PTL

(* What a checkout or a cancellation read under lock is what the row holds *)
(* until it commits.                                                       *)
THEOREM CopiesStayCurrent == Spec => []LockedCopiesCurrent
<1>1. IInv => LockedCopiesCurrent
  BY DEF IInv, Sound, CopiesCurrent, LockedCopiesCurrent
<1> QED
  BY <1>1, Invariance, PTL

(* No confirmation is queued for an order that was rolled back.  *)
THEOREM MailFollowsCommit == Spec => []MailOnlyPlaced
<1>1. IInv => MailOnlyPlaced
  BY DEF IInv
<1> QED
  BY <1>1, Invariance, PTL
-----------------------------------------------------------------------------
(* Refinement: a commit is the ledger's step, every other step changes no  *)
(* row.                                                                    *)

(* A checkout that commits places an order of the ledger.                  *)
LEMMA CommitCheckoutPlaces ==
    ASSUME IInv, NEW s \in Session, CommitCheckout(s)
    PROVE  PlaceOrder(tx[s].oid, tx[s].buyer, tx[s].cart)
<1> DEFINE u == tx[s]
<1>1. s \in DOMAIN tx /\ u.op = "checkout" /\ u.pc = "flushed"
  BY DEF CommitCheckout, At
<1>2. /\ u \in Tx /\ Sound(u)
      /\ DOMAIN u.seen \subseteq Product /\ DOMAIN u.seen = DOMAIN u.cart
      /\ CanPlace(u.cart) /\ u.oid \notin DOMAIN order
  BY <1>1, TxTyped DEF Sound, StillPlaceable, CheckoutOrder
<1>3. \A p \in DOMAIN u.cart :
        /\ product[p] \in ProductRow
        /\ u.seen[p] = [product[p] EXCEPT !.stock = @ - u.cart[p]]
  BY <1>1, <1>2 DEF Sound, CopiesCurrent, IInv, TypeOK, LedgerTypeOK
<1>4. \A p \in DOMAIN u.cart :
        /\ u.seen[p].price = product[p].price
        /\ u.seen[p].stock = product[p].stock - u.cart[p]
  BY <1>3 DEF ProductRow
<1>5. [p \in DOMAIN u.cart |->
         [quantity |-> u.cart[p], unitPrice |-> u.seen[p].price]] = ItemsOf(u.cart)
  BY <1>4 DEF ItemsOf
<1>6. product' = [p \in Product |->
                    IF p \in DOMAIN u.cart
                    THEN [product[p] EXCEPT !.stock = @ - u.cart[p]]
                    ELSE product[p]]
  <2>1. product' = [p \in Product |->
                      IF p \in DOMAIN u.seen
                      THEN [product[p] EXCEPT !.stock = u.seen[p].stock]
                      ELSE product[p]]
    BY DEF CommitCheckout
  <2> QED
    BY <1>2, <1>4, <2>1
<1> QED
  BY <1>2, <1>5, <1>6 DEF CommitCheckout, PlaceOrder

(* A cancellation that commits cancels an order of the ledger.             *)
LEMMA CommitCancelCancels ==
    ASSUME IInv, NEW s \in Session, CommitCancel(s)
    PROVE  CancelOrder(tx[s].oid)
<1> DEFINE u == tx[s]
           items == order[u.oid].items
<1>1. /\ s \in DOMAIN tx /\ u.op = "cancel" /\ u.pc = "products"
      /\ ToLock(s) = {} /\ Restorable(s)
  BY DEF CommitCancel, Locked, At
<1>2. Sound(u) /\ u.oid \in DOMAIN order /\ order[u.oid].status = "PENDING"
  BY <1>1, TxTyped DEF Sound, CancelledOrder
<1>3. /\ DOMAIN items = DOMAIN u.cart
      /\ \A p \in DOMAIN items : u.cart[p] = items[p].quantity
      /\ DOMAIN items \subseteq Product
  BY <1>1, <1>2, OrderTyped DEF Sound, CancelledOrder
<1>4. DOMAIN u.seen = DOMAIN items
  BY <1>1, <1>2, <1>3 DEF ToLock, Sound, LocksAscend
<1>5. \A p \in DOMAIN items : u.seen[p].stock = product[p].stock
  BY <1>1, <1>2, <1>4 DEF Sound, CopiesCurrent
<1>6. \A p \in DOMAIN items : product[p].stock + items[p].quantity <= MaxStock
  BY <1>1, <1>3, <1>4, <1>5 DEF Restorable
<1>7. product' = [p \in Product |->
                    IF p \in DOMAIN items
                    THEN [product[p] EXCEPT !.stock = @ + items[p].quantity]
                    ELSE product[p]]
  <2>1. product' = [p \in Product |->
                      IF p \in DOMAIN u.seen
                      THEN [product[p] EXCEPT !.stock = u.seen[p].stock + u.cart[p]]
                      ELSE product[p]]
    BY DEF CommitCancel
  <2> QED
    BY <1>3, <1>4, <1>5, <2>1
<1> QED
  BY <1>2, <1>6, <1>7 DEF CommitCancel, CancelOrder

(* A staff commit writes one product row of the ledger.                    *)
LEMMA CommitWriteWrites ==
    ASSUME IInv, NEW w \in Staff, CommitWrite(w)
    PROVE  \E p \in Product, row \in ProductRow : WriteProduct(p, row)
<1> DEFINE r == writer[w]
<1>1. /\ r.product \in Product /\ r.loaded \in ProductRow /\ r.wanted \in ProductRow
      /\ product[r.product] \in ProductRow
  BY DEF CommitWrite, IInv, TypeOK, LedgerTypeOK, IsTable, Writer
<1>2. Flush(product[r.product], r.loaded, r.wanted) \in ProductRow
  BY <1>1, FlushTyped
<1>3. WriteProduct(r.product, Flush(product[r.product], r.loaded, r.wanted))
  BY DEF CommitWrite, WriteProduct
<1> QED
  BY <1>1, <1>2, <1>3

(* Every step is a step of the ledger or leaves it alone.                  *)
LEMMA NextSimulates == IInv /\ [Next]_vars => [LedgerNext]_ledgerVars
<1> SUFFICES ASSUME IInv, [Next]_vars PROVE [LedgerNext]_ledgerVars
  OBVIOUS
<1>1. CASE UNCHANGED vars
  BY <1>1 DEF vars, ledgerVars
<1>2. ASSUME NEW s \in Session, BuyerStart(s) \/ Crash(s)
      PROVE  UNCHANGED ledgerVars
  BY <1>2 DEF BuyerStart, StartCheckout, StartCancel, Crash, ledgerVars
<1>3. ASSUME NEW s \in Session, BuyerStep(s) PROVE [LedgerNext]_ledgerVars
  <2>1. CASE CommitCheckout(s)
    <3>1. s \in DOMAIN tx /\ tx[s].op = "checkout"
      BY <2>1 DEF CommitCheckout, At
    <3>2. tx[s].oid \in OrderId /\ tx[s].buyer \in Buyer /\ tx[s].cart \in Carts
      BY <3>1, TxTyped DEF Tx, Sound, CheckoutOrder
    <3> QED
      BY <2>1, <3>2, CommitCheckoutPlaces DEF LedgerNext
  <2>2. CASE CommitCancel(s)
    <3>1. s \in DOMAIN tx
      BY <2>2 DEF CommitCancel, Locked, At
    <3>2. tx[s].oid \in OrderId
      BY <3>1, TxTyped DEF Tx
    <3> QED
      BY <2>2, <3>2, CommitCancelCancels DEF LedgerNext
  <2>3. ASSUME ~CommitCheckout(s), ~CommitCancel(s) PROVE UNCHANGED ledgerVars
    BY <1>3, <2>3
    DEF BuyerStep, LockProduct, RejectCheckout, FlushCheckout, DispatchConfirmation,
        RefuseCancel, LockOrder, OverflowCancel, ledgerVars
  <2> QED
    BY <2>1, <2>2, <2>3
<1>4. ASSUME NEW o \in OrderId, CapturePayment(o) PROVE LedgerNext
  BY <1>4 DEF CapturePayment, LedgerNext
<1>5. ASSUME NEW w \in Staff, StaffStart(w) \/ AbortWrite(w) PROVE UNCHANGED ledgerVars
  BY <1>5 DEF StaffStart, LoadUpdate, LoadDelete, LoadApprove, LoadReject, Load,
     AbortWrite, ledgerVars
<1>6. ASSUME NEW w \in Staff, CommitWrite(w) PROVE LedgerNext
  BY <1>6, CommitWriteWrites DEF LedgerNext
<1> QED
  BY <1>1, <1>2, <1>3, <1>4, <1>5, <1>6 DEF Next

(* The transactions of order_service.py implement the ledger: each order   *)
(* is placed, and each order cancelled, in one step that is right for the  *)
(* rows as they are at that step.                                          *)
THEOREM Refinement == Spec => RefinesLedger
<1>1. Init => LedgerInit
  BY DEF Init
<1>2. IInv /\ [Next]_vars => [LedgerNext]_ledgerVars
  BY NextSimulates
<1> QED
  BY <1>1, <1>2, Invariance, PTL DEF Spec, RefinesLedger, LedgerSpec
-----------------------------------------------------------------------------
(* Units of stock.  *)

(* A write that does not set stock_quantity leaves the units as they were. *)
LEMMA WriteConserves ==
    ASSUME IInv, NEW w \in Staff, CommitWrite(w), NEW p \in Product,
           writer[w].product = p => writer[w].wanted.stock = writer[w].loaded.stock
    PROVE  Units(p)' = Units(p)
<1> DEFINE r == writer[w]
<1>1. /\ r.product \in Product /\ product[r.product] \in ProductRow
      /\ product \in [Product -> ProductRow]
  BY DEF CommitWrite, IInv, TypeOK, LedgerTypeOK, IsTable, Writer
<1>2. product'[p].stock = product[p].stock
  <2>1. CASE r.product = p
    BY <1>1, <2>1 DEF CommitWrite, Flush, ProductRow
  <2>2. CASE r.product # p
    BY <1>1, <2>2 DEF CommitWrite
  <2> QED
    BY <2>1, <2>2
<1>3. UnitsHeld(p)' = UnitsHeld(p)
  BY DEF CommitWrite, UnitsHeld, UnitsOf
<1> QED
  BY <1>2, <1>3 DEF Units

(* Only the commit of a staff member who set the stock changes the units   *)
(* of a product.                                                           *)
LEMMA NextConserves ==
    ASSUME IInv, [Next]_vars, NEW p \in Product, Units(p)' # Units(p)
    PROVE  \E w \in Staff : /\ CommitWrite(w)
                            /\ writer[w].product = p
                            /\ writer[w].wanted.stock # writer[w].loaded.stock
<1>1. LedgerTypeOK
  BY DEF IInv, TypeOK
<1>2. ~UNCHANGED ledgerVars
  BY DEF ledgerVars, Units, UnitsHeld, UnitsOf
<1>3. ASSUME NEW s \in Session PROVE ~(BuyerStart(s) \/ Crash(s))
  BY <1>2 DEF BuyerStart, StartCheckout, StartCancel, Crash, ledgerVars
<1>4. ASSUME NEW s \in Session PROVE ~BuyerStep(s)
  <2>1. ~CommitCheckout(s)
    <3>1. SUFFICES ASSUME CommitCheckout(s) PROVE FALSE
      OBVIOUS
    <3>2. s \in DOMAIN tx /\ tx[s].op = "checkout"
      BY <3>1 DEF CommitCheckout, At
    <3>3. tx[s].oid \in OrderId /\ tx[s].buyer \in Buyer /\ tx[s].cart \in Carts
      BY <3>2, TxTyped DEF Tx, Sound, CheckoutOrder
    <3> QED
      BY <1>1, <3>1, <3>3, CommitCheckoutPlaces, PlaceConserves
  <2>2. ~CommitCancel(s)
    <3>1. SUFFICES ASSUME CommitCancel(s) PROVE FALSE
      OBVIOUS
    <3>2. s \in DOMAIN tx
      BY <3>1 DEF CommitCancel, Locked, At
    <3>3. tx[s].oid \in OrderId
      BY <3>2, TxTyped DEF Tx
    <3> QED
      BY <1>1, <3>1, <3>3, CommitCancelCancels, CancelConserves
  <2> QED
    BY <1>2, <2>1, <2>2
    DEF BuyerStep, LockProduct, RejectCheckout, FlushCheckout, DispatchConfirmation,
        RefuseCancel, LockOrder, OverflowCancel, ledgerVars
<1>5. ASSUME NEW o \in OrderId PROVE ~CapturePayment(o)
  BY <1>1, SettleConserves DEF CapturePayment
<1>6. ASSUME NEW w \in Staff PROVE ~(StaffStart(w) \/ AbortWrite(w))
  BY <1>2 DEF StaffStart, LoadUpdate, LoadDelete, LoadApprove, LoadReject, Load,
     AbortWrite, ledgerVars
<1>7. PICK w \in Staff : CommitWrite(w)
  BY <1>2, <1>3, <1>4, <1>5, <1>6 DEF Next, vars, ledgerVars
<1> QED
  BY <1>7, WriteConserves

(* Whatever interleaves, units of stock appear and disappear only through  *)
(* a PATCH that sets stock_quantity.                                       *)
THEOREM StockReconciles == Spec => UnitsConserved
<1>1. IInv /\ [Next]_vars =>
        [\A p \in Product :
           Units(p)' # Units(p) =>
             \E w \in Staff : /\ CommitWrite(w)
                             /\ writer[w].product = p
                             /\ writer[w].wanted.stock # writer[w].loaded.stock]_vars
  BY NextConserves
<1> QED
  BY <1>1, Invariance, PTL DEF Spec, UnitsConserved
-----------------------------------------------------------------------------
(* No circle of waiting transactions.  *)

(* A nonempty finite set of numbers has a greatest element: the one with   *)
(* the smallest set of greater elements.                                   *)
LEMMA Greatest ==
    ASSUME NEW S, S \subseteq Nat, IsFiniteSet(S), S # {}
    PROVE  \E m \in S : \A n \in S : n <= m
<1> DEFINE Above(m) == {n \in S : n > m}
           F == {Above(m) : m \in S}
<1>1. IsWellFoundedOn(StrictSubsetOrdering(S), SUBSET S)
  BY FS_StrictSubsetOrderingWellFounded, FS_FiniteSubsetsOfFinite
<1>2. F \subseteq SUBSET S /\ F # {}
  OBVIOUS
<1>3. PICK X \in F : \A Y \in F : <<Y, X>> \notin StrictSubsetOrdering(S)
  BY <1>1, <1>2, WFMin
<1>4. PICK m \in S : X = Above(m)
  OBVIOUS
<1>5. ASSUME NEW n \in S, n > m PROVE FALSE
  <2>1. Above(n) \in F /\ Above(n) \subseteq Above(m)
    <3>1. \A k \in S : k > n => k > m
      BY <1>5
    <3> QED
      BY <3>1
  <2>2. n \in Above(m) /\ n \notin Above(n)
    BY <1>5
  <2>3. <<Above(n), Above(m)>> \in StrictSubsetOrdering(S)
    BY <2>1, <2>2 DEF StrictSubsetOrdering
  <2> QED
    BY <1>3, <1>4, <2>1, <2>3
<1> QED
  BY <1>5

(* Sessions that lock in ascending order cannot wait in a circle.          *)
LEMMA IInvNoLockCycle == IInv => NoLockCycle
<1> SUFFICES ASSUME IInv, NEW W \in SUBSET DOMAIN tx, W # {},
                    \A s \in W : \E r \in W : WaitsFor(s, r)
             PROVE  FALSE
  BY DEF NoLockCycle
<1> DEFINE Wanted == {p \in Product : \E s \in W : tx[s].pc = "products" /\ IsNext(s, p)}
(* Who is waited for holds a row, so it is past its first statement, and   *)
(* it waits for a product row itself.                                      *)
<1>1. ASSUME NEW s \in W, NEW r \in W, WaitsFor(s, r)
      PROVE  \E q \in Wanted : tx[r].pc = "products" /\ IsNext(r, q)
  <2>1. Sound(tx[r]) /\ tx[r].pc # "order"
    BY <1>1, TxTyped DEF WaitsFor, HoldsProduct, HoldsOrder, At, Sound, StatementOrder
  <2>2. PICK u \in W : WaitsFor(r, u)
    OBVIOUS
  <2>3. tx[r].pc = "products" /\ \E q \in Product : IsNext(r, q)
    BY <2>1, <2>2 DEF WaitsFor, At
  <2> QED
    BY <2>3
<1>2. Wanted # {}
  BY <1>1
<1>3. Wanted \subseteq Nat /\ IsFiniteSet(Wanted)
  BY ProductAssumption, FS_Subset
<1>4. PICK m \in Wanted : \A n \in Wanted : n <= m
  BY <1>2, <1>3, Greatest
<1>5. PICK s \in W : tx[s].pc = "products" /\ IsNext(s, m)
  OBVIOUS
<1>6. PICK r \in W : WaitsFor(s, r)
  OBVIOUS
<1>7. m \in DOMAIN tx[r].seen
  <2>1. PICK p \in Product : IsNext(s, p) /\ HoldsProduct(r, p)
    BY <1>5, <1>6 DEF WaitsFor, At
  <2>2. p = m
    BY <1>3, <1>5, <2>1, ProductAssumption DEF IsNext, ToLock
  <2> QED
    BY <2>1, <2>2 DEF HoldsProduct
<1>8. PICK q \in Wanted : tx[r].pc = "products" /\ IsNext(r, q)
  BY <1>1, <1>6
<1>9. m < q
  BY <1>7, <1>8, TxTyped DEF Sound, LocksAscend, IsNext, ToLock
<1> QED
  BY <1>3, <1>4, <1>9

(* No set of transactions can wait on each other, so PostgreSQL never has  *)
(* to abort a checkout or a cancellation to break a deadlock.              *)
THEOREM DeadlockFreedom == Spec => []NoLockCycle
  BY Invariance, IInvNoLockCycle, PTL
=============================================================================
