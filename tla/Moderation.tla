----------------------------- MODULE Moderation -----------------------------
(***************************************************************************)
(* The listings of services/product_service.py under the decisions of      *)
(* services/admin_service.py.  Every request loads the row without a lock, *)
(* changes its copy and commits it some time later, so requests on one     *)
(* listing overlap; the UPDATE carries only the columns changed (Tables).  *)
(***************************************************************************)
EXTENDS Tables

CONSTANTS
    Product,    \* ids of listings
    Admin,      \* administrators
    Nobody,     \* approved_by IS NULL
    Value,      \* what a seller may write into title or price
    Reason,     \* rejection reasons
    NoReason,   \* rejection_reason IS NULL
    Request     \* requests served at the same time

ASSUME NobodyAssumption == Nobody \notin Admin
ASSUME NoReasonAssumption == NoReason \notin Reason

VARIABLES
    listing,    \* the product rows
    req,        \* the requests that have loaded a row and not yet committed
    raced       \* history: listings a request committed to from a stale copy

vars == <<listing, req, raced>>

(* Two columns stand for the content a seller may edit.  *)
Field == {"title", "price"}
Row == [title : Value, price : Value, active : BOOLEAN, approved : BOOLEAN,
        by : Admin \cup {Nobody}, reason : Reason \cup {NoReason}]

(* The fields a PUT sets; the others are absent from its payload.  *)
Patch == UNION {[F -> Value] : F \in SUBSET Field \ {{}}}

Req == [op : {"update", "delete", "approve", "reject"}, product : Product,
        patch : Patch \cup {EmptyTable}, loaded : Row, wanted : Row]

TypeOK ==
    /\ IsTable(listing, Product, Row)
    /\ IsTable(req, Request, Req)
    /\ raced \subseteq Product

Init ==
    /\ listing = EmptyTable
    /\ req = EmptyTable
    /\ raced = {}
-----------------------------------------------------------------------------
(* create_product: one INSERT; the listing waits for moderation.  *)
Create(p, title, price) ==
    /\ p \notin DOMAIN listing
    /\ listing' = Insert(listing, p,
                    [title |-> title, price |-> price, active |-> TRUE,
                     approved |-> FALSE, by |-> Nobody, reason |-> NoReason])
    /\ UNCHANGED <<req, raced>>

(* A request loads the row of p and turns its copy into `wanted'.  *)
Load(r, op, p, patch, wanted) ==
    /\ r \notin DOMAIN req
    /\ req' = Insert(req, r, [op |-> op, product |-> p, patch |-> patch,
                              loaded |-> listing[p], wanted |-> wanted])
    /\ UNCHANGED <<listing, raced>>

(* Fault: a field that is absent from the payload is written as NULL.  *)
PatchedWithNulls(p, patch) ==
    [c \in DOMAIN listing[p] |->
        IF c \in DOMAIN patch THEN patch[c]
        ELSE IF c \in Field THEN NoReason ELSE listing[p][c]]

(* The copy after the setattr loop of update_product.  *)
Patched(p, patch) ==
    [c \in DOMAIN listing[p] |-> IF c \in DOMAIN patch THEN patch[c] ELSE listing[p][c]]

LoadUpdate(r, p, patch) ==
    Load(r, "update", p, patch,
         [Patched(p, patch) EXCEPT !.approved = FALSE, !.by = Nobody,
                                   !.reason = NoReason])

LoadDelete(r, p) ==
    /\ listing[p].active
    /\ Load(r, "delete", p, EmptyTable, [listing[p] EXCEPT !.active = FALSE])

(* Fault: the reason of an earlier rejection is kept.  *)
ApproveKeepingReason(r, p, a) ==
    /\ ~listing[p].approved
    /\ Load(r, "approve", p, EmptyTable,
            [listing[p] EXCEPT !.approved = TRUE, !.by = a])

LoadApprove(r, p, a) ==
    /\ ~listing[p].approved
    /\ Load(r, "approve", p, EmptyTable,
            [listing[p] EXCEPT !.approved = TRUE, !.by = a, !.reason = NoReason])

LoadReject(r, p, a, reason) ==
    Load(r, "reject", p, EmptyTable,
         [listing[p] EXCEPT !.approved = FALSE, !.by = a, !.reason = reason])

(* The UPDATE and the commit.  *)
Commit(r) ==
    /\ r \in DOMAIN req
    /\ LET q == req[r]
       IN  /\ listing' = [listing EXCEPT ![q.product] = Flush(@, q.loaded, q.wanted)]
           /\ raced' = IF listing[q.product] = q.loaded THEN raced
                       ELSE raced \cup {q.product}
    /\ req' = Delete(req, r)

(* The request or its process dies before the commit.  *)
Abort(r) ==
    /\ r \in DOMAIN req
    /\ req' = Delete(req, r)
    /\ UNCHANGED <<listing, raced>>
-----------------------------------------------------------------------------
Start(r, p) ==
    \/ \E patch \in Patch : LoadUpdate(r, p, patch)
    \/ LoadDelete(r, p)
    \/ \E a \in Admin :
         LoadApprove(r, p, a) \/ \E reason \in Reason : LoadReject(r, p, a, reason)

Next ==
    \/ \E p \in Product, title, price \in Value : Create(p, title, price)
    \/ \E r \in Request :
         \/ \E p \in DOMAIN listing : Start(r, p)
         \/ Commit(r) \/ Abort(r)

Spec == Init /\ [][Next]_vars
-----------------------------------------------------------------------------
(* Properties.  *)

(* A soft delete is for good: no edit or decision that loaded the listing  *)
(* while it was active brings it back (delete_product, "so the product     *)
(* disappears from the public catalogue").                                 *)
DeletedStaysDeleted ==
    [][\A p \in DOMAIN listing : ~listing[p].active => ~listing'[p].active]_vars

(* No request undoes an edit it has not seen: a column of the content only *)
(* changes to what an edit that names this column asks for.                *)
NoEditLost ==
    [][\A p \in DOMAIN listing : \A c \in Field :
         listing'[p][c] # listing[p][c] =>
            \E r \in DOMAIN req : /\ r \notin DOMAIN req'
                                  /\ req[r].op = "update" /\ req[r].product = p
                                  /\ c \in DOMAIN req[r].patch
                                  /\ listing'[p][c] = req[r].patch[c]]_vars

(* The three states of models/product.py: pending, rejected with a reason  *)
(* and live; who decided is known exactly of the last two.  Requests that  *)
(* commit what they have loaded keep every listing in one of them; only    *)
(* writes from stale copies, of two requests, mix them.                    *)
Lifecycle(row) ==
    /\ row.approved => row.reason = NoReason
    /\ row.by # Nobody <=> (row.approved \/ row.reason # NoReason)

LifecycleKept == \A p \in DOMAIN listing \ raced : Lifecycle(listing[p])

(* What the code says and does not do.  *)

(* update_product: "any seller-side edit clears the approval flag back to  *)
(* is_approved=False".                                                     *)
EditClearsApproval ==
    [][\A r \in DOMAIN req :
         (Commit(r) /\ req[r].op = "update") =>
            ~listing'[req[r].product].approved]_vars
=============================================================================
