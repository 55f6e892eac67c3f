-------------------------- MODULE Moderation_proofs --------------------------
(***************************************************************************)
(* Proofs of Moderation: whatever the requests that overlap on a listing,  *)
(* its lifecycle is kept, a deletion is for good and no edit is undone.    *)
(***************************************************************************)
EXTENDS Moderation, TLAPS

(* What the copy of a request that is about to commit tells: it differs    *)
(* from the copy it was loaded as in the columns its operation may write.  *)
Honest(q) ==
    /\ q.product \in DOMAIN listing
    /\ q.wanted.active => q.loaded.active
    /\ Lifecycle(q.loaded) => Lifecycle(q.wanted)
    /\ \A c \in Field : q.wanted[c] # q.loaded[c] =>
           q.op = "update" /\ c \in DOMAIN q.patch /\ q.wanted[c] = q.patch[c]

IInv ==
    /\ TypeOK
    /\ LifecycleKept
    /\ \A r \in DOMAIN req : Honest(req[r])

Columns == {"title", "price", "active", "approved", "by", "reason"}

(* Every product row has the same columns.                                 *)
LEMMA RowColumns ==
    ASSUME NEW row \in Row
    PROVE  DOMAIN row = Columns
BY DEF Row, Columns

(* The UPDATE writes each column from the copy or leaves it alone.         *)
LEMMA FlushColumns ==
    ASSUME NEW row \in Row, NEW loaded \in Row, NEW wanted \in Row
    PROVE  /\ Flush(row, loaded, wanted) \in Row
           /\ \A c \in Columns :
                Flush(row, loaded, wanted)[c] =
                    IF wanted[c] # loaded[c] THEN wanted[c] ELSE row[c]
           /\ row = loaded => Flush(row, loaded, wanted) = wanted
<1> DEFINE new == Flush(row, loaded, wanted)
           Pick(c) == IF wanted[c] # loaded[c] THEN wanted[c] ELSE row[c]
<1>1. new = [c \in Columns |-> Pick(c)]
  BY RowColumns DEF Flush
<1>2. new = [title |-> Pick("title"), price |-> Pick("price"),
             active |-> Pick("active"), approved |-> Pick("approved"),
             by |-> Pick("by"), reason |-> Pick("reason")]
  BY <1>1 DEF Columns
<1>3. new \in Row
  BY <1>2 DEF Row
<1>4. ASSUME row = loaded
      PROVE  new = wanted
  BY <1>2, <1>4 DEF Row
<1> QED
  BY <1>1, <1>3, <1>4

(* The patched copy keeps the columns a PUT has no field for.              *)
LEMMA PatchedTyped ==
    ASSUME NEW p \in Product, NEW patch \in Patch, listing[p] \in Row
    PROVE  /\ Patched(p, patch) \in Row
           /\ Patched(p, patch).active = listing[p].active
           /\ \A c \in Field : Patched(p, patch)[c] # listing[p][c] =>
                c \in DOMAIN patch /\ Patched(p, patch)[c] = patch[c]
<1> DEFINE new == Patched(p, patch)
           Pick(c) == IF c \in DOMAIN patch THEN patch[c] ELSE listing[p][c]
<1>1. PICK F \in SUBSET Field : patch \in [F -> Value]
  BY DEF Patch
<1>2. new = [c \in Columns |-> Pick(c)]
  BY RowColumns DEF Patched
<1>3. /\ Pick("title") \in Value /\ Pick("price") \in Value
      /\ \A c \in Columns \ Field : Pick(c) = listing[p][c]
  BY <1>1 DEF Row, Field
<1>4. new = [title |-> Pick("title"), price |-> Pick("price"),
             active |-> listing[p].active, approved |-> listing[p].approved,
             by |-> listing[p].by, reason |-> listing[p].reason]
  BY <1>2, <1>3 DEF Columns, Field
<1>5. new \in Row
  BY <1>3, <1>4 DEF Row
<1> QED
  BY <1>2, <1>4, <1>5 DEF Columns, Field

(* Starting a request writes no row; what it wants must be honest.         *)
LEMMA LoadInv ==
    ASSUME IInv, NEW r \in Request, NEW p \in DOMAIN listing,
           NEW op \in {"update", "delete", "approve", "reject"},
           NEW patch \in Patch \cup {EmptyTable}, NEW wanted \in Row,
           Load(r, op, p, patch, wanted),
           wanted.active => listing[p].active,
           Lifecycle(listing[p]) => Lifecycle(wanted),
           \A c \in Field : wanted[c] # listing[p][c] =>
               op = "update" /\ c \in DOMAIN patch /\ wanted[c] = patch[c]
    PROVE  IInv'
<1> DEFINE q == [op |-> op, product |-> p, patch |-> patch,
                 loaded |-> listing[p], wanted |-> wanted]
<1>1. p \in Product /\ listing[p] \in Row
  BY DEF IInv, TypeOK, IsTable
<1>2. q \in Req
  BY <1>1 DEF Req
<1>3. TypeOK'
  BY <1>2 DEF IsTable, Insert, IInv, TypeOK, Load
<1>4. /\ q.product = p /\ q.loaded = listing[p] /\ q.wanted = wanted
      /\ q.op = op /\ q.patch = patch
  OBVIOUS
<1> HIDE DEF q
<1>5. ASSUME NEW s \in DOMAIN req'
      PROVE  Honest(req[s])'
  <2>1. req' = Insert(req, r, q) /\ listing' = listing
    BY DEF Load, q
  <2>2. /\ DOMAIN req' = DOMAIN req \cup {r} /\ req'[r] = q
        /\ \A x \in DOMAIN req \ {r} : req'[x] = req[x]
    BY <2>1 DEF Insert
  <2>3. CASE s = r
    BY <1>4, <2>1, <2>2, <2>3 DEF Honest
  <2>4. CASE s # r
    <3>1. s \in DOMAIN req /\ req'[s] = req[s]
      BY <1>5, <2>2, <2>4
    <3> QED
      BY <2>1, <3>1 DEF IInv, Honest
  <2> QED
    BY <2>3, <2>4
<1>6. LifecycleKept'
  BY DEF IInv, LifecycleKept, Load
<1> QED
  BY <1>3, <1>5, <1>6 DEF IInv

(* Start keeps the inductive invariant.                                    *)
LEMMA StartInv ==
    ASSUME IInv, NEW r \in Request, NEW p \in DOMAIN listing, Start(r, p)
    PROVE  IInv'
<1>1. p \in Product /\ listing[p] \in Row
  BY DEF IInv, TypeOK, IsTable
<1>2. ASSUME NEW patch \in Patch, LoadUpdate(r, p, patch)
      PROVE  IInv'
  <2> DEFINE wanted == [Patched(p, patch) EXCEPT !.approved = FALSE, !.by = Nobody,
                                                 !.reason = NoReason]
  <2>1. /\ wanted \in Row /\ wanted.active = listing[p].active /\ Lifecycle(wanted)
        /\ \A c \in Field : wanted[c] = Patched(p, patch)[c]
    BY <1>1, PatchedTyped DEF Row, Lifecycle, Field
  <2>2. Load(r, "update", p, patch, wanted)
    BY <1>2 DEF LoadUpdate
  <2> HIDE DEF wanted
  <2>3. \A c \in Field : wanted[c] # listing[p][c] =>
           c \in DOMAIN patch /\ wanted[c] = patch[c]
    BY <1>1, <2>1, PatchedTyped
  <2> QED
    BY <2>1, <2>2, <2>3, LoadInv
<1>3. ASSUME LoadDelete(r, p)
      PROVE  IInv'
  <2> DEFINE wanted == [listing[p] EXCEPT !.active = FALSE]
  <2>1. wanted \in Row /\ ~wanted.active /\ \A c \in Field : wanted[c] = listing[p][c]
    BY <1>1 DEF Row, Field
  <2>2. Load(r, "delete", p, EmptyTable, wanted)
    BY <1>3 DEF LoadDelete
  <2>3. Lifecycle(listing[p]) => Lifecycle(wanted)
    BY <1>1 DEF Row, Lifecycle
  <2> HIDE DEF wanted
  <2> QED
    BY <2>1, <2>2, <2>3, LoadInv
<1>4. ASSUME NEW a \in Admin, LoadApprove(r, p, a)
      PROVE  IInv'
  <2> DEFINE wanted == [listing[p] EXCEPT !.approved = TRUE, !.by = a,
                                          !.reason = NoReason]
  <2>1. /\ wanted \in Row /\ wanted.active = listing[p].active /\ Lifecycle(wanted)
        /\ \A c \in Field : wanted[c] = listing[p][c]
    BY <1>1, NobodyAssumption DEF Row, Lifecycle, Field
  <2>2. Load(r, "approve", p, EmptyTable, wanted)
    BY <1>4 DEF LoadApprove
  <2> HIDE DEF wanted
  <2> QED
    BY <2>1, <2>2, LoadInv
<1>5. ASSUME NEW a \in Admin, NEW reason \in Reason, LoadReject(r, p, a, reason)
      PROVE  IInv'
  <2> DEFINE wanted == [listing[p] EXCEPT !.approved = FALSE, !.by = a,
                                          !.reason = reason]
  <2>1. /\ wanted \in Row /\ wanted.active = listing[p].active /\ Lifecycle(wanted)
        /\ \A c \in Field : wanted[c] = listing[p][c]
    BY <1>1, NobodyAssumption, NoReasonAssumption DEF Row, Lifecycle, Field
  <2>2. Load(r, "reject", p, EmptyTable, wanted)
    BY <1>5 DEF LoadReject
  <2> HIDE DEF wanted
  <2> QED
    BY <2>1, <2>2, LoadInv
<1> QED
  BY <1>2, <1>3, <1>4, <1>5 DEF Start

(* A commit changes one row, by the columns its request has changed.       *)
LEMMA CommitEffect ==
    ASSUME IInv, NEW r \in Request, Commit(r)
    PROVE  LET q == req[r]
           IN  /\ q \in Req /\ Honest(q) /\ q.product \in DOMAIN listing
               /\ DOMAIN listing' = DOMAIN listing
               /\ listing'[q.product] = Flush(listing[q.product], q.loaded, q.wanted)
               /\ \A p \in DOMAIN listing \ {q.product} : listing'[p] = listing[p]
BY DEF IInv, TypeOK, IsTable, Commit, Honest

(* Commit keeps the inductive invariant.                                   *)
LEMMA CommitInv ==
    ASSUME IInv, NEW r \in Request, Commit(r)
    PROVE  IInv'
<1> DEFINE q == req[r]
           new == Flush(listing[q.product], q.loaded, q.wanted)
<1>1. /\ q \in Req /\ Honest(q) /\ q.product \in DOMAIN listing
      /\ DOMAIN listing' = DOMAIN listing
      /\ listing'[q.product] = new
      /\ \A p \in DOMAIN listing \ {q.product} : listing'[p] = listing[p]
  BY CommitEffect
<1>2. /\ listing[q.product] \in Row /\ q.loaded \in Row /\ q.wanted \in Row
      /\ q.product \in Product
  BY <1>1 DEF IInv, TypeOK, IsTable, Req
<1>3. new \in Row /\ (listing[q.product] = q.loaded => new = q.wanted)
  BY <1>2, FlushColumns
<1>4. TypeOK'
  <2>1. IsTable(listing', Product, Row)
    BY <1>3 DEF IsTable, IInv, TypeOK, Commit
  <2>2. IsTable(req', Request, Req)
    BY DEF IsTable, Delete, IInv, TypeOK, Commit
  <2>3. raced' \subseteq Product
    BY <1>2 DEF IInv, TypeOK, Commit
  <2> QED
    BY <2>1, <2>2, <2>3 DEF TypeOK
<1>5. ASSUME NEW p \in DOMAIN listing \ raced'
      PROVE  Lifecycle(listing'[p])
  <2>1. p \notin raced /\ Lifecycle(listing[p])
    BY <1>5 DEF IInv, LifecycleKept, Commit
  <2>2. CASE p = q.product
    <3>1. listing[p] = q.loaded
      BY <1>5, <2>2 DEF Commit
    <3> QED
      BY <1>1, <1>3, <2>1, <2>2, <3>1 DEF Honest
  <2>3. CASE p # q.product
    BY <1>1, <2>1, <2>3
  <2> QED
    BY <2>2, <2>3
<1>6. ASSUME NEW s \in DOMAIN req'
      PROVE  Honest(req[s])'
  <2>1. s \in DOMAIN req /\ req'[s] = req[s]
    BY <1>6 DEF Commit, Delete
  <2> QED
    BY <1>1, <2>1 DEF IInv, Honest
<1> QED
  BY <1>1, <1>4, <1>5, <1>6 DEF IInv, LifecycleKept

(* INSERTs, aborted requests and stuttering steps.                         *)
LEMMA CreateInv ==
    ASSUME IInv, NEW p \in Product, NEW title \in Value, NEW price \in Value,
           Create(p, title, price)
    PROVE  IInv'
<1> DEFINE row == [title |-> title, price |-> price, active |-> TRUE,
                   approved |-> FALSE, by |-> Nobody, reason |-> NoReason]
<1>1. row \in Row /\ Lifecycle(row)
  BY DEF Row, Lifecycle
<1> HIDE DEF row
<1>2. listing' = Insert(listing, p, row) /\ UNCHANGED <<req, raced>>
  BY DEF Create, row
<1>3. TypeOK'
  BY <1>1, <1>2 DEF IsTable, Insert, IInv, TypeOK
<1>4. /\ DOMAIN listing' = DOMAIN listing \cup {p} /\ listing'[p] = row
      /\ \A x \in DOMAIN listing \ {p} : listing'[x] = listing[x]
  BY <1>2 DEF Insert
<1>5. LifecycleKept'
  BY <1>1, <1>2, <1>4 DEF IInv, LifecycleKept
<1>6. \A r \in DOMAIN req' : Honest(req[r])'
  BY <1>2, <1>4 DEF IInv, Honest
<1> QED
  BY <1>3, <1>5, <1>6 DEF IInv

(* Abort keeps the inductive invariant.                                    *)
LEMMA AbortInv ==
    ASSUME IInv, NEW r \in Request, Abort(r)
    PROVE  IInv'
<1>1. TypeOK'
  BY DEF IsTable, Delete, IInv, TypeOK, Abort
<1>2. LifecycleKept'
  BY DEF IInv, LifecycleKept, Abort
<1>3. \A s \in DOMAIN req' : Honest(req[s])'
  BY DEF IInv, Honest, Abort, Delete
<1> QED
  BY <1>1, <1>2, <1>3 DEF IInv

(* The inductive invariant holds of every reachable state.                 *)
THEOREM Invariance == Spec => []IInv
<1>1. Init => IInv
  BY DEF IsTable, EmptyTable, Init, IInv, TypeOK, LifecycleKept
<1>2. IInv /\ [Next]_vars => IInv'
  <2> SUFFICES ASSUME IInv, [Next]_vars
               PROVE  IInv'
    OBVIOUS
  <2>1. CASE UNCHANGED vars
    BY <2>1 DEF vars, IInv, TypeOK, LifecycleKept, Honest
  <2>2. ASSUME NEW p \in Product, NEW title \in Value, NEW price \in Value,
               Create(p, title, price)
        PROVE  IInv'
    BY <2>2, CreateInv
  <2>3. ASSUME NEW r \in Request, NEW p \in DOMAIN listing, Start(r, p)
        PROVE  IInv'
    BY <2>3, StartInv
  <2>4. ASSUME NEW r \in Request, Commit(r)
        PROVE  IInv'
    BY <2>4, CommitInv
  <2>5. ASSUME NEW r \in Request, Abort(r)
        PROVE  IInv'
    BY <2>5, AbortInv
  <2> QED
    BY <2>1, <2>2, <2>3, <2>4, <2>5 DEF Next
<1> QED
  BY <1>1, <1>2, PTL DEF Spec

(* Every reachable state is well typed.                                    *)
THEOREM TypeCorrect == Spec => []TypeOK
<1>1. IInv => TypeOK
  BY DEF IInv
<1> QED
  BY <1>1, Invariance, PTL

(* A listing that no stale copy was written to is pending, rejected with a *)
(* reason or live, however many requests overlap elsewhere.                *)
THEOREM LifecyclesKept == Spec => []LifecycleKept
<1>1. IInv => LifecycleKept
  BY DEF IInv
<1> QED
  BY <1>1, Invariance, PTL

(* A row that a step changes is the one a request commits to.              *)
LEMMA OnlyCommitsWrite ==
    ASSUME IInv, [Next]_vars, NEW p \in DOMAIN listing, listing'[p] # listing[p]
    PROVE  \E r \in Request : Commit(r) /\ req[r].product = p
<1>1. CASE UNCHANGED vars
  BY <1>1 DEF vars
<1>2. ASSUME NEW x \in Product, NEW title \in Value, NEW price \in Value,
             Create(x, title, price)
      PROVE  FALSE
  BY <1>2 DEF Create, Insert
<1>3. ASSUME NEW r \in Request, NEW x \in DOMAIN listing, Start(r, x)
      PROVE  FALSE
  BY <1>3 DEF Start, LoadUpdate, LoadDelete, LoadApprove, LoadReject, Load
<1>4. ASSUME NEW r \in Request, Commit(r)
      PROVE  req[r].product = p
  BY <1>4, CommitEffect
<1>5. ASSUME NEW r \in Request, Abort(r)
      PROVE  FALSE
  BY <1>5 DEF Abort
<1> QED
  BY <1>1, <1>2, <1>3, <1>4, <1>5 DEF Next

(* What a commit writes, column by column.                                 *)
LEMMA CommitColumns ==
    ASSUME IInv, NEW r \in Request, Commit(r)
    PROVE  LET q == req[r]
           IN  \A c \in Columns :
                 listing'[q.product][c] # listing[q.product][c] =>
                     /\ q.wanted[c] # q.loaded[c]
                     /\ listing'[q.product][c] = q.wanted[c]
<1> DEFINE q == req[r]
<1>1. /\ q \in Req /\ q.product \in DOMAIN listing
      /\ listing'[q.product] = Flush(listing[q.product], q.loaded, q.wanted)
  BY CommitEffect
<1>2. listing[q.product] \in Row /\ q.loaded \in Row /\ q.wanted \in Row
  BY <1>1 DEF IInv, TypeOK, IsTable, Req
<1> QED
  BY <1>1, <1>2, FlushColumns

(* Nothing brings a deleted listing back: no request that wants a listing  *)
(* active loaded it inactive, so none of them writes the column.           *)
THEOREM DeletionIsFinal == Spec => DeletedStaysDeleted
<1>1. ASSUME IInv, [Next]_vars, NEW p \in DOMAIN listing, ~listing[p].active
      PROVE  ~listing'[p].active
  <2> SUFFICES ASSUME listing'[p] # listing[p]
               PROVE  ~listing'[p].active
    BY <1>1
  <2>1. PICK r \in Request : Commit(r) /\ req[r].product = p
    BY <1>1, OnlyCommitsWrite
  <2>2. Honest(req[r])
    BY <1>1, <2>1, CommitEffect
  <2>3. listing'[p].active # listing[p].active =>
            /\ req[r].wanted.active # req[r].loaded.active
            /\ listing'[p].active = req[r].wanted.active
    BY <1>1, <2>1, CommitColumns DEF Columns
  <2> QED
    BY <1>1, <2>2, <2>3 DEF Honest
<1>2. IInv /\ [Next]_vars =>
        [\A p \in DOMAIN listing : ~listing[p].active => ~listing'[p].active]_vars
  BY <1>1
<1> QED
  BY <1>2, Invariance, PTL DEF Spec, DeletedStaysDeleted

(* The content of a listing only changes to what an edit asks for that     *)
(* names the column.                                                       *)
THEOREM EditsSurvive == Spec => NoEditLost
<1> DEFINE Asked(p, c) ==
             \E r \in DOMAIN req : /\ r \notin DOMAIN req'
                                   /\ req[r].op = "update" /\ req[r].product = p
                                   /\ c \in DOMAIN req[r].patch
                                   /\ listing'[p][c] = req[r].patch[c]
<1>1. ASSUME IInv, [Next]_vars, NEW p \in DOMAIN listing, NEW c \in Field,
             listing'[p][c] # listing[p][c]
      PROVE  Asked(p, c)
  <2>1. PICK r \in Request : Commit(r) /\ req[r].product = p
    BY <1>1, OnlyCommitsWrite
  <2>2. r \in DOMAIN req /\ r \notin DOMAIN req' /\ Honest(req[r])
    BY <1>1, <2>1, CommitEffect DEF Commit, Delete
  <2>3. /\ req[r].wanted[c] # req[r].loaded[c]
        /\ listing'[p][c] = req[r].wanted[c]
    BY <1>1, <2>1, CommitColumns DEF Columns, Field
  <2> QED
    BY <2>1, <2>2, <2>3 DEF Honest
<1>2. IInv /\ [Next]_vars =>
        [\A p \in DOMAIN listing : \A c \in Field :
            listing'[p][c] # listing[p][c] => Asked(p, c)]_vars
  BY <1>1
<1> QED
  BY <1>2, Invariance, PTL DEF Spec, NoEditLost
=============================================================================
