--------------------------- MODULE Directory_proofs ---------------------------
(***************************************************************************)
(* Proofs about Directory, for any number of accounts, addresses and       *)
(* sizes of page.  The inductive invariant IInv has two parts: what the    *)
(* unique indexes leave of the registrations that race (Index), and what   *)
(* a walk through the pages has left behind it (Behind).                   *)
(***************************************************************************)
EXTENDS Directory, TLAPS, FiniteSetTheorems

(* Addresses are stored in lower case only.  *)
Spelled ==
    /\ \A a \in DOMAIN request : Lower[request[a].email] = request[a].email
    /\ \A a \in DOMAIN users : Lower[users[a].email] = users[a].email

(* Only sellers have a number.  *)
Numbers ==
    /\ \A a \in DOMAIN request : request[a].pc = "seller" => request[a].brn # NoBrn
    /\ \A a \in DOMAIN sellers : sellers[a].brn # NoBrn

(* No two rows of an index have its key, inserted or committed.  *)
EmailIndex ==
    /\ \A a, b \in DOMAIN users : a # b => users[a].email # users[b].email
    /\ \A a, b \in DOMAIN request :
         a # b /\ Inserted(a, "user") /\ Inserted(b, "user")
             => request[a].email # request[b].email
    /\ \A a \in DOMAIN request, b \in DOMAIN users :
         Inserted(a, "user") => users[b].email # request[a].email

BrnIndex ==
    /\ \A a, b \in DOMAIN sellers : a # b => sellers[a].brn # sellers[b].brn
    /\ \A a, b \in DOMAIN request :
         a # b /\ Inserted(a, "seller") /\ Inserted(b, "seller") /\ request[a].brn # NoBrn
             => request[a].brn # request[b].brn
    /\ \A a \in DOMAIN request, b \in DOMAIN sellers :
         Inserted(a, "seller") => sellers[b].brn # request[a].brn

SellersWhole == DOMAIN sellers = {a \in DOMAIN users : users[a].role = "SELLER"}

Index ==
    /\ DOMAIN request \cap DOMAIN users = {}
    /\ Spelled
    /\ Numbers
    /\ EmailIndex
    /\ BrnIndex
    /\ SellersWhole
    /\ RefusedOnlyForTaken

(* The rows that come before that of a on the list.  *)
Newer(a) == {b \in Listed(sellers) : sellers[b].created_at > sellers[a].created_at}

Tied ==
    \E a, b \in DOMAIN sellers :
        a # b /\ sellers[a].created_at = sellers[b].created_at

(* The walk is where its page and its size say.  *)
Steps ==
    /\ walk.pc = "idle" => walk.page = 1 /\ walk.shown = {}
    /\ walk.pc # "idle" => walk.page \in Nat \ {0} /\ walk.page_size \in Nat \ {0}
    /\ walk.listed \subseteq Listed(sellers)

(***************************************************************************)
(* What was on the list since the walk began and has not been shown has a  *)
(* page full of newer rows before it for each page that was read.          *)
(***************************************************************************)
Behind ==
    \/ walk.disturbed
    \/ Tied
    \/ /\ walk.pc \in {"count", "read"} =>
            \A a \in walk.listed \ walk.shown :
                Cardinality(Newer(a)) >= offset_of(walk.page, walk.page_size)
       /\ walk.pc = "read" => walk.total = Cardinality(Listed(sellers))
       /\ walk.pc = "done" => walk.listed \subseteq walk.shown

IInv ==
    /\ TypeOK
    /\ IsFiniteSet(DOMAIN sellers)
    /\ Index
    /\ Steps
    /\ Behind
-----------------------------------------------------------------------------
(* Registrations.  *)

(* A request that has inserted nothing yet concerns no index.  *)
LEMMA RegisterIndex ==
    ASSUME TypeOK, Index, NEW a \in Account, NEW address \in Address,
           NEW brn \in Brn \cup {NoBrn}, Register(a, address, brn)
    PROVE  TypeOK' /\ Index'
<1> DEFINE r == [pc |-> "user", email |-> email_of(address), brn |-> brn, created_at |-> 0]
<1>1. r \in Request /\ Lower[r.email] = r.email /\ r.pc = "user"
  BY AddressAssumption, BoundAssumption DEF Request, email_of
<1>2. /\ a \notin DOMAIN request /\ a \notin DOMAIN users
      /\ request' = Insert(request, a, r)
      /\ UNCHANGED <<users, sellers, clock, walk>>
  BY DEF Register
<1> HIDE DEF r
<1>3. IsTable(request', Account, Request)
  BY <1>1, <1>2 DEF IsTable, Insert, TypeOK
<1>4. TypeOK'
  BY <1>2, <1>3 DEF TypeOK
<1>5. /\ DOMAIN request' = DOMAIN request \cup {a}
      /\ request'[a] = r
      /\ \A b \in DOMAIN request : request'[b] = request[b]
  BY <1>2 DEF Insert
<1>6. Spelled' /\ Numbers' /\ (DOMAIN request \cap DOMAIN users)' = {}
  BY <1>1, <1>2, <1>5 DEF Index, Spelled, Numbers
<1>7. EmailIndex'
  BY <1>1, <1>2, <1>5 DEF Index, EmailIndex, Inserted, At
<1>8. BrnIndex'
  BY <1>1, <1>2, <1>5 DEF Index, BrnIndex, Inserted, At
<1>9. SellersWhole'
  BY <1>2 DEF Index, SellersWhole
<1>10. RefusedOnlyForTaken'
  BY <1>1, <1>2, <1>5 DEF Index, RefusedOnlyForTaken, At, EmailTaken, BrnTaken
<1> QED
  BY <1>4, <1>6, <1>7, <1>8, <1>9, <1>10 DEF Index

(***************************************************************************)
(* An action that moves one request on, to a row r with the same email and *)
(* number: what it has to show for Index.                                  *)
(***************************************************************************)
LEMMA MoveIndex ==
    ASSUME TypeOK, Index, NEW a \in DOMAIN request, NEW r \in Request,
           request' = [request EXCEPT ![a] = r],
           UNCHANGED <<users, sellers>>, clock' \in 0..MaxClock, walk' \in Walk,
           r.email = request[a].email, r.brn = request[a].brn,
           r.pc # "user",
           r.pc = "seller" => r.brn # NoBrn,
           (r.pc \in {"seller", "commit"} /\ request[a].pc = "user")
               => ~EmailTaken(a) /\ ~EmailPending(a),
           (r.pc \in {"seller", "commit"}) => request[a].pc \in {"user", "seller"},
           r.pc = "commit" => (r.brn = NoBrn \/ (~BrnTaken(a) /\ ~BrnPending(a))),
           r.pc = "refused" => EmailTaken(a) \/ BrnTaken(a)
    PROVE  TypeOK' /\ Index'
<1>1. IsTable(request', Account, Request)
  BY DEF IsTable, TypeOK
<1>2. TypeOK'
  BY <1>1 DEF TypeOK
<1>3. /\ DOMAIN request' = DOMAIN request
      /\ request'[a] = r
      /\ \A b \in DOMAIN request : b # a => request'[b] = request[b]
      /\ \A b \in DOMAIN request :
            request'[b].email = request[b].email /\ request'[b].brn = request[b].brn
      /\ DOMAIN request \subseteq Account
  BY DEF TypeOK, IsTable
<1>4. Spelled' /\ Numbers' /\ (DOMAIN request \cap DOMAIN users)' = {}
  BY <1>3 DEF Index, Spelled, Numbers
<1>5. EmailIndex'
  <2>1. ASSUME NEW b \in DOMAIN request, b # a, Inserted(b, "user")', Inserted(a, "user")'
        PROVE  request[a].email # request[b].email
    <3>1. Inserted(b, "user")
      BY <1>3, <2>1 DEF Inserted, At
    <3>2. CASE request[a].pc = "user"
      BY <1>3, <2>1, <3>1, <3>2 DEF EmailPending, Inserted, At
    <3>3. CASE request[a].pc # "user"
      BY <1>3, <2>1, <3>1, <3>3 DEF Index, EmailIndex, Inserted, At
    <3> QED
      BY <3>2, <3>3
  <2>2. ASSUME NEW b \in DOMAIN users, Inserted(a, "user")'
        PROVE  users[b].email # request[a].email
    BY <1>3, <2>2 DEF Index, EmailIndex, EmailTaken, Inserted, At
  <2> QED
    BY <1>3, <2>1, <2>2 DEF Index, EmailIndex, Inserted, At
<1>6. BrnIndex'
  <2>1. ASSUME NEW b \in DOMAIN request, b # a, Inserted(b, "seller")', Inserted(a, "seller")',
               request[a].brn # NoBrn \/ request[b].brn # NoBrn
        PROVE  request[a].brn # request[b].brn
    <3>1. Inserted(b, "seller") /\ r.pc = "commit"
      BY <1>3, <2>1 DEF Inserted, At
    <3> QED
      BY <1>3, <2>1, <3>1 DEF BrnPending
  <2>2. ASSUME NEW b \in DOMAIN sellers, Inserted(a, "seller")'
        PROVE  sellers[b].brn # request[a].brn
    BY <1>3, <2>2 DEF Index, Numbers, BrnTaken, Inserted, At
  <2> QED
    BY <1>3, <2>1, <2>2 DEF Index, BrnIndex, Inserted, At
<1>7. SellersWhole'
  BY DEF Index, SellersWhole
<1>8. RefusedOnlyForTaken'
  BY <1>3 DEF Index, RefusedOnlyForTaken, At, EmailTaken, BrnTaken
<1> QED
  BY <1>2, <1>4, <1>5, <1>6, <1>7, <1>8 DEF Index

(* The row of a user is inserted when the index has and awaits no equal.  *)
LEMMA InsertUserIndex ==
    ASSUME TypeOK, Index, NEW a \in Account, InsertUser(a)
    PROVE  TypeOK' /\ Index'
<1> DEFINE r == [request[a] EXCEPT !.pc = IF request[a].brn = NoBrn THEN "commit" ELSE "seller",
                                   !.created_at = clock']
<1>1. /\ a \in DOMAIN request /\ request[a] \in Request /\ request[a].pc = "user"
      /\ clock' \in 0..MaxClock
      /\ ~EmailTaken(a) /\ ~EmailPending(a)
      /\ UNCHANGED <<users, sellers, walk>>
  BY DEF InsertUser, At, TypeOK, IsTable
<1>2. r \in Request /\ request' = [request EXCEPT ![a] = r]
  BY <1>1 DEF InsertUser, Request
<1>3. /\ r.email = request[a].email /\ r.brn = request[a].brn
      /\ r.pc = IF request[a].brn = NoBrn THEN "commit" ELSE "seller"
  BY <1>1 DEF Request
<1>4. walk' \in Walk
  BY <1>1 DEF TypeOK
<1> HIDE DEF r
<1> QED
  BY <1>1, <1>2, <1>3, <1>4, MoveIndex

(* Inserting the seller row keeps the unique indexes.                      *)
LEMMA InsertSellerIndex ==
    ASSUME TypeOK, Index, NEW a \in Account, InsertSeller(a)
    PROVE  TypeOK' /\ Index'
<1> DEFINE r == [request[a] EXCEPT !.pc = "commit"]
<1>1. /\ a \in DOMAIN request /\ request[a] \in Request /\ request[a].pc = "seller"
      /\ ~BrnTaken(a) /\ ~BrnPending(a)
      /\ UNCHANGED <<users, sellers, clock, walk>>
  BY DEF InsertSeller, At, TypeOK, IsTable
<1>2. r \in Request /\ request' = [request EXCEPT ![a] = r]
  BY <1>1 DEF InsertSeller, Request
<1>3. r.email = request[a].email /\ r.brn = request[a].brn /\ r.pc = "commit"
  BY <1>1 DEF Request
<1>4. walk' \in Walk /\ clock' \in 0..MaxClock
  BY <1>1 DEF TypeOK
<1> HIDE DEF r
<1> QED
  BY <1>1, <1>2, <1>3, <1>4, MoveIndex

(* A conflict is with a committed row.  *)
LEMMA RefuseIndex ==
    ASSUME TypeOK, Index, NEW a \in Account, Refuse(a)
    PROVE  TypeOK' /\ Index'
<1> DEFINE r == [request[a] EXCEPT !.pc = "refused", !.created_at = 0]
<1>1. /\ a \in DOMAIN request /\ request[a] \in Request
      /\ EmailTaken(a) \/ BrnTaken(a)
      /\ UNCHANGED <<users, sellers, clock, walk>>
  BY DEF Refuse, At, TypeOK, IsTable
<1>2. r \in Request /\ request' = [request EXCEPT ![a] = r]
  <2>1. 0 \in 0..MaxClock
    BY BoundAssumption
  <2>2. r \in Request
    BY <1>1, <2>1 DEF Request
  <2>3. request' = [request EXCEPT ![a] = r]
    BY <1>1 DEF Refuse, Request
  <2> QED
    BY <2>2, <2>3
<1>3. r.email = request[a].email /\ r.brn = request[a].brn /\ r.pc = "refused"
  BY <1>1 DEF Request
<1>4. walk' \in Walk /\ clock' \in 0..MaxClock
  BY <1>1 DEF TypeOK
<1> HIDE DEF r
<1> QED
  BY <1>1, <1>2, <1>3, <1>4, MoveIndex

(* A rollback takes the rows it inserted out of the indexes.  *)
LEMMA FailIndex ==
    ASSUME TypeOK, Index, NEW a \in Account, Fail(a)
    PROVE  TypeOK' /\ Index'
<1>1. request' = Delete(request, a) /\ UNCHANGED <<users, sellers, clock, walk>>
  BY DEF Fail
<1>2. IsTable(request', Account, Request)
  BY <1>1 DEF IsTable, Delete, TypeOK
<1>3. TypeOK'
  BY <1>1, <1>2 DEF TypeOK
<1>4. /\ DOMAIN request' = DOMAIN request \ {a}
      /\ \A b \in DOMAIN request' : request'[b] = request[b]
  BY <1>1 DEF Delete
<1>5. Spelled' /\ Numbers' /\ (DOMAIN request \cap DOMAIN users)' = {}
  BY <1>1, <1>4 DEF Index, Spelled, Numbers
<1>6. EmailIndex' /\ BrnIndex' /\ SellersWhole'
  BY <1>1, <1>4 DEF Index, EmailIndex, BrnIndex, SellersWhole, Inserted, At
<1>7. RefusedOnlyForTaken'
  BY <1>1, <1>4 DEF Index, RefusedOnlyForTaken, At, EmailTaken, BrnTaken
<1> QED
  BY <1>3, <1>5, <1>6, <1>7 DEF Index

(* What a commit adds was inserted, so that no other row has its keys.  *)
LEMMA CommitIndex ==
    ASSUME TypeOK, Index, NEW a \in Account, Commit(a), walk' \in Walk
    PROVE  TypeOK' /\ Index'
<1> DEFINE u == [email |-> request[a].email,
                 role |-> IF request[a].brn = NoBrn THEN "BUYER" ELSE "SELLER"]
           s == [brn |-> request[a].brn, approval_status |-> "PENDING",
                 created_at |-> request[a].created_at]
<1>1. /\ a \in DOMAIN request /\ request[a] \in Request /\ request[a].pc = "commit"
      /\ a \notin DOMAIN users /\ a \notin DOMAIN sellers
      /\ request' = Delete(request, a)
      /\ users' = Insert(users, a, u)
      /\ sellers' = IF request[a].brn = NoBrn THEN sellers ELSE Insert(sellers, a, s)
      /\ UNCHANGED clock
  BY DEF Commit, AddUser, AddSeller, At, TypeOK, IsTable, Index, SellersWhole
<1>2. u \in User /\ (request[a].brn # NoBrn => s \in Seller)
  <2>1. u \in User
    BY <1>1 DEF Request, User
  <2>2. request[a].brn # NoBrn => s \in Seller
    BY <1>1 DEF Request, Seller
  <2> QED
    BY <2>1, <2>2
<1>3. TypeOK'
  <2>1. IsTable(request', Account, Request)
    BY <1>1 DEF IsTable, Delete, TypeOK
  <2>2. IsTable(users', Account, User)
    BY <1>1, <1>2 DEF IsTable, Insert, TypeOK
  <2>3. IsTable(sellers', Account, Seller)
    <3>1. CASE request[a].brn = NoBrn
      BY <1>1, <3>1 DEF TypeOK
    <3>2. CASE request[a].brn # NoBrn
      BY <1>1, <1>2, <3>2 DEF IsTable, Insert, TypeOK
    <3> QED
      BY <3>1, <3>2
  <2> QED
    BY <1>1, <2>1, <2>2, <2>3 DEF TypeOK
<1>4. /\ DOMAIN request' = DOMAIN request \ {a}
      /\ \A b \in DOMAIN request' : request'[b] = request[b]
  BY <1>1 DEF Delete
<1>5. /\ DOMAIN users' = DOMAIN users \cup {a}
      /\ users'[a].email = request[a].email
      /\ users'[a].role = IF request[a].brn = NoBrn THEN "BUYER" ELSE "SELLER"
      /\ \A b \in DOMAIN users : users'[b] = users[b]
  BY <1>1 DEF Insert
<1>6. /\ DOMAIN sellers' = IF request[a].brn = NoBrn THEN DOMAIN sellers
                                                   ELSE DOMAIN sellers \cup {a}
      /\ request[a].brn # NoBrn => sellers'[a].brn = request[a].brn
      /\ \A b \in DOMAIN sellers : sellers'[b] = sellers[b]
  BY <1>1 DEF Insert
<1> HIDE DEF u, s
<1>7. Spelled' /\ Numbers' /\ (DOMAIN request \cap DOMAIN users)' = {}
  BY <1>1, <1>4, <1>5, <1>6 DEF Index, Spelled, Numbers
<1>8. EmailIndex'
  BY <1>1, <1>4, <1>5 DEF Index, EmailIndex, Inserted, At
<1>9. BrnIndex'
  BY <1>1, <1>4, <1>6 DEF Index, BrnIndex, Inserted, At
<1>10. SellersWhole'
  BY <1>1, <1>5, <1>6 DEF Index, SellersWhole
<1>11. RefusedOnlyForTaken'
  <2> SUFFICES ASSUME NEW b \in Account, At(b, "refused")'
               PROVE  EmailTaken(b)' \/ BrnTaken(b)'
    BY DEF RefusedOnlyForTaken
  <2>1. At(b, "refused") /\ request'[b] = request[b]
    BY <1>4 DEF At
  <2> QED
    BY <1>5, <1>6, <2>1 DEF Index, RefusedOnlyForTaken, EmailTaken, BrnTaken
<1> QED
  BY <1>3, <1>7, <1>8, <1>9, <1>10, <1>11 DEF Index

(* A decision changes no key.  *)
LEMMA ApproveIndex ==
    ASSUME TypeOK, Index, NEW a \in Account, Approve(a), walk' \in Walk
    PROVE  TypeOK' /\ Index'
<1> DEFINE s == [sellers[a] EXCEPT !.approval_status = "APPROVED"]
<1>1. /\ a \in DOMAIN sellers /\ sellers[a] \in Seller
      /\ sellers' = [sellers EXCEPT ![a] = s]
      /\ UNCHANGED <<request, users, clock>>
  BY DEF Approve, Listed, TypeOK, IsTable
<1>2. s \in Seller /\ s.brn = sellers[a].brn
  BY <1>1 DEF Seller
<1> HIDE DEF s
<1>3. IsTable(sellers', Account, Seller)
  BY <1>1, <1>2 DEF IsTable, TypeOK
<1>4. TypeOK'
  BY <1>1, <1>3 DEF TypeOK
<1>5. DOMAIN sellers' = DOMAIN sellers /\ \A b \in DOMAIN sellers : sellers'[b].brn = sellers[b].brn
  BY <1>1, <1>2
<1>6. Spelled' /\ Numbers' /\ (DOMAIN request \cap DOMAIN users)' = {}
  BY <1>1, <1>5 DEF Index, Spelled, Numbers
<1>7. EmailIndex' /\ BrnIndex' /\ SellersWhole'
  BY <1>1, <1>5 DEF Index, EmailIndex, BrnIndex, SellersWhole, Inserted, At
<1>8. RefusedOnlyForTaken'
  BY <1>1, <1>5 DEF Index, RefusedOnlyForTaken, At, EmailTaken, BrnTaken
<1> QED
  BY <1>4, <1>6, <1>7, <1>8 DEF Index
-----------------------------------------------------------------------------
(* The list.  *)

(* The list and what is newer than a walk are finite.                      *)
LEMMA ListedFinite ==
    ASSUME IsFiniteSet(DOMAIN sellers)
    PROVE  /\ IsFiniteSet(Listed(sellers)) /\ Cardinality(Listed(sellers)) \in Nat
           /\ \A a : IsFiniteSet(Newer(a)) /\ Cardinality(Newer(a)) \in Nat
<1>1. Listed(sellers) \in SUBSET DOMAIN sellers
  BY DEF Listed
<1>2. \A a : Newer(a) \in SUBSET DOMAIN sellers
  BY DEF Listed, Newer
<1> QED
  BY <1>1, <1>2, FS_Subset, FS_CardinalityType

(* The history of a walk is updated field by field.  *)
LEMMA WatchEffect ==
    ASSUME NEW table, walk \in Walk, Watch(table)
    PROVE  /\ walk' \in Walk
           /\ walk'.pc = walk.pc /\ walk'.page = walk.page
           /\ walk'.page_size = walk.page_size /\ walk'.total = walk.total
           /\ walk'.shown = walk.shown
           /\ walk'.listed = walk.listed \cap Listed(table)
           /\ ~walk'.disturbed =>
                 /\ ~walk.disturbed
                 /\ Listed(sellers) \subseteq Listed(table)
                 /\ walk.pc = "read" => Listed(table) = Listed(sellers)
<1> DEFINE d == walk.disturbed \/ ~(Listed(sellers) \subseteq Listed(table))
                   \/ (walk.pc = "read" /\ Listed(table) # Listed(sellers))
           l == walk.listed \cap Listed(table)
<1>1. walk' = [walk EXCEPT !.listed = l, !.disturbed = d]
  BY DEF Watch
<1>2. d \in BOOLEAN /\ l \in SUBSET Account
  BY DEF Walk
<1>3. ~d => /\ ~walk.disturbed
            /\ Listed(sellers) \subseteq Listed(table)
            /\ walk.pc = "read" => Listed(table) = Listed(sellers)
  OBVIOUS
<1>4. l = walk.listed \cap Listed(table)
  OBVIOUS
<1> HIDE DEF d, l
<1>5. walk' \in Walk
  BY <1>1, <1>2 DEF Walk
<1>6. /\ walk'.pc = walk.pc /\ walk'.page = walk.page
      /\ walk'.page_size = walk.page_size /\ walk'.total = walk.total
      /\ walk'.shown = walk.shown
      /\ walk'.listed = l /\ walk'.disturbed = d
  BY <1>1 DEF Walk
<1> QED
  BY <1>3, <1>4, <1>5, <1>6

(***************************************************************************)
(* Rows are added to sellers and decided, but keep their created_at: the   *)
(* rows before one that stays on the list only become more.                *)
(***************************************************************************)
LEMMA WatchBehind ==
    ASSUME walk \in Walk, Steps, Behind, Watch(sellers'),
           IsFiniteSet(DOMAIN sellers'),
           DOMAIN sellers \subseteq DOMAIN sellers',
           \A b \in DOMAIN sellers : sellers'[b].created_at = sellers[b].created_at
    PROVE  Steps' /\ Behind'
<1>1. /\ walk'.pc = walk.pc /\ walk'.page = walk.page
      /\ walk'.page_size = walk.page_size /\ walk'.total = walk.total
      /\ walk'.shown = walk.shown
      /\ walk'.listed = walk.listed \cap Listed(sellers)'
      /\ ~walk'.disturbed =>
            /\ ~walk.disturbed
            /\ Listed(sellers) \subseteq Listed(sellers)'
            /\ walk.pc = "read" => Listed(sellers)' = Listed(sellers)
  BY WatchEffect DEF Listed
<1>2. Steps'
  BY <1>1 DEF Steps
<1>3. Tied => Tied'
  BY DEF Tied
<1>4. ASSUME ~walk'.disturbed, ~Tied' PROVE Behind'
  <2>1. ~walk.disturbed /\ ~Tied
    BY <1>1, <1>3, <1>4
  <2>2. ASSUME walk.pc \in {"count", "read"}, NEW a \in (walk.listed \ walk.shown)'
        PROVE  Cardinality(Newer(a)') >= offset_of(walk.page, walk.page_size)'
    <3>1. a \in walk.listed \ walk.shown
      BY <1>1
    <3>2. Cardinality(Newer(a)) >= offset_of(walk.page, walk.page_size)
      BY <2>1, <2>2, <3>1 DEF Behind
    <3>3. Newer(a) \in SUBSET Newer(a)'
      <4>1. Listed(sellers) \subseteq Listed(sellers)' /\ Listed(sellers) \subseteq DOMAIN sellers
        BY <1>1, <1>4 DEF Listed
      <4>2. a \in DOMAIN sellers
        BY <3>1 DEF Steps, Listed
      <4> QED
        BY <4>1, <4>2 DEF Newer
    <3>4. IsFiniteSet(Newer(a)')
      <4>1. Newer(a)' \in SUBSET (DOMAIN sellers')
        BY DEF Newer, Listed
      <4> QED
        BY <4>1, FS_Subset
    <3>5. /\ Cardinality(Newer(a)) <= Cardinality(Newer(a)')
          /\ Cardinality(Newer(a)) \in Nat /\ Cardinality(Newer(a)') \in Nat
      BY <3>3, <3>4, FS_Subset, FS_CardinalityType
    <3>6. offset_of(walk.page, walk.page_size)' = offset_of(walk.page, walk.page_size)
      BY <1>1 DEF offset_of
    <3>7. offset_of(walk.page, walk.page_size) \in Int
      BY DEF offset_of, Walk
    <3> QED
      BY <3>2, <3>5, <3>6, <3>7
  <2>3. walk.pc = "read" => walk'.total = Cardinality(Listed(sellers)')
    BY <1>1, <1>4, <2>1 DEF Behind
  <2>4. walk.pc = "done" => walk'.listed \subseteq walk'.shown
    BY <1>1, <2>1 DEF Behind
  <2> QED
    BY <1>1, <2>2, <2>3, <2>4 DEF Behind
<1> QED
  BY <1>2, <1>4 DEF Behind

(* Commit keeps the inductive invariant.                                   *)
LEMMA CommitInv ==
    ASSUME IInv, NEW a \in Account, Commit(a)
    PROVE  IInv'
<1>1. walk \in Walk /\ Watch(sellers')
  BY DEF Commit, IInv, TypeOK
<1>2. walk' \in Walk
  BY <1>1, WatchEffect
<1>3. TypeOK' /\ Index'
  BY <1>2, CommitIndex DEF IInv
<1>4. sellers' = sellers \/ (a \notin DOMAIN sellers
                             /\ \E s : sellers' = Insert(sellers, a, s))
  BY DEF Commit, AddSeller, At, IInv, Index, SellersWhole
<1>5. /\ DOMAIN sellers \subseteq DOMAIN sellers'
      /\ DOMAIN sellers' \in {DOMAIN sellers, DOMAIN sellers \cup {a}}
      /\ \A b \in DOMAIN sellers : sellers'[b].created_at = sellers[b].created_at
  BY <1>4 DEF Insert
<1>6. IsFiniteSet(DOMAIN sellers')
  BY <1>5, FS_AddElement DEF IInv
<1>7. Steps' /\ Behind'
  BY <1>1, <1>5, <1>6, WatchBehind DEF IInv
<1> QED
  BY <1>3, <1>6, <1>7 DEF IInv

(* Approve keeps the inductive invariant.                                  *)
LEMMA ApproveInv ==
    ASSUME IInv, NEW a \in Account, Approve(a)
    PROVE  IInv'
<1>1. walk \in Walk /\ Watch(sellers')
  BY DEF Approve, IInv, TypeOK
<1>2. walk' \in Walk
  BY <1>1, WatchEffect
<1>3. TypeOK' /\ Index'
  BY <1>2, ApproveIndex DEF IInv
<1>4. /\ DOMAIN sellers' = DOMAIN sellers
      /\ \A b \in DOMAIN sellers : sellers'[b].created_at = sellers[b].created_at
  BY DEF Approve, IInv, TypeOK, IsTable, Seller
<1>5. IsFiniteSet(DOMAIN sellers')
  BY <1>4 DEF IInv
<1>6. Steps' /\ Behind'
  BY <1>1, <1>4, <1>5, WatchBehind DEF IInv
<1> QED
  BY <1>3, <1>5, <1>6 DEF IInv

(* Until it commits, a registration is nothing to the list.  *)
LEMMA Unlisted ==
    ASSUME IInv, UNCHANGED <<sellers, walk>>, TypeOK', Index'
    PROVE  IInv'
<1>1. Steps'
  BY DEF IInv, Steps, Listed
<1>2. Behind'
  BY DEF IInv, Behind, Tied, Newer, Listed
<1> QED
  BY <1>1, <1>2 DEF IInv

(* The walk only reads.  *)
LEMMA OnlyWalk ==
    ASSUME IInv, UNCHANGED accounts, walk' \in Walk
    PROVE  TypeOK' /\ Index' /\ IsFiniteSet(DOMAIN sellers')
<1>1. UNCHANGED <<request, users, sellers, clock>>
  BY DEF accounts
<1>2. TypeOK'
  BY <1>1 DEF IInv, TypeOK
<1>3. Index'
  BY <1>1 DEF IInv, Index, Spelled, Numbers, EmailIndex, BrnIndex, SellersWhole,
              RefusedOnlyForTaken, Inserted, At, EmailTaken, BrnTaken
<1> QED
  BY <1>1, <1>2, <1>3 DEF IInv

(* StartWalk keeps the inductive invariant.                                *)
LEMMA StartWalkInv ==
    ASSUME IInv, NEW page_size \in PageSizes, StartWalk(page_size)
    PROVE  IInv'
<1>1. /\ walk.pc = "idle" /\ walk.page = 1 /\ walk.shown = {} /\ walk \in Walk
      /\ walk' = [walk EXCEPT !.pc = "count", !.page_size = page_size,
                              !.listed = Listed(sellers), !.disturbed = FALSE]
      /\ UNCHANGED accounts
      /\ page_size \in Nat \ {0}
  BY BoundAssumption DEF StartWalk, IInv, TypeOK, Steps
<1>2. Listed(sellers) \in SUBSET Account
  BY DEF Listed, IInv, TypeOK, IsTable
<1>3. /\ walk'.pc = "count" /\ walk'.page = 1 /\ walk'.page_size = page_size
      /\ walk'.listed = Listed(sellers) /\ walk'.shown = {} /\ walk' \in Walk
  BY <1>1, <1>2 DEF Walk
<1>4. sellers' = sellers
  BY <1>1 DEF accounts
<1>5. Steps'
  BY <1>1, <1>3, <1>4 DEF Steps, Listed
<1>6. Behind'
  <2>1. offset_of(walk.page, walk.page_size)' = 0
    BY <1>1, <1>3 DEF offset_of
  <2>2. \A a : Newer(a)' = Newer(a)
    BY <1>4 DEF Newer, Listed
  <2>3. \A a : Cardinality(Newer(a)) >= 0
    BY ListedFinite DEF IInv
  <2> QED
    BY <1>3, <2>1, <2>2, <2>3 DEF Behind
<1> QED
  BY <1>1, <1>3, <1>5, <1>6, OnlyWalk DEF IInv

(* Count keeps the inductive invariant.                                    *)
LEMMA CountInv ==
    ASSUME IInv, Count
    PROVE  IInv'
<1>1. /\ walk.pc = "count" /\ walk \in Walk
      /\ walk' = [walk EXCEPT !.pc = "read", !.total = Cardinality(Listed(sellers))]
      /\ UNCHANGED accounts
  BY DEF Count, IInv, TypeOK
<1>2. Cardinality(Listed(sellers)) \in Nat
  BY ListedFinite DEF IInv
<1>3. /\ walk'.pc = "read" /\ walk'.page = walk.page /\ walk'.page_size = walk.page_size
      /\ walk'.listed = walk.listed /\ walk'.shown = walk.shown
      /\ walk'.total = Cardinality(Listed(sellers))
      /\ walk'.disturbed = walk.disturbed /\ walk' \in Walk
  BY <1>1, <1>2 DEF Walk
<1>4. sellers' = sellers
  BY <1>1 DEF accounts
<1>5. Steps'
  BY <1>1, <1>3, <1>4 DEF IInv, Steps, Listed
<1>6. Behind'
  <2>1. offset_of(walk.page, walk.page_size)' = offset_of(walk.page, walk.page_size)
    BY <1>3 DEF offset_of
  <2>2. \A a : Newer(a)' = Newer(a)
    BY <1>4 DEF Newer, Listed
  <2>3. (Tied' <=> Tied) /\ Listed(sellers)' = Listed(sellers)
    BY <1>4 DEF Tied, Listed
  <2> QED
    BY <1>1, <1>3, <2>1, <2>2, <2>3 DEF IInv, Behind
<1> QED
  BY <1>1, <1>3, <1>5, <1>6, OnlyWalk DEF IInv

(***************************************************************************)
(* Without ties there is one order, in which a row has the place that its  *)
(* newer rows leave it.                                                    *)
(***************************************************************************)
LEMMA Place ==
    ASSUME TypeOK, IsFiniteSet(DOMAIN sellers), ~Tied,
           NEW s \in Orders, NEW a \in Listed(sellers)
    PROVE  /\ DOMAIN s = 1..Cardinality(Listed(sellers))
           /\ Cardinality(Newer(a)) + 1 \in DOMAIN s
           /\ s[Cardinality(Newer(a)) + 1] = a
<1> DEFINE S == Listed(sellers)
           n == Cardinality(S)
<1>1. IsFiniteSet(S) /\ n \in Nat
  BY ListedFinite
<1>2. /\ s \in [1..n -> S]
      /\ \A i, j \in 1..n : i # j => s[i] # s[j]
      /\ \A i, j \in 1..n :
           i < j => sellers[s[i]].created_at >= sellers[s[j]].created_at
  BY DEF Orders, SetToSeqs
<1>3. \A x \in S : x \in DOMAIN sellers /\ sellers[x].created_at \in Int
  BY DEF Listed, TypeOK, IsTable, Seller
<1>4. PICK i \in 1..n : s[i] = a
  <2>1. s \in Injection(1..n, S)
    BY <1>2 DEF Injection, IsInjective
  <2>2. IsFiniteSet(1..n) /\ Cardinality(1..n) = n
    BY <1>1, FS_Interval
  <2>3. s \in Surjection(1..n, S)
    BY <1>1, <2>1, <2>2, FS_Injection
  <2> QED
    BY <2>3 DEF Surjection
<1> HIDE DEF S, n
<1>5. Newer(a) = {s[j] : j \in 1..(i - 1)}
  <2>1. ASSUME NEW j \in 1..(i - 1) PROVE s[j] \in Newer(a)
    <3>1. j \in 1..n /\ j < i /\ j # i
      BY <1>1, <2>1
    <3>2. s[j] # a /\ s[j] \in S /\ sellers[s[j]].created_at >= sellers[a].created_at
      BY <1>2, <1>4, <3>1
    <3>3. sellers[s[j]].created_at # sellers[a].created_at
      BY <1>3, <3>2 DEF Tied, S
    <3> QED
      BY <1>3, <3>2, <3>3 DEF Newer, S
  <2>2. ASSUME NEW b \in Newer(a) PROVE \E j \in 1..(i - 1) : s[j] = b
    <3>1. b \in S /\ sellers[b].created_at > sellers[a].created_at
      BY DEF Newer, S
    <3>2. PICK j \in 1..n : s[j] = b
      <4>1. s \in Injection(1..n, S)
        BY <1>2 DEF Injection, IsInjective
      <4>2. IsFiniteSet(1..n) /\ Cardinality(1..n) = n
        BY <1>1, FS_Interval
      <4>3. s \in Surjection(1..n, S)
        BY <1>1, <4>1, <4>2, FS_Injection DEF n
      <4> QED
        BY <3>1, <4>3 DEF Surjection
    <3>3. ~(i <= j)
      BY <1>1, <1>2, <1>3, <1>4, <3>1, <3>2
    <3> QED
      BY <1>1, <3>2, <3>3
  <2> QED
    BY <2>1, <2>2
<1>6. Cardinality(Newer(a)) = i - 1
  <2> DEFINE f == [j \in 1..(i - 1) |-> s[j]]
  <2>1. f \in Injection(1..(i - 1), Newer(a)) /\ f \in Surjection(1..(i - 1), Newer(a))
    BY <1>1, <1>2, <1>5 DEF Injection, IsInjective, Surjection
  <2>2. ExistsBijection(1..(i - 1), Newer(a))
    BY <2>1 DEF ExistsBijection, Bijection
  <2> QED
    BY <1>1, <2>2, FS_CountingElements
<1> QED
  BY <1>1, <1>2, <1>4, <1>6 DEF S, n

(* total_pages pages of this size have room for all.  *)
LEMMA PagesCover ==
    ASSUME NEW total \in Nat, NEW page_size \in Nat \ {0}, NEW page \in Nat,
           ~(page < total_pages(total, page_size))
    PROVE  page * page_size >= total
<1> DEFINE q == (total + page_size - 1) \div page_size
           m == total + page_size - 1
<1>1. m \in Nat /\ q \in Nat /\ m < page_size * (q + 1)
  OBVIOUS
<1>2. page >= q
  BY <1>1 DEF total_pages
<1> HIDE DEF q
<1>3. page * page_size >= q * page_size
  BY <1>1, <1>2
<1>4. page_size * (q + 1) = q * page_size + page_size
  BY <1>1
<1> QED
  BY <1>1, <1>3, <1>4

(***************************************************************************)
(* A row that is behind the walk and not on the page read is behind by     *)
(* that page as well; behind the last page there is none.                  *)
(***************************************************************************)
LEMMA ReadInv ==
    ASSUME IInv, Read
    PROVE  IInv'
<1> DEFINE more == walk.page < total_pages(walk.total, walk.page_size)
<1>1. PICK s \in Orders :
        walk' = [walk EXCEPT !.shown = @ \cup PageOf(s),
                             !.pc = IF more THEN "count" ELSE "done",
                             !.page = IF more THEN @ + 1 ELSE @]
  BY DEF Read
<1>2. /\ walk.pc = "read" /\ walk \in Walk /\ UNCHANGED accounts
      /\ walk.page \in Nat \ {0} /\ walk.page_size \in Nat \ {0} /\ walk.total \in Nat
  BY DEF Read, IInv, TypeOK, Steps, Walk
<1>3. PageOf(s) \in SUBSET Account
  <2>1. \A i \in DOMAIN s : s[i] \in Account
    BY DEF Orders, SetToSeqs, Listed, IInv, TypeOK, IsTable
  <2> QED
    BY <2>1 DEF PageOf
<1> HIDE DEF more
<1>4. /\ walk'.pc = IF more THEN "count" ELSE "done"
      /\ walk'.page = IF more THEN walk.page + 1 ELSE walk.page
      /\ walk'.page_size = walk.page_size
      /\ walk'.listed = walk.listed
      /\ walk'.shown = walk.shown \cup PageOf(s)
      /\ walk'.disturbed = walk.disturbed
  BY <1>1, <1>2 DEF Walk
<1>5. walk' \in Walk
  <2>1. walk.shown \cup PageOf(s) \in SUBSET Account
    BY <1>2, <1>3 DEF Walk
  <2>2. (IF more THEN walk.page + 1 ELSE walk.page) \in Nat
    BY <1>2
  <2> QED
    BY <1>1, <1>2, <2>1, <2>2 DEF Walk
<1>6. sellers' = sellers
  BY <1>2 DEF accounts
<1>7. Steps'
  BY <1>2, <1>4, <1>6 DEF IInv, Steps, Listed
<1>8. ASSUME ~walk.disturbed, ~Tied, NEW a \in walk.listed \ walk.shown, a \notin PageOf(s)
      PROVE  more /\ Cardinality(Newer(a)) >= walk.page * walk.page_size
  <2> DEFINE c == Cardinality(Newer(a))
             total == Cardinality(Listed(sellers))
             offset == offset_of(walk.page, walk.page_size)
  <2>1. /\ a \in Listed(sellers)
        /\ c >= offset
        /\ walk.total = total
    BY <1>2, <1>8 DEF IInv, Behind, Steps
  <2>2. DOMAIN s = 1..total /\ c + 1 \in DOMAIN s /\ s[c + 1] = a
    BY <1>8, <2>1, Place DEF IInv
  <2>3. c \in Nat /\ total \in Nat
    BY ListedFinite DEF IInv
  <2>4. offset \in Nat /\ offset + walk.page_size = walk.page * walk.page_size
    BY <1>2 DEF offset_of
  <2>5. c + 1 \notin (offset + 1)..(offset + walk.page_size)
    BY <1>8, <2>2 DEF PageOf
  <2> HIDE DEF c, total, offset
  <2>6. c >= walk.page * walk.page_size
    BY <1>2, <2>1, <2>3, <2>4, <2>5
  <2>7. more
    <3> SUFFICES ASSUME ~more PROVE FALSE
      OBVIOUS
    <3>1. walk.page * walk.page_size >= walk.total
      BY <1>2, PagesCover DEF more
    <3>2. c + 1 <= total
      BY <2>2, <2>3
    <3>3. walk.page * walk.page_size \in Nat
      BY <1>2
    <3> QED
      BY <2>1, <2>3, <2>6, <3>1, <3>2, <3>3
  <2> QED
    BY <2>6, <2>7 DEF c
<1>9. Behind'
  <2>1. (Tied' <=> Tied) /\ \A a : Newer(a)' = Newer(a)
    BY <1>6 DEF Tied, Newer, Listed
  <2>2. more => offset_of(walk.page, walk.page_size)' = walk.page * walk.page_size
    BY <1>2, <1>4 DEF offset_of
  <2> QED
    BY <1>4, <1>8, <2>1, <2>2 DEF Behind
<1> QED
  BY <1>2, <1>5, <1>7, <1>9, OnlyWalk DEF IInv
-----------------------------------------------------------------------------
(* The theorems.  *)

(* The initial states satisfy the inductive invariant.                     *)
LEMMA InitInv == Init => IInv
<1> SUFFICES ASSUME Init PROVE IInv
  OBVIOUS
<1>1. /\ request = EmptyTable /\ users = EmptyTable /\ sellers = EmptyTable
      /\ DOMAIN EmptyTable = {}
  BY DEF IsTable, EmptyTable, Init
<1>2. TypeOK
  <2>1. walk \in Walk /\ clock \in 0..MaxClock
    BY BoundAssumption DEF Init, Walk
  <2> QED
    BY <1>1, <2>1 DEF IsTable, EmptyTable, TypeOK
<1>3. Index
  BY <1>1 DEF Index, Spelled, Numbers, EmailIndex, BrnIndex, SellersWhole,
              RefusedOnlyForTaken, At
<1>4. Steps /\ Behind
  BY <1>1 DEF Init, Steps, Behind
<1> QED
  BY <1>1, <1>2, <1>3, <1>4, FS_EmptySet DEF IInv

(* Every step keeps the inductive invariant.                               *)
LEMMA NextInv == IInv /\ [Next]_vars => IInv'
<1> SUFFICES ASSUME IInv, [Next]_vars PROVE IInv'
  OBVIOUS
<1>1. ASSUME NEW a \in Account, NEW address \in Address, NEW brn \in Brn \cup {NoBrn},
             Register(a, address, brn)
      PROVE  IInv'
  <2>1. TypeOK' /\ Index'
    BY <1>1, RegisterIndex DEF IInv
  <2>2. UNCHANGED <<sellers, walk>>
    BY <1>1 DEF Register
  <2> QED
    BY <2>1, <2>2, Unlisted
<1>2. ASSUME NEW a \in Account, InsertUser(a) \/ InsertSeller(a) \/ Refuse(a) \/ Fail(a)
      PROVE  IInv'
  <2>1. TypeOK' /\ Index'
    BY <1>2, InsertUserIndex, InsertSellerIndex, RefuseIndex, FailIndex DEF IInv
  <2>2. UNCHANGED <<sellers, walk>>
    BY <1>2 DEF InsertUser, InsertSeller, Refuse, Fail
  <2> QED
    BY <2>1, <2>2, Unlisted
<1>3. CASE UNCHANGED vars
  <2>1. UNCHANGED accounts /\ walk' = walk
    BY <1>3 DEF vars, accounts
  <2>2. TypeOK' /\ Index'
    BY <2>1, OnlyWalk DEF IInv, TypeOK
  <2> QED
    BY <2>1, <2>2, Unlisted DEF accounts
<1> QED
  BY <1>1, <1>2, <1>3, CommitInv, ApproveInv, StartWalkInv, CountInv, ReadInv DEF Next

(* Index, Steps and Behind hold throughout, however registrations and pages interleave.  *)
THEOREM Invariance == Spec => []IInv
<1> QED
  BY InitInv, NextInv, PTL DEF Spec

(* Registrations, accounts and the walk are records of their types.  *)
THEOREM TypeCorrect == Spec => []TypeOK
<1>1. IInv => TypeOK
  BY DEF IInv
<1> QED
  BY <1>1, Invariance, PTL

(***************************************************************************)
(* However many registrations race, the unique indexes and the one         *)
(* transaction leave an email and a number one account, and a seller's     *)
(* account its seller.                                                     *)
(***************************************************************************)
THEOREM AccountsAreWhole == Spec => []AccountsWhole
<1>1. IInv => AccountsWhole
  BY DEF IInv, Index, Spelled, EmailIndex, BrnIndex, SellersWhole, AccountsWhole
<1> QED
  BY <1>1, Invariance, PTL

(* A 409 is for a row that is committed, and stays true.  *)
THEOREM ConflictsAreReal == Spec => []RefusedOnlyForTaken
<1>1. IInv => RefusedOnlyForTaken
  BY DEF IInv, Index
<1> QED
  BY <1>1, Invariance, PTL

(***************************************************************************)
(* Reading page after page up to total_pages misses no seller, for any     *)
(* size of page and any number of sellers that register on the way.        *)
(***************************************************************************)
THEOREM WalksAreComplete == Spec => []WalkComplete
<1>1. IInv => WalkComplete
  BY DEF IInv, Behind, Tied, WalkComplete
<1> QED
  BY <1>1, Invariance, PTL
=============================================================================
