-------------------------- MODULE Onboarding_proofs --------------------------
(***************************************************************************)
(* Proofs of Onboarding, for any number of sellers, documents, admins and  *)
(* overlapping requests: bytes have a row, sellers that list were vetted,  *)
(* and where no commit was made from a stale copy every decision and       *)
(* confirmation is announced once and stands.                              *)
(***************************************************************************)
EXTENDS Onboarding, TLAPS

Approved(s) == s \in DOMAIN seller /\ seller[s].status = "APPROVED"
Uploaded(d) == d \in DOMAIN document /\ document[d].status = "UPLOADED"

(* What a decision still knows of the row it loaded: the row is there, and *)
(* after its commit, unless raced, has the status it is about to mail.     *)
DecisionKnows(q) ==
    /\ q.id \in DOMAIN seller
    /\ q.op = "approve" => q.loaded.status = "PENDING" /\ q.wanted.status = "APPROVED"
    /\ q.op = "reject" => q.loaded.status # "APPROVED" /\ q.wanted.status = "REJECTED"
    /\ q.pc = "announce" /\ q.id \notin raced => seller[q.id].status = q.wanted.status

(* The key of an upload has no row before the commit, and one after it.    *)
UploadKnows(q) ==
    /\ q.pc = "commit" => q.id \notin DOMAIN document /\ q.wanted.status = "PENDING_UPLOAD"
    /\ q.pc = "respond" => q.id \in DOMAIN document

ConfirmKnows(q) ==
    /\ q.id \in DOMAIN document
    /\ q.loaded.status # "UPLOADED" /\ q.wanted.status = "UPLOADED"
    /\ q.pc = "announce" /\ q.id \notin raced => Uploaded(q.id)

(* A listing was let in for a vetted seller, approved unless raced.        *)
ListingKnows(s) ==
    /\ s \in vetted
    /\ s \notin raced => Approved(s)

Knows(q) ==
    /\ q.op \in {"approve", "reject"} => DecisionKnows(q)
    /\ q.op = "upload" => UploadKnows(q)
    /\ q.op = "confirm" => ConfirmKnows(q)
    /\ q.op = "list" => ListingKnows(q.id)

Serving == {req[r] : r \in DOMAIN req}
Knowing == \A q \in Serving : Knows(q)

(* The row of a seller is approved only by the commit of an approval.      *)
VettedOnly == \A s \in DOMAIN seller : seller[s].status = "APPROVED" => s \in vetted

(* No two uploads share a key.                                             *)
UploadsApart ==
    \A r, v \in DOMAIN req :
        req[r].op = "upload" /\ req[v].op = "upload" /\ req[r].id = req[v].id => r = v

KeysHaveRow == url \subseteq DOMAIN document /\ bytes \subseteq DOMAIN document

(* The requests about to announce that id was approved or confirmed.       *)
Announcing(op, id) == {r \in DOMAIN req : At(r, op, "announce") /\ req[r].id = id}

Once(op, id, count) ==
    /\ count <= 1
    /\ count = 1 => Announcing(op, id) = {}
    /\ \A r, v \in Announcing(op, id) : r = v

ApprovedOnce ==
    \A s \in Seller \ raced :
        Once("approve", s, approvals[s]) /\ (approvals[s] = 1 => Approved(s))

NoticedOnce ==
    \A d \in Document \ raced :
        Once("confirm", d, notices[d]) /\ (notices[d] = 1 => Uploaded(d))

(* What was mailed is what the row says.                                   *)
MailsStand ==
    \A s \in Seller \ raced, status \in {"APPROVED", "REJECTED"} :
        status \in mail[s] => s \in DOMAIN seller /\ seller[s].status = status

ListedKnown == \A s \in listed : ListingKnows(s)

IInv ==
    /\ TypeOK
    /\ Knowing /\ VettedOnly /\ ListedKnown
    /\ UploadsApart /\ KeysHaveRow
    /\ ApprovedOnce /\ NoticedOnce /\ MailsStand

(* What is decided or uploaded stands, except in a row that was raced; no  *)
(* row goes away, and who was vetted stays vetted even then.               *)
Stands ==
    /\ raced \subseteq raced' /\ vetted \subseteq vetted'
    /\ DOMAIN seller \subseteq DOMAIN seller'
    /\ DOMAIN document \subseteq DOMAIN document'
    /\ \A s \in DOMAIN seller \ raced' :
          seller[s].status # "PENDING" => seller'[s].status = seller[s].status
    /\ \A d \in DOMAIN document \ raced' :
          document[d].status = "UPLOADED" => document'[d].status = "UPLOADED"

(***************************************************************************)
(* Requests and what they know.                                            *)
(***************************************************************************)
Served == Decision \cup Upload \cup Listing

(* Each request in flight has the record of its operation.                 *)
LEMMA ServedTyped ==
    ASSUME TypeOK, NEW r \in DOMAIN req
    PROVE  /\ r \in Request /\ req[r] \in Served
           /\ req[r].op \in {"approve", "reject"} => req[r] \in Decision
           /\ req[r].op \in {"upload", "confirm"} => req[r] \in Upload
           /\ req[r].op = "list" => req[r] \in Listing
<1>1. r \in Request /\ req[r] \in Served
  BY DEF TypeOK, IsTable, Served
<1> QED
  BY <1>1 DEF Served, Decision, Upload, Listing

(* Rows that do not change stand.                                          *)
LEMMA SameStands ==
    ASSUME UNCHANGED <<rows, raced, vetted>>
    PROVE  Stands
<1>1. seller' = seller /\ document' = document /\ raced' = raced /\ vetted' = vetted
  BY DEF rows
<1> QED
  BY <1>1 DEF Stands

(* What a listing knows of its seller stands.                              *)
LEMMA ListingStands ==
    ASSUME Stands, NEW s, ListingKnows(s)
    PROVE  ListingKnows(s)'
BY DEF Stands, ListingKnows, Approved

(* What a request knows of the rows stands.                                *)
LEMMA KnowsStands ==
    ASSUME Stands, NEW q, Knows(q),
           q.op = "upload" /\ q.pc = "commit" => q.id \notin DOMAIN document'
    PROVE  Knows(q)'
<1>1. CASE q.op \in {"approve", "reject"}
  <2>1. DecisionKnows(q)
    BY <1>1 DEF Knows
  <2>2. q.id \in DOMAIN seller'
    BY <2>1 DEF DecisionKnows, Stands
  <2>3. q.wanted.status # "PENDING"
    BY <1>1, <2>1 DEF DecisionKnows
  <2>4. q.pc = "announce" /\ q.id \notin raced' => seller'[q.id].status = q.wanted.status
    BY <2>1, <2>3 DEF DecisionKnows, Stands
  <2>5. DecisionKnows(q)'
    BY <2>1, <2>2, <2>4 DEF DecisionKnows
  <2> QED
    BY <1>1, <2>5 DEF Knows
<1>2. CASE q.op = "upload"
  BY <1>2 DEF Knows, UploadKnows, Stands
<1>3. CASE q.op = "confirm"
  BY <1>3 DEF Knows, ConfirmKnows, Uploaded, Stands
<1>4. CASE q.op = "list"
  BY <1>4, ListingStands DEF Knows
<1>5. CASE q.op \notin {"approve", "reject", "upload", "confirm", "list"}
  BY <1>5 DEF Knows
<1> QED
  BY <1>1, <1>2, <1>3, <1>4, <1>5

(* An announcement made at most once still is when no announcer is added.  *)
LEMMA OnceStands ==
    ASSUME NEW op, NEW id, NEW n, Once(op, id, n),
           Announcing(op, id)' \subseteq Announcing(op, id)
    PROVE  Once(op, id, n)'
BY DEF Once

(* Nothing is announced and nobody about to announce is added.             *)
LEMMA QuietStands ==
    ASSUME IInv, Stands, UNCHANGED announced,
           \A op, id : Announcing(op, id)' \subseteq Announcing(op, id)
    PROVE  ApprovedOnce' /\ NoticedOnce' /\ MailsStand'
<1>1. mail' = mail /\ approvals' = approvals /\ notices' = notices
  BY DEF announced
<1>2. ASSUME NEW s \in Seller \ raced'
      PROVE  Once("approve", s, approvals[s])' /\ (approvals'[s] = 1 => Approved(s)')
  <2>1. Once("approve", s, approvals[s]) /\ (approvals[s] = 1 => Approved(s))
    BY DEF Stands, IInv, ApprovedOnce
  <2>2. Approved(s) => Approved(s)'
    BY DEF Stands, Approved
  <2>3. PICK n : n = approvals[s]
    OBVIOUS
  <2>4. Once("approve", s, n)'
    BY <2>1, <2>3, OnceStands
  <2> QED
    BY <1>1, <2>1, <2>2, <2>3, <2>4 DEF Once
<1>3. ASSUME NEW d \in Document \ raced'
      PROVE  Once("confirm", d, notices[d])' /\ (notices'[d] = 1 => Uploaded(d)')
  <2>1. Once("confirm", d, notices[d]) /\ (notices[d] = 1 => Uploaded(d))
    BY DEF Stands, IInv, NoticedOnce
  <2>2. Uploaded(d) => Uploaded(d)'
    BY DEF Stands, Uploaded
  <2>3. PICK n : n = notices[d]
    OBVIOUS
  <2>4. Once("confirm", d, n)'
    BY <2>1, <2>3, OnceStands
  <2> QED
    BY <1>1, <2>1, <2>2, <2>3, <2>4 DEF Once
<1>4. MailsStand'
  BY <1>1 DEF Stands, IInv, MailsStand
<1> QED
  BY <1>2, <1>3, <1>4 DEF ApprovedOnce, NoticedOnce

(* The listings that exist stay known.                                     *)
LEMMA ListedStands ==
    ASSUME IInv, Stands, UNCHANGED listed
    PROVE  ListedKnown'
BY ListingStands DEF IInv, ListedKnown

(* A request that begins adds itself and no announcer.                     *)
LEMMA BeginEffect ==
    ASSUME NEW r, NEW q, Begin(r, q), q.pc # "announce"
    PROVE  /\ r \notin DOMAIN req /\ DOMAIN req' = DOMAIN req \cup {r} /\ req'[r] = q
           /\ \A v \in DOMAIN req : req'[v] = req[v]
           /\ \A op, id : Announcing(op, id)' \subseteq Announcing(op, id)
BY DEF Begin, Insert, Announcing, At

(* A request that ends removes itself only.                                *)
LEMMA FinishEffect ==
    ASSUME NEW r, Finish(r)
    PROVE  /\ DOMAIN req' = DOMAIN req \ {r}
           /\ \A v \in DOMAIN req' : req'[v] = req[v]
           /\ \A op, id : Announcing(op, id)' = Announcing(op, id) \ {r}
BY DEF Finish, Delete, Announcing, At

(* A request sent to its last step keeps its record.                       *)
LEMMA GotoEffect ==
    ASSUME TypeOK, NEW r \in DOMAIN req, NEW pc \in {"announce", "respond"}, Goto(r, pc),
           req[r].op = "upload" <=> pc = "respond",
           req[r].op # "list"
    PROVE  /\ DOMAIN req' = DOMAIN req /\ IsTable(req', Request, Served)
           /\ \A v \in DOMAIN req \ {r} : req'[v] = req[v]
           /\ req'[r].op = req[r].op /\ req'[r].id = req[r].id /\ req'[r].pc = pc
           /\ req'[r].loaded = req[r].loaded /\ req'[r].wanted = req[r].wanted
<1> DEFINE q == [req[r] EXCEPT !.pc = pc]
<1>1. req' = [req EXCEPT ![r] = q]
  BY DEF Goto
<1>2. req[r] \in Decision \cup Upload /\ r \in Request
  BY ServedTyped DEF Served, Listing
<1>3. /\ q.op = req[r].op /\ q.id = req[r].id /\ q.pc = pc
      /\ q.loaded = req[r].loaded /\ q.wanted = req[r].wanted
  BY <1>2 DEF Decision, Upload
<1>4. q \in Served
  <2>1. CASE req[r] \in Decision
    BY <2>1 DEF Decision, Served
  <2>2. CASE req[r] \in Upload
    BY <2>2 DEF Upload, Served
  <2> QED
    BY <1>2, <2>1, <2>2
<1> HIDE DEF q
<1>5. IsTable(req', Request, Served)
  BY <1>1, <1>4 DEF IsTable, TypeOK, Served
<1> QED
  BY <1>1, <1>3, <1>5

(***************************************************************************)
(* The steps that leave the rows alone.                                    *)
(***************************************************************************)
LEMMA RowsKept ==
    ASSUME IInv, UNCHANGED <<rows, vetted>>
    PROVE  VettedOnly'
BY DEF IInv, VettedOnly, rows

(* Begin keeps the inductive invariant.                                    *)
LEMMA BeginInv ==
    ASSUME IInv, NEW r \in Request, NEW q \in Served, Begin(r, q), q.pc # "announce", Knows(q),
           q.op = "upload" =>
               \A v \in DOMAIN req : ~(req[v].op = "upload" /\ req[v].id = q.id),
           UNCHANGED <<rows, storage, listed, announced, raced, vetted>>
    PROVE  IInv'
<1>1. /\ r \notin DOMAIN req /\ DOMAIN req' = DOMAIN req \cup {r} /\ req'[r] = q
      /\ \A v \in DOMAIN req : req'[v] = req[v]
      /\ \A op, id : Announcing(op, id)' \subseteq Announcing(op, id)
  BY BeginEffect
<1>2. Stands
  BY SameStands
<1>3. ASSUME NEW p \in Serving'
      PROVE  Knows(p)'
  <2>1. Knows(p)
    BY <1>1 DEF IInv, Knowing, Serving
  <2>2. p.op = "upload" /\ p.pc = "commit" => p.id \notin DOMAIN document'
    BY <2>1 DEF Knows, UploadKnows, rows
  <2> QED
    BY <1>2, <2>1, <2>2, KnowsStands
<1>4. Knowing'
  BY <1>3 DEF Knowing
<1>5. IsTable(req', Request, Served)
  BY DEF IsTable, Insert, IInv, TypeOK, Begin, Served
<1>6. TypeOK'
  BY <1>5 DEF IInv, TypeOK, Served, rows, storage, announced
<1>7. UploadsApart'
  BY <1>1 DEF IInv, UploadsApart
<1>8. KeysHaveRow'
  BY DEF IInv, KeysHaveRow, rows, storage
<1> QED
  BY <1>1, <1>2, <1>4, <1>6, <1>7, <1>8, RowsKept, ListedStands, QuietStands DEF IInv

(* LoadDecision keeps the inductive invariant.                             *)
LEMMA LoadDecisionInv ==
    ASSUME IInv, NEW r \in Request, NEW s \in DOMAIN seller, NEW a \in Admin,
           LoadApprove(r, s, a) \/ \E reason \in Reason : LoadReject(r, s, a, reason)
    PROVE  IInv'
<1>1. s \in Seller /\ seller[s] \in SellerRow
  BY DEF IInv, TypeOK, IsTable
<1>2. PICK op \in {"approve", "reject"}, status \in {"APPROVED", "REJECTED"},
           reason \in Reason \cup {NoReason} :
        /\ Decide(r, op, s, status, a, reason)
        /\ op = "approve" => seller[s].status = "PENDING" /\ status = "APPROVED"
        /\ op = "reject" => seller[s].status # "APPROVED" /\ status = "REJECTED"
  BY DEF LoadApprove, LoadReject
<1> DEFINE wanted == [status |-> status, by |-> a, reason |-> reason]
           q == [op |-> op, pc |-> "commit", id |-> s, loaded |-> seller[s],
                 wanted |-> wanted]
<1>3. Begin(r, q) /\ UNCHANGED <<rows, storage, listed, announced, raced, vetted>>
  BY <1>2 DEF Decide
<1>4. wanted \in SellerRow
  BY DEF SellerRow
<1>5. q \in Served
  BY <1>1, <1>4 DEF Decision, Served
<1>6. Knows(q)
  <2>1. DecisionKnows(q)
    BY <1>1, <1>2 DEF DecisionKnows
  <2> QED
    BY <2>1 DEF Knows
<1>7. q.pc # "announce" /\ q.op # "upload"
  OBVIOUS
<1> HIDE DEF q
<1> QED
  BY <1>3, <1>5, <1>6, <1>7, BeginInv

(* StartUpload keeps the inductive invariant.                              *)
LEMMA StartUploadInv ==
    ASSUME IInv, NEW r \in Request, NEW s \in DOMAIN seller, NEW d \in Document,
           StartUpload(r, s, d)
    PROVE  IInv'
<1> DEFINE row == [seller |-> s, status |-> "PENDING_UPLOAD"]
           q == [op |-> "upload", pc |-> "commit", id |-> d, loaded |-> row, wanted |-> row]
<1>1. /\ Begin(r, q) /\ d \notin DOMAIN document
      /\ \A v \in DOMAIN req : ~(req[v].op = "upload" /\ req[v].id = d)
      /\ UNCHANGED <<rows, storage, listed, announced, raced, vetted>>
  BY DEF StartUpload
<1>2. row \in DocumentRow
  BY DEF IInv, TypeOK, IsTable, DocumentRow
<1>3. q \in Served
  BY <1>2 DEF Upload, Served
<1>4. Knows(q) /\ q.pc # "announce" /\ q.id = d
  BY <1>1 DEF Knows, UploadKnows
<1> HIDE DEF q
<1> QED
  BY <1>1, <1>3, <1>4, BeginInv

(* LoadConfirm keeps the inductive invariant.                              *)
LEMMA LoadConfirmInv ==
    ASSUME IInv, NEW r \in Request, NEW d \in DOMAIN document, LoadConfirm(r, d)
    PROVE  IInv'
<1> DEFINE wanted == [document[d] EXCEPT !.status = "UPLOADED"]
           q == [op |-> "confirm", pc |-> "commit", id |-> d, loaded |-> document[d],
                 wanted |-> wanted]
<1>1. /\ Begin(r, q) /\ document[d].status # "UPLOADED"
      /\ UNCHANGED <<rows, storage, listed, announced, raced, vetted>>
  BY DEF LoadConfirm, Confirm
<1>2. d \in Document /\ document[d] \in DocumentRow
  BY DEF IInv, TypeOK, IsTable
<1>3. wanted \in DocumentRow /\ wanted.status = "UPLOADED"
  BY <1>2 DEF DocumentRow
<1> HIDE DEF wanted
<1>4. q \in Served
  BY <1>2, <1>3 DEF Upload, Served
<1>5. Knows(q) /\ q.pc # "announce" /\ q.op # "upload"
  BY <1>1, <1>3 DEF Knows, ConfirmKnows
<1> HIDE DEF q
<1> QED
  BY <1>1, <1>4, <1>5, BeginInv

(* EnterListing keeps the inductive invariant.                             *)
LEMMA EnterListingInv ==
    ASSUME IInv, NEW r \in Request, NEW s \in DOMAIN seller, EnterListing(r, s)
    PROVE  IInv'
<1> DEFINE q == [op |-> "list", pc |-> "insert", id |-> s]
<1>1. /\ Begin(r, q) /\ seller[s].status = "APPROVED"
      /\ UNCHANGED <<rows, storage, listed, announced, raced, vetted>>
  BY DEF EnterListing, Enter
<1>2. s \in Seller /\ s \in vetted /\ Approved(s)
  BY <1>1 DEF IInv, TypeOK, IsTable, VettedOnly, Approved
<1>3. q \in Served
  BY <1>2 DEF Listing, Served
<1>4. Knows(q) /\ q.pc # "announce" /\ q.op # "upload"
  BY <1>2 DEF Knows, ListingKnows
<1> HIDE DEF q
<1> QED
  BY <1>1, <1>3, <1>4, BeginInv

(* What a request that ends leaves of the others.                          *)
LEMMA FinishKeeps ==
    ASSUME IInv, NEW r, Finish(r), UNCHANGED <<rows, raced, vetted>>
    PROVE  /\ IsTable(req', Request, Served)
           /\ Knowing' /\ VettedOnly' /\ UploadsApart' /\ Stands
           /\ \A op, id : Announcing(op, id)' = Announcing(op, id) \ {r}
<1>1. /\ DOMAIN req' = DOMAIN req \ {r}
      /\ \A v \in DOMAIN req' : req'[v] = req[v]
      /\ \A op, id : Announcing(op, id)' = Announcing(op, id) \ {r}
  BY FinishEffect
<1>2. Stands
  BY SameStands
<1>3. ASSUME NEW p \in Serving'
      PROVE  Knows(p)'
  <2>1. Knows(p)
    BY <1>1 DEF IInv, Knowing, Serving
  <2>2. p.op = "upload" /\ p.pc = "commit" => p.id \notin DOMAIN document'
    BY <2>1 DEF Knows, UploadKnows, rows
  <2> QED
    BY <1>2, <2>1, <2>2, KnowsStands
<1>4. Knowing'
  BY <1>3 DEF Knowing
<1>5. IsTable(req', Request, Served)
  BY DEF IsTable, Delete, IInv, TypeOK, Finish, Served
<1>6. UploadsApart'
  BY <1>1 DEF IInv, UploadsApart
<1> QED
  BY <1>1, <1>2, <1>4, <1>5, <1>6, RowsKept

(* Fail keeps the inductive invariant.                                     *)
LEMMA FailInv ==
    ASSUME IInv, NEW r, Fail(r)
    PROVE  IInv'
<1>1. Finish(r) /\ UNCHANGED <<rows, storage, listed, announced, raced, vetted>>
  BY DEF Fail
<1>2. /\ IsTable(req', Request, Served)
      /\ Knowing' /\ VettedOnly' /\ UploadsApart' /\ Stands
      /\ \A op, id : Announcing(op, id)' \subseteq Announcing(op, id)
  BY <1>1, FinishKeeps
<1>3. TypeOK' /\ KeysHaveRow'
  BY <1>1, <1>2 DEF IInv, TypeOK, KeysHaveRow, Served, rows, storage, announced
<1> QED
  BY <1>1, <1>2, <1>3, ListedStands, QuietStands DEF IInv

(* RespondUpload keeps the inductive invariant.                            *)
LEMMA RespondUploadInv ==
    ASSUME IInv, NEW r, RespondUpload(r)
    PROVE  IInv'
<1>1. /\ Finish(r) /\ At(r, "upload", "respond") /\ url' = url \cup {req[r].id}
      /\ UNCHANGED <<rows, bytes, listed, announced, raced, vetted>>
  BY DEF RespondUpload
<1>2. req[r].id \in DOMAIN document /\ req[r].id \in Document
  BY <1>1, ServedTyped DEF At, IInv, Knowing, Serving, Knows, UploadKnows, Upload
<1>3. /\ IsTable(req', Request, Served)
      /\ Knowing' /\ VettedOnly' /\ UploadsApart' /\ Stands
      /\ \A op, id : Announcing(op, id)' \subseteq Announcing(op, id)
  BY <1>1, FinishKeeps
<1>4. TypeOK' /\ KeysHaveRow'
  BY <1>1, <1>2, <1>3 DEF IInv, TypeOK, KeysHaveRow, Served, rows, announced
<1> QED
  BY <1>1, <1>3, <1>4, ListedStands, QuietStands DEF IInv

(* InsertListing keeps the inductive invariant.                            *)
LEMMA InsertListingInv ==
    ASSUME IInv, NEW r, InsertListing(r)
    PROVE  IInv'
<1>1. /\ Finish(r) /\ At(r, "list", "insert") /\ listed' = listed \cup {req[r].id}
      /\ UNCHANGED <<rows, storage, announced, raced, vetted>>
  BY DEF InsertListing
<1>2. PICK s : s = req[r].id /\ s \in Seller /\ ListingKnows(s)
  BY <1>1, ServedTyped DEF At, IInv, Knowing, Serving, Knows, Listing
<1>3. /\ IsTable(req', Request, Served)
      /\ Knowing' /\ VettedOnly' /\ UploadsApart' /\ Stands
      /\ \A op, id : Announcing(op, id)' \subseteq Announcing(op, id)
  BY <1>1, FinishKeeps
<1>4. TypeOK' /\ KeysHaveRow'
  BY <1>1, <1>2, <1>3 DEF IInv, TypeOK, KeysHaveRow, Served, rows, storage, announced
<1>5. ListedKnown'
  BY <1>1, <1>2, <1>3, ListingStands DEF IInv, ListedKnown
<1> QED
  BY <1>1, <1>3, <1>4, <1>5, QuietStands DEF IInv

(* The one request that is about to announce it counts it.                 *)
LEMMA AnnounceOnce ==
    ASSUME NEW op, NEW id, NEW n \in Nat, NEW r, r \in Announcing(op, id), Once(op, id, n),
           Announcing(op, id)' = Announcing(op, id) \ {r}
    PROVE  n + 1 = 1 /\ Once(op, id, n + 1)'
BY DEF Once

(* MailDecision keeps the inductive invariant.                             *)
LEMMA MailDecisionInv ==
    ASSUME IInv, NEW r, MailDecision(r)
    PROVE  IInv'
<1>1. /\ Finish(r) /\ UNCHANGED <<rows, storage, listed, notices, raced, vetted>>
      /\ At(r, "approve", "announce") \/ At(r, "reject", "announce")
  BY DEF MailDecision
<1>2. PICK q : /\ q = req[r] /\ q \in Decision /\ q.pc = "announce" /\ DecisionKnows(q)
  BY <1>1, ServedTyped DEF At, IInv, Knowing, Serving, Knows
<1>3. /\ mail' = [mail EXCEPT ![q.id] = @ \cup {q.wanted.status}]
      /\ approvals' = IF q.op = "approve"
                      THEN [approvals EXCEPT ![q.id] = @ + 1] ELSE approvals
  BY <1>2 DEF MailDecision
<1>4. /\ q.id \in Seller /\ q.wanted.status \in {"APPROVED", "REJECTED"}
      /\ q.op = "approve" <=> q.wanted.status = "APPROVED"
  BY <1>2 DEF Decision, DecisionKnows
<1>5. /\ IsTable(req', Request, Served)
      /\ Knowing' /\ VettedOnly' /\ UploadsApart' /\ Stands
      /\ \A op, id : Announcing(op, id)' = Announcing(op, id) \ {r}
  BY <1>1, FinishKeeps
<1>6. TypeOK' /\ KeysHaveRow'
  BY <1>1, <1>3, <1>4, <1>5 DEF IInv, TypeOK, KeysHaveRow, Served, rows, storage
<1>7. ASSUME NEW s \in Seller \ raced'
      PROVE  Once("approve", s, approvals[s])' /\ (approvals'[s] = 1 => Approved(s)')
  <2>1. /\ Once("approve", s, approvals[s]) /\ (approvals[s] = 1 => Approved(s))
        /\ approvals[s] \in Nat /\ (Approved(s) => Approved(s)')
    BY <1>1, <1>7 DEF IInv, ApprovedOnce, TypeOK, Approved, rows
  <2>2. PICK n \in Nat : n = approvals[s]
    BY <2>1
  <2>3. CASE q.op = "approve" /\ q.id = s
    <3>1. approvals'[s] = n + 1
      BY <1>3, <2>2, <2>3 DEF IInv, TypeOK
    <3>2. r \in Announcing("approve", s)
      BY <1>1, <1>2, <2>3 DEF Announcing, At
    <3>3. Once("approve", s, n + 1)'
      BY <1>5, <2>1, <2>2, <3>2, AnnounceOnce
    <3>4. Approved(s)
      BY <1>1, <1>2, <1>7, <2>3 DEF DecisionKnows, Approved
    <3> QED
      BY <2>1, <3>1, <3>3, <3>4 DEF Once
  <2>4. CASE ~(q.op = "approve" /\ q.id = s)
    <3>1. approvals'[s] = n
      BY <1>3, <2>2, <2>4 DEF IInv, TypeOK
    <3>2. Once("approve", s, n)'
      BY <1>5, <2>1, <2>2, OnceStands
    <3> QED
      BY <2>1, <2>2, <3>1, <3>2 DEF Once
  <2> QED
    BY <2>3, <2>4
<1>8. NoticedOnce'
  <2>1. ASSUME NEW d \in Document \ raced'
        PROVE  Once("confirm", d, notices[d])' /\ (notices'[d] = 1 => Uploaded(d)')
    <3>1. PICK n : n = notices[d]
      OBVIOUS
    <3>2. Once("confirm", d, n) /\ (notices[d] = 1 => Uploaded(d)')
      BY <1>1, <2>1, <3>1 DEF IInv, NoticedOnce, Uploaded, rows
    <3>3. Once("confirm", d, n)'
      BY <1>5, <3>2, OnceStands
    <3> QED
      BY <1>1, <3>1, <3>2, <3>3 DEF Once
  <2> QED
    BY <2>1 DEF NoticedOnce
<1>9. MailsStand'
  <2>1. ASSUME NEW s \in Seller \ raced', NEW status \in {"APPROVED", "REJECTED"},
               status \in mail'[s]
        PROVE  s \in DOMAIN seller' /\ seller'[s].status = status
    <3>1. CASE status \in mail[s]
      BY <1>1, <2>1, <3>1 DEF IInv, MailsStand, rows
    <3>2. CASE s = q.id /\ status = q.wanted.status
      BY <1>1, <1>2, <2>1, <3>2 DEF DecisionKnows, rows
    <3> QED
      BY <1>3, <2>1, <3>1, <3>2 DEF IInv, TypeOK
  <2> QED
    BY <2>1 DEF MailsStand
<1> QED
  BY <1>1, <1>5, <1>6, <1>7, <1>8, <1>9, ListedStands DEF IInv, ApprovedOnce

(* NotifyAdmins keeps the inductive invariant.                             *)
LEMMA NotifyAdminsInv ==
    ASSUME IInv, NEW r, NotifyAdmins(r)
    PROVE  IInv'
<1>1. /\ Finish(r) /\ At(r, "confirm", "announce")
      /\ UNCHANGED <<rows, storage, listed, mail, approvals, raced, vetted>>
  BY DEF NotifyAdmins
<1>2. PICK q : /\ q = req[r] /\ q \in Upload /\ q.pc = "announce" /\ q.op = "confirm"
               /\ ConfirmKnows(q)
  BY <1>1, ServedTyped DEF At, IInv, Knowing, Serving, Knows
<1>3. notices' = [notices EXCEPT ![q.id] = @ + 1] /\ q.id \in Document
  BY <1>2 DEF NotifyAdmins, Upload
<1>4. /\ IsTable(req', Request, Served)
      /\ Knowing' /\ VettedOnly' /\ UploadsApart' /\ Stands
      /\ \A op, id : Announcing(op, id)' = Announcing(op, id) \ {r}
  BY <1>1, FinishKeeps
<1>5. TypeOK' /\ KeysHaveRow'
  BY <1>1, <1>3, <1>4 DEF IInv, TypeOK, KeysHaveRow, Served, rows, storage
<1>6. ASSUME NEW d \in Document \ raced'
      PROVE  Once("confirm", d, notices[d])' /\ (notices'[d] = 1 => Uploaded(d)')
  <2>1. /\ Once("confirm", d, notices[d]) /\ (notices[d] = 1 => Uploaded(d))
        /\ notices[d] \in Nat /\ (Uploaded(d) => Uploaded(d)')
    BY <1>1, <1>6 DEF IInv, NoticedOnce, TypeOK, Uploaded, rows
  <2>2. PICK n \in Nat : n = notices[d]
    BY <2>1
  <2>3. CASE q.id = d
    <3>1. notices'[d] = n + 1
      BY <1>3, <2>2, <2>3 DEF IInv, TypeOK
    <3>2. r \in Announcing("confirm", d)
      BY <1>1, <1>2, <2>3 DEF Announcing, At
    <3>3. Once("confirm", d, n + 1)'
      BY <1>4, <2>1, <2>2, <3>2, AnnounceOnce
    <3>4. Uploaded(d)
      BY <1>1, <1>2, <1>6, <2>3 DEF ConfirmKnows
    <3> QED
      BY <2>1, <3>1, <3>3, <3>4 DEF Once
  <2>4. CASE q.id # d
    <3>1. notices'[d] = n
      BY <1>3, <2>2, <2>4 DEF IInv, TypeOK
    <3>2. Once("confirm", d, n)'
      BY <1>4, <2>1, <2>2, OnceStands
    <3> QED
      BY <2>1, <2>2, <3>1, <3>2 DEF Once
  <2> QED
    BY <2>3, <2>4
<1>7. ApprovedOnce'
  <2>1. ASSUME NEW s \in Seller \ raced'
        PROVE  Once("approve", s, approvals[s])' /\ (approvals'[s] = 1 => Approved(s)')
    <3>1. PICK n : n = approvals[s]
      OBVIOUS
    <3>2. Once("approve", s, n) /\ (approvals[s] = 1 => Approved(s)')
      BY <1>1, <2>1, <3>1 DEF IInv, ApprovedOnce, Approved, rows
    <3>3. Once("approve", s, n)'
      BY <1>4, <3>2, OnceStands
    <3> QED
      BY <1>1, <3>1, <3>2, <3>3 DEF Once
  <2> QED
    BY <2>1 DEF ApprovedOnce
<1>8. MailsStand'
  BY <1>1 DEF IInv, MailsStand, rows
<1> QED
  BY <1>1, <1>4, <1>5, <1>6, <1>7, <1>8, ListedStands DEF IInv, NoticedOnce

(***************************************************************************)
(* The steps that write a row.                                             *)
(***************************************************************************)
LEMMA RegisterInv ==
    ASSUME IInv, NEW s \in Seller, Register(s)
    PROVE  IInv'
<1> DEFINE row == [status |-> "PENDING", by |-> Nobody, reason |-> NoReason]
<1>1. /\ s \notin DOMAIN seller /\ seller' = Insert(seller, s, row)
      /\ UNCHANGED <<document, storage, listed, req, announced, raced, vetted>>
  BY DEF Register
<1>2. row \in SellerRow /\ row.status = "PENDING"
  BY DEF SellerRow
<1> HIDE DEF row
<1>3. /\ DOMAIN seller' = DOMAIN seller \cup {s} /\ seller'[s] = row
      /\ \A t \in DOMAIN seller : seller'[t] = seller[t]
  BY <1>1 DEF Insert
<1>4. Stands
  BY <1>1, <1>3 DEF Stands
<1>5. IsTable(seller', Seller, SellerRow)
  BY <1>1, <1>2 DEF IsTable, Insert, IInv, TypeOK
<1>6. TypeOK' /\ KeysHaveRow' /\ UploadsApart'
  BY <1>1, <1>5 DEF IInv, TypeOK, KeysHaveRow, UploadsApart, storage, announced
<1>7. ASSUME NEW q \in Serving'
      PROVE  Knows(q)'
  <2>1. Knows(q)
    BY <1>1, <1>7 DEF IInv, Knowing, Serving
  <2>2. q.op = "upload" /\ q.pc = "commit" => q.id \notin DOMAIN document'
    BY <1>1, <2>1 DEF Knows, UploadKnows
  <2> QED
    BY <1>4, <2>1, <2>2, KnowsStands
<1>8. VettedOnly'
  BY <1>1, <1>2, <1>3 DEF IInv, VettedOnly
<1>9. \A op, id : Announcing(op, id)' = Announcing(op, id)
  BY <1>1 DEF Announcing, At
<1> QED
  BY <1>1, <1>4, <1>6, <1>7, <1>8, <1>9, ListedStands, QuietStands DEF IInv, Knowing

(* Of the rows of a table, a commit of q writes q's.                       *)
LEMMA SellerFlushed ==
    ASSUME NEW row \in SellerRow, NEW loaded \in SellerRow, NEW wanted \in SellerRow
    PROVE  LET new == Flush(row, loaded, wanted)
           IN  /\ new \in SellerRow
               /\ new.status = "APPROVED" =>
                    row.status = "APPROVED" \/ wanted.status = "APPROVED"
               /\ row = loaded => new = wanted
<1> DEFINE new == Flush(row, loaded, wanted)
           Pick(c) == IF wanted[c] # loaded[c] THEN wanted[c] ELSE row[c]
<1>1. new = [c \in {"status", "by", "reason"} |-> Pick(c)]
  BY DEF Flush, SellerRow
<1>2. new = [status |-> Pick("status"), by |-> Pick("by"), reason |-> Pick("reason")]
  BY <1>1
<1>3. new \in SellerRow
  BY <1>2 DEF SellerRow
<1>4. ASSUME row = loaded
      PROVE  new = wanted
  BY <1>2, <1>4 DEF SellerRow
<1> QED
  BY <1>2, <1>3, <1>4

(* The UPDATE of a document writes its status only if the handler changed  *)
(* it.                                                                     *)
LEMMA DocumentFlushed ==
    ASSUME NEW row \in DocumentRow, NEW loaded \in DocumentRow, NEW wanted \in DocumentRow
    PROVE  LET new == Flush(row, loaded, wanted)
           IN  /\ new \in DocumentRow
               /\ new.status = IF wanted.status # loaded.status
                               THEN wanted.status ELSE row.status
<1> DEFINE new == Flush(row, loaded, wanted)
           Pick(c) == IF wanted[c] # loaded[c] THEN wanted[c] ELSE row[c]
<1>1. new = [c \in {"seller", "status"} |-> Pick(c)]
  BY DEF Flush, DocumentRow
<1>2. new = [seller |-> Pick("seller"), status |-> Pick("status")]
  BY <1>1
<1>3. new \in DocumentRow
  BY <1>2 DEF DocumentRow
<1> QED
  BY <1>2, <1>3

(* Whatever it overwrites, a commit of a decision leaves no seller         *)
(* approved that was not vetted; not raced, it finds the row as it loaded  *)
(* it.                                                                     *)
LEMMA DecisionEffect ==
    ASSUME IInv, NEW r, CommitDecision(r), NEW q, q = req[r]
    PROVE  /\ r \in DOMAIN req /\ q \in Decision /\ q.pc = "commit"
           /\ DecisionKnows(q) /\ q.id \in Seller
           /\ IsTable(seller', Seller, SellerRow) /\ raced' \subseteq Seller \cup Document
           /\ DOMAIN seller' = DOMAIN seller /\ vetted \subseteq vetted' /\ vetted' \subseteq Seller
           /\ seller'[q.id].status = "APPROVED" => q.id \in vetted'
           /\ \A s \in DOMAIN seller \ {q.id} : seller'[s] = seller[s]
           /\ raced \subseteq raced'
           /\ q.id \notin raced' => seller[q.id] = q.loaded /\ seller'[q.id] = q.wanted
<1>1. At(r, "approve", "commit") \/ At(r, "reject", "commit")
  BY DEF CommitDecision
<1>2. r \in DOMAIN req /\ q \in Decision /\ q.pc = "commit" /\ DecisionKnows(q)
  BY <1>1, ServedTyped DEF At, IInv, Knowing, Serving, Knows
<1>3. /\ q.id \in Seller /\ q.id \in DOMAIN seller /\ seller[q.id] \in SellerRow
      /\ q.loaded \in SellerRow /\ q.wanted \in SellerRow
  BY <1>2 DEF Decision, DecisionKnows, IInv, TypeOK, IsTable
<1> DEFINE new == Flush(seller[q.id], q.loaded, q.wanted)
<1>4. /\ new \in SellerRow
      /\ new.status = "APPROVED" =>
           seller[q.id].status = "APPROVED" \/ q.wanted.status = "APPROVED"
      /\ seller[q.id] = q.loaded => new = q.wanted
  BY <1>3, SellerFlushed
<1>5. /\ seller' = [seller EXCEPT ![q.id] = new]
      /\ raced' = IF seller[q.id] = q.loaded THEN raced ELSE raced \cup {q.id}
  BY DEF CommitDecision, Race
<1>6. /\ vetted' = IF q.op = "approve" THEN vetted \cup {q.id} ELSE vetted
      /\ new.status = "APPROVED" => q.id \in vetted'
  <2>1. vetted' = IF q.op = "approve" THEN vetted \cup {q.id} ELSE vetted
    BY DEF CommitDecision
  <2>2. q.wanted.status = "APPROVED" => q.op = "approve"
    BY <1>2 DEF DecisionKnows, Decision
  <2>3. seller[q.id].status = "APPROVED" => q.id \in vetted
    BY <1>3 DEF IInv, VettedOnly
  <2> QED
    BY <1>4, <2>1, <2>2, <2>3
<1> HIDE DEF new
<1>7. IsTable(seller', Seller, SellerRow)
  BY <1>4, <1>5 DEF IsTable, IInv, TypeOK
<1>8. /\ raced \subseteq raced' /\ raced' \subseteq Seller \cup Document
      /\ vetted \subseteq vetted' /\ vetted' \subseteq Seller
  BY <1>3, <1>5, <1>6 DEF IInv, TypeOK
<1>9. /\ DOMAIN seller' = DOMAIN seller /\ seller'[q.id] = new
      /\ \A s \in DOMAIN seller \ {q.id} : seller'[s] = seller[s]
  BY <1>3, <1>5
<1>10. q.id \notin raced' => seller[q.id] = q.loaded
  BY <1>5
<1> QED
  BY <1>2, <1>3, <1>4, <1>6, <1>7, <1>8, <1>9, <1>10

(* CommitDecision keeps the inductive invariant.                           *)
LEMMA CommitDecisionInv ==
    ASSUME IInv, NEW r, CommitDecision(r)
    PROVE  IInv'
<1> PICK q : q = req[r]
  OBVIOUS
<1>1. /\ r \in DOMAIN req /\ q \in Decision /\ q.pc = "commit"
      /\ DecisionKnows(q) /\ q.id \in Seller
      /\ IsTable(seller', Seller, SellerRow) /\ raced' \subseteq Seller \cup Document
      /\ DOMAIN seller' = DOMAIN seller /\ vetted \subseteq vetted' /\ vetted' \subseteq Seller
      /\ seller'[q.id].status = "APPROVED" => q.id \in vetted'
      /\ \A s \in DOMAIN seller \ {q.id} : seller'[s] = seller[s]
      /\ raced \subseteq raced'
      /\ q.id \notin raced' => seller[q.id] = q.loaded /\ seller'[q.id] = q.wanted
  BY DecisionEffect
<1>2. Goto(r, "announce") /\ UNCHANGED <<document, storage, listed, announced>>
  BY DEF CommitDecision
<1>3. q.op \in {"approve", "reject"}
  BY <1>1 DEF Decision
<1>4. /\ DOMAIN req' = DOMAIN req /\ IsTable(req', Request, Served)
      /\ \A v \in DOMAIN req \ {r} : req'[v] = req[v]
      /\ req'[r].op = q.op /\ req'[r].id = q.id /\ req'[r].pc = "announce"
      /\ req'[r].loaded = q.loaded /\ req'[r].wanted = q.wanted
  BY <1>1, <1>2, <1>3, GotoEffect DEF IInv
<1>5. Stands
  <2>1. ASSUME NEW s \in DOMAIN seller \ raced', seller[s].status # "PENDING"
        PROVE  seller'[s].status = seller[s].status
    <3>1. CASE s = q.id
      <4>1. /\ q.op = "approve" => q.loaded.status = "PENDING"
            /\ q.op = "reject" => q.loaded.status # "APPROVED" /\ q.wanted.status = "REJECTED"
        BY <1>1 DEF DecisionKnows
      <4>2. seller[s].status \in {"PENDING", "APPROVED", "REJECTED"}
        BY <2>1 DEF IInv, TypeOK, IsTable, SellerRow
      <4> QED
        BY <1>1, <1>3, <2>1, <3>1, <4>1, <4>2
    <3>2. CASE s # q.id
      BY <1>1, <2>1, <3>2
    <3> QED
      BY <3>1, <3>2
  <2> QED
    BY <1>1, <1>2, <2>1 DEF Stands
<1>6. TypeOK' /\ KeysHaveRow' /\ UploadsApart'
  BY <1>1, <1>2, <1>4 DEF IInv, TypeOK, KeysHaveRow, UploadsApart, Served, storage, announced
<1>7. Knowing'
  <2>1. ASSUME NEW p \in Serving', Knows(p)
        PROVE  Knows(p)'
    <3>1. p.op = "upload" /\ p.pc = "commit" => p.id \notin DOMAIN document'
      BY <1>2, <2>1 DEF Knows, UploadKnows
    <3> QED
      BY <1>5, <2>1, <3>1, KnowsStands
  <2>2. ASSUME NEW p, p = req'[r]
        PROVE  Knows(p)'
    <3>1. /\ p.op = q.op /\ p.id = q.id /\ p.pc = "announce"
          /\ p.loaded = q.loaded /\ p.wanted = q.wanted
      BY <1>4, <2>2
    <3>2. DecisionKnows(p)'
      BY <1>1, <3>1 DEF DecisionKnows
    <3> QED
      BY <1>3, <3>1, <3>2 DEF Knows
  <2>3. ASSUME NEW p \in Serving', p # req'[r]
        PROVE  Knows(p)
    BY <1>4, <2>3 DEF IInv, Knowing, Serving
  <2> QED
    BY <2>1, <2>2, <2>3 DEF Knowing
<1>8. VettedOnly'
  BY <1>1 DEF IInv, VettedOnly
<1>9. mail' = mail /\ approvals' = approvals /\ notices' = notices
  BY <1>2 DEF announced
<1>10. /\ \A id : Announcing("confirm", id)' = Announcing("confirm", id)
       /\ \A id : id # q.id \/ q.op # "approve" =>
                Announcing("approve", id)' = Announcing("approve", id)
       /\ Announcing("approve", q.id)' \subseteq Announcing("approve", q.id) \cup {r}
  BY <1>1, <1>3, <1>4 DEF Announcing, At
<1>11. ASSUME NEW s \in Seller \ raced'
       PROVE  Once("approve", s, approvals[s])' /\ (approvals'[s] = 1 => Approved(s)')
  <2>1. /\ Once("approve", s, approvals[s]) /\ (approvals[s] = 1 => Approved(s))
        /\ approvals[s] \in Nat /\ (Approved(s) => Approved(s)')
    BY <1>1, <1>5, <1>11 DEF IInv, ApprovedOnce, TypeOK, Approved, Stands
  <2>2. PICK n \in Nat : n = approvals[s]
    BY <2>1
  <2>3. CASE q.op = "approve" /\ q.id = s
    <3>1. seller[s].status = "PENDING"
      BY <1>1, <1>11, <2>3 DEF DecisionKnows
    <3>2. Announcing("approve", s) = {}
      <4>1. ASSUME NEW v \in Announcing("approve", s)
            PROVE  FALSE
        <5>1. v \in DOMAIN req /\ req[v].op = "approve" /\ req[v].pc = "announce" /\ req[v].id = s
          BY <4>1 DEF Announcing, At
        <5>2. DecisionKnows(req[v])
          BY <5>1 DEF IInv, Knowing, Serving, Knows
        <5>3. seller[s].status = "APPROVED"
          BY <1>1, <1>11, <5>1, <5>2 DEF DecisionKnows
        <5> QED
          BY <3>1, <5>3
      <4> QED
        BY <4>1
    <3>3. n = 0
      BY <2>1, <2>2, <3>1 DEF Once, Approved
    <3>4. Announcing("approve", s)' \subseteq {r}
      BY <1>10, <2>3, <3>2
    <3> QED
      BY <1>9, <2>2, <3>3, <3>4 DEF Once
  <2>4. CASE ~(q.op = "approve" /\ q.id = s)
    <3>1. Once("approve", s, n)'
      BY <1>10, <2>1, <2>2, <2>4, OnceStands
    <3> QED
      BY <1>9, <2>1, <2>2, <3>1 DEF Once
  <2> QED
    BY <2>3, <2>4
<1>12. NoticedOnce'
  <2>1. ASSUME NEW d \in Document \ raced'
        PROVE  Once("confirm", d, notices[d])' /\ (notices'[d] = 1 => Uploaded(d)')
    <3>1. PICK n : n = notices[d]
      OBVIOUS
    <3>2. Once("confirm", d, n) /\ (notices[d] = 1 => Uploaded(d)')
      BY <1>1, <1>2, <2>1, <3>1 DEF IInv, NoticedOnce, Uploaded
    <3>3. Once("confirm", d, n)'
      BY <1>10, <3>2, OnceStands
    <3> QED
      BY <1>9, <3>1, <3>2, <3>3 DEF Once
  <2> QED
    BY <2>1 DEF NoticedOnce
<1>13. MailsStand'
  BY <1>5, <1>9 DEF IInv, MailsStand, Stands
<1> QED
  BY <1>2, <1>5, <1>6, <1>7, <1>8, <1>11, <1>12, <1>13, ListedStands DEF IInv, ApprovedOnce

(* CommitUpload keeps the inductive invariant.                             *)
LEMMA CommitUploadInv ==
    ASSUME IInv, NEW r, CommitUpload(r)
    PROVE  IInv'
<1>1. /\ At(r, "upload", "commit") /\ Goto(r, "respond")
      /\ document' = Insert(document, req[r].id, req[r].wanted)
      /\ UNCHANGED <<seller, storage, listed, announced, raced, vetted>>
  BY DEF CommitUpload
<1>2. PICK q : q = req[r] /\ q \in Upload /\ q.op = "upload" /\ UploadKnows(q) /\ q.pc = "commit"
  BY <1>1, ServedTyped DEF At, IInv, Knowing, Serving, Knows
<1>3. r \in DOMAIN req /\ q.id \in Document /\ q.wanted \in DocumentRow /\ q.id \notin DOMAIN document
  BY <1>1, <1>2 DEF At, Upload, UploadKnows
<1>4. /\ DOMAIN req' = DOMAIN req /\ IsTable(req', Request, Served)
      /\ \A v \in DOMAIN req \ {r} : req'[v] = req[v]
      /\ req'[r].op = q.op /\ req'[r].id = q.id /\ req'[r].pc = "respond"
  BY <1>1, <1>2, <1>3, GotoEffect DEF IInv
<1>5. /\ DOMAIN document' = DOMAIN document \cup {q.id}
      /\ \A d \in DOMAIN document : document'[d] = document[d]
  BY <1>1, <1>2, <1>3 DEF Insert
<1>6. IsTable(document', Document, DocumentRow)
  BY <1>1, <1>2, <1>3 DEF IsTable, Insert, IInv, TypeOK
<1>7. Stands
  BY <1>1, <1>5 DEF Stands
<1>8. TypeOK' /\ KeysHaveRow'
  BY <1>1, <1>4, <1>5, <1>6 DEF IInv, TypeOK, KeysHaveRow, Served, storage, announced
<1>9. UploadsApart'
  BY <1>2, <1>4 DEF IInv, UploadsApart
<1>10. ASSUME NEW p \in Serving'
       PROVE  Knows(p)'
  <2>1. CASE p = req'[r]
    <3>1. p.op = "upload" /\ p.id = q.id /\ p.pc = "respond"
      BY <1>2, <1>4, <2>1
    <3>2. UploadKnows(p)'
      BY <1>5, <3>1 DEF UploadKnows
    <3> QED
      BY <3>1, <3>2 DEF Knows
  <2>2. CASE p # req'[r]
    <3>1. PICK v \in DOMAIN req \ {r} : p = req[v]
      BY <1>4, <1>10, <2>2 DEF Serving
    <3>2. Knows(p)
      BY <3>1 DEF IInv, Knowing, Serving
    <3>3. p.op = "upload" => p.id # q.id
      BY <1>2, <1>3, <3>1 DEF IInv, UploadsApart
    <3>4. p.op = "upload" /\ p.pc = "commit" => p.id \notin DOMAIN document'
      BY <1>5, <3>2, <3>3 DEF Knows, UploadKnows
    <3> QED
      BY <1>7, <3>2, <3>4, KnowsStands
  <2> QED
    BY <2>1, <2>2
<1>11. \A op, id : Announcing(op, id)' \subseteq Announcing(op, id)
  BY <1>4 DEF Announcing, At
<1>12. VettedOnly'
  BY <1>1 DEF IInv, VettedOnly
<1> QED
  BY <1>1, <1>7, <1>8, <1>9, <1>10, <1>11, <1>12, ListedStands, QuietStands DEF IInv, Knowing

(* CommitConfirm keeps the inductive invariant.                            *)
LEMMA CommitConfirmInv ==
    ASSUME IInv, NEW r, CommitConfirm(r)
    PROVE  IInv'
<1>1. /\ At(r, "confirm", "commit") /\ Goto(r, "announce")
      /\ UNCHANGED <<seller, storage, listed, announced, vetted>>
  BY DEF CommitConfirm
<1>2. PICK q : q = req[r] /\ q \in Upload /\ q.op = "confirm" /\ ConfirmKnows(q) /\ q.pc = "commit"
  BY <1>1, ServedTyped DEF At, IInv, Knowing, Serving, Knows
<1>3. /\ r \in DOMAIN req /\ q.id \in Document /\ q.id \in DOMAIN document
      /\ document[q.id] \in DocumentRow /\ q.loaded \in DocumentRow /\ q.wanted \in DocumentRow
      /\ q.wanted.status = "UPLOADED" /\ q.loaded.status # "UPLOADED"
  BY <1>1, <1>2 DEF At, Upload, ConfirmKnows, IInv, TypeOK, IsTable
<1>4. /\ DOMAIN req' = DOMAIN req /\ IsTable(req', Request, Served)
      /\ \A v \in DOMAIN req \ {r} : req'[v] = req[v]
      /\ req'[r].op = q.op /\ req'[r].id = q.id /\ req'[r].pc = "announce"
      /\ req'[r].loaded = q.loaded /\ req'[r].wanted = q.wanted
  BY <1>1, <1>2, <1>3, GotoEffect DEF IInv
<1> DEFINE new == Flush(document[q.id], q.loaded, q.wanted)
<1>5. new \in DocumentRow /\ new.status = "UPLOADED"
  BY <1>3, DocumentFlushed
<1>6. /\ document' = [document EXCEPT ![q.id] = new]
      /\ raced' = IF document[q.id] = q.loaded THEN raced ELSE raced \cup {q.id}
  BY <1>2 DEF CommitConfirm, Race
<1> HIDE DEF new
<1>7. IsTable(document', Document, DocumentRow)
  BY <1>5, <1>6 DEF IsTable, IInv, TypeOK
<1>8. /\ DOMAIN document' = DOMAIN document /\ Uploaded(q.id)'
      /\ \A d \in DOMAIN document \ {q.id} : document'[d] = document[d]
      /\ raced \subseteq raced' /\ raced' \subseteq Seller \cup Document
      /\ q.id \notin raced' => ~Uploaded(q.id)
  BY <1>3, <1>5, <1>6 DEF IInv, TypeOK, Uploaded
<1>9. Stands
  BY <1>1, <1>8 DEF Stands, Uploaded
<1>10. TypeOK' /\ KeysHaveRow' /\ UploadsApart'
  BY <1>1, <1>2, <1>4, <1>7, <1>8
     DEF IInv, TypeOK, KeysHaveRow, UploadsApart, Served, storage, announced
<1>11. ASSUME NEW p \in Serving'
       PROVE  Knows(p)'
  <2>1. CASE p = req'[r]
    <3>1. /\ p.op = "confirm" /\ p.id = q.id
          /\ p.loaded = q.loaded /\ p.wanted = q.wanted
      BY <1>2, <1>4, <2>1
    <3>2. ConfirmKnows(p)'
      BY <1>3, <1>8, <3>1 DEF ConfirmKnows
    <3> QED
      BY <3>1, <3>2 DEF Knows
  <2>2. CASE p # req'[r]
    <3>1. Knows(p)
      BY <1>4, <1>11, <2>2 DEF IInv, Knowing, Serving
    <3>2. p.op = "upload" /\ p.pc = "commit" => p.id \notin DOMAIN document'
      BY <1>8, <3>1 DEF Knows, UploadKnows
    <3> QED
      BY <1>9, <3>1, <3>2, KnowsStands
  <2> QED
    BY <2>1, <2>2
<1>12. mail' = mail /\ approvals' = approvals /\ notices' = notices
  BY <1>1 DEF announced
<1>13. /\ \A id : Announcing("approve", id)' = Announcing("approve", id)
       /\ \A id : id # q.id => Announcing("confirm", id)' = Announcing("confirm", id)
       /\ Announcing("confirm", q.id)' \subseteq Announcing("confirm", q.id) \cup {r}
  BY <1>2, <1>3, <1>4 DEF Announcing, At
<1>14. ASSUME NEW d \in Document \ raced'
       PROVE  Once("confirm", d, notices[d])' /\ (notices'[d] = 1 => Uploaded(d)')
  <2>1. /\ Once("confirm", d, notices[d]) /\ (notices[d] = 1 => Uploaded(d))
        /\ notices[d] \in Nat /\ (Uploaded(d) => Uploaded(d)')
    BY <1>8, <1>9, <1>14 DEF IInv, NoticedOnce, TypeOK, Uploaded, Stands
  <2>2. PICK n \in Nat : n = notices[d]
    BY <2>1
  <2>3. CASE q.id = d
    <3>1. ~Uploaded(d)
      BY <1>8, <1>14, <2>3
    <3>2. Announcing("confirm", d) = {}
      <4>1. ASSUME NEW v \in Announcing("confirm", d)
            PROVE  FALSE
        <5>1. v \in DOMAIN req /\ req[v].op = "confirm" /\ req[v].pc = "announce" /\ req[v].id = d
          BY <4>1 DEF Announcing, At
        <5>2. ConfirmKnows(req[v])
          BY <5>1 DEF IInv, Knowing, Serving, Knows
        <5> QED
          BY <1>8, <1>14, <3>1, <5>1, <5>2 DEF ConfirmKnows
      <4> QED
        BY <4>1
    <3>3. n = 0
      BY <2>1, <2>2, <3>1 DEF Once
    <3>4. Announcing("confirm", d)' \subseteq {r}
      BY <1>13, <2>3, <3>2
    <3> QED
      BY <1>12, <2>2, <3>3, <3>4 DEF Once
  <2>4. CASE q.id # d
    <3>1. Once("confirm", d, n)'
      BY <1>13, <2>1, <2>2, <2>4, OnceStands
    <3> QED
      BY <1>12, <2>1, <2>2, <3>1 DEF Once
  <2> QED
    BY <2>3, <2>4
<1>15. ApprovedOnce'
  <2>1. ASSUME NEW s \in Seller \ raced'
        PROVE  Once("approve", s, approvals[s])' /\ (approvals'[s] = 1 => Approved(s)')
    <3>1. PICK n : n = approvals[s]
      OBVIOUS
    <3>2. Once("approve", s, n) /\ (approvals[s] = 1 => Approved(s)')
      BY <1>1, <1>8, <2>1, <3>1 DEF IInv, ApprovedOnce, Approved
    <3>3. Once("approve", s, n)'
      BY <1>13, <3>2, OnceStands
    <3> QED
      BY <1>12, <3>1, <3>2, <3>3 DEF Once
  <2> QED
    BY <2>1 DEF ApprovedOnce
<1>16. MailsStand' /\ VettedOnly'
  BY <1>1, <1>8, <1>12 DEF IInv, MailsStand, VettedOnly
<1> QED
  BY <1>1, <1>9, <1>10, <1>11, <1>14, <1>15, <1>16, ListedStands DEF IInv, Knowing, NoticedOnce

(***************************************************************************)
(* The steps of the client and the object store.                           *)
(***************************************************************************)
LEMMA StorageInv ==
    ASSUME IInv, UNCHANGED <<rows, listed, req, announced, raced, vetted>>,
           url' \subseteq url, bytes' \subseteq bytes \cup url
    PROVE  IInv'
<1>1. Stands
  BY SameStands
<1>2. TypeOK' /\ KeysHaveRow' /\ UploadsApart'
  BY DEF IInv, TypeOK, KeysHaveRow, UploadsApart, rows, announced
<1>3. ASSUME NEW q \in Serving'
      PROVE  Knows(q)'
  <2>1. Knows(q)
    BY DEF IInv, Knowing, Serving
  <2>2. q.op = "upload" /\ q.pc = "commit" => q.id \notin DOMAIN document'
    BY <2>1 DEF Knows, UploadKnows, rows
  <2> QED
    BY <1>1, <2>1, <2>2, KnowsStands
<1>4. \A op, id : Announcing(op, id)' = Announcing(op, id)
  BY DEF Announcing, At
<1> QED
  BY <1>1, <1>2, <1>3, <1>4, RowsKept, ListedStands, QuietStands DEF IInv, Knowing

(* Client keeps the inductive invariant.                                   *)
LEMMA ClientInv ==
    ASSUME IInv, \/ UNCHANGED vars \/ \E d \in Document : Put(d) \/ ExpireUrl(d)
    PROVE  IInv'
<1>1. /\ UNCHANGED <<rows, listed, req, announced, raced, vetted>>
      /\ url' \subseteq url /\ bytes' \subseteq bytes \cup url
  BY DEF Put, ExpireUrl, vars, storage
<1> QED
  BY <1>1, StorageInv

(* The initial states satisfy the inductive invariant.                     *)
LEMMA InitInv == Init => IInv
<1> SUFFICES ASSUME Init
             PROVE  IInv
  OBVIOUS
<1>1. /\ DOMAIN seller = {} /\ DOMAIN document = {} /\ DOMAIN req = {}
      /\ IsTable(seller, Seller, SellerRow) /\ IsTable(document, Document, DocumentRow)
      /\ IsTable(req, Request, Served)
  BY DEF IsTable, EmptyTable, Init
<1>2. TypeOK
  BY <1>1 DEF Init, TypeOK, Served
<1>3. Knowing /\ VettedOnly /\ ListedKnown /\ UploadsApart /\ KeysHaveRow
  BY <1>1 DEF Init, Knowing, Serving, VettedOnly, ListedKnown, UploadsApart, KeysHaveRow
<1>4. ApprovedOnce /\ NoticedOnce
  BY <1>1 DEF Init, ApprovedOnce, NoticedOnce, Once, Announcing
<1>5. MailsStand
  BY DEF Init, MailsStand
<1> QED
  BY <1>2, <1>3, <1>4, <1>5 DEF IInv

(* Every step keeps the inductive invariant.                               *)
LEMMA NextInv == IInv /\ [Next]_vars => IInv'
<1> SUFFICES ASSUME IInv, [Next]_vars
             PROVE  IInv'
  OBVIOUS
<1>1. ASSUME NEW r \in Request, Start(r)
      PROVE  IInv'
  BY <1>1, LoadDecisionInv, StartUploadInv, LoadConfirmInv, EnterListingInv DEF Start
<1>2. ASSUME NEW r \in Request, Step(r)
      PROVE  IInv'
  BY <1>2, CommitDecisionInv, MailDecisionInv, CommitUploadInv, RespondUploadInv,
     CommitConfirmInv, NotifyAdminsInv, InsertListingInv DEF Step
<1> QED
  BY <1>1, <1>2, RegisterInv, FailInv, ClientInv DEF Next

(* The inductive invariant holds of every reachable state.                 *)
THEOREM Invariance == Spec => []IInv
BY InitInv, NextInv, PTL DEF Spec

(* Every reachable state is well typed.                                    *)
THEOREM TypeCorrect == Spec => []TypeOK
<1>1. IInv => TypeOK
  BY DEF IInv
<1> QED
  BY <1>1, Invariance, PTL

(* The URL of an upload reaches the client only once its row is committed, *)
(* so no bytes lie under a key without a row.                              *)
THEOREM UploadsAreRecorded == Spec => []BytesHaveRow
<1>1. IInv => BytesHaveRow
  BY DEF IInv, KeysHaveRow, BytesHaveRow
<1> QED
  BY <1>1, Invariance, PTL

(* An approval and a confirmation are announced at most once, and only     *)
(* once committed, if no commit was made from a stale copy.                *)
THEOREM AnnouncementsNotRepeated == Spec => []AnnouncedOnce
<1>1. IInv => AnnouncedOnce
  BY DEF IInv, ApprovedOnce, NoticedOnce, Once, Approved, Uploaded, AnnouncedOnce
<1> QED
  BY <1>1, Invariance, PTL

(* What was mailed to a seller and what it listed under an approval stays  *)
(* true, if no commit was made from a stale copy.                          *)
THEOREM DecisionsStand == Spec => []DecisionStands
<1>1. ASSUME IInv
      PROVE  DecisionStands
  <2>1. ASSUME NEW s \in Seller \ raced
        PROVE  mail[s] \subseteq {seller[t].status : t \in DOMAIN seller \cap {s}}
    <3>1. mail[s] \subseteq {"APPROVED", "REJECTED"}
      BY <1>1 DEF IInv, TypeOK
    <3> QED
      BY <1>1, <2>1, <3>1 DEF IInv, MailsStand
  <2>2. \A s \in Seller \ raced : s \in listed => Approved(s)
    BY <1>1 DEF IInv, ListedKnown, ListingKnows
  <2> QED
    BY <2>1, <2>2 DEF DecisionStands, Approved
<1> QED
  BY <1>1, Invariance, PTL

(* Only sellers of which an approval was committed list a product,         *)
(* whatever races the approval, the guard and the insertion.               *)
THEOREM ListersWereVetted == Spec => []OnlyVettedList
<1>1. IInv => OnlyVettedList
  BY DEF IInv, ListedKnown, ListingKnows, OnlyVettedList
<1> QED
  BY <1>1, Invariance, PTL
=============================================================================
