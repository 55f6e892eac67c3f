----------------------------- MODULE Onboarding -----------------------------
(***************************************************************************)
(* Sellers from registration to their first listing: the applications and  *)
(* documents of services/seller_service.py, the decisions of               *)
(* services/admin_service.py, the guards of dependencies/auth.py, and the  *)
(* object store of core/storage.py.  Decisions and confirmations load a    *)
(* row without a lock and commit it later, then dispatch one message.      *)
(***************************************************************************)
EXTENDS Tables, Naturals

CONSTANTS
    Seller,     \* accounts that may apply
    Document,   \* ids of documents; an id stands for its object key too
    Admin,      \* administrators
    Nobody,     \* approved_by IS NULL
    Reason,     \* rejection reasons
    NoReason,   \* rejection_reason IS NULL
    Request     \* requests served at the same time

ASSUME NobodyAssumption == Nobody \notin Admin
ASSUME NoReasonAssumption == NoReason \notin Reason

VARIABLES
    seller,     \* the seller rows
    document,   \* the document rows
    url,        \* keys a client holds a presigned PUT URL for
    bytes,      \* keys of the objects in the seller-documents bucket
    listed,     \* sellers that have created a listing
    req,        \* the requests being served
    mail,       \* what each seller was mailed
    approvals,  \* approval mails queued for each seller
    notices,    \* notices queued for the admins about each document
    raced,      \* history: rows a request committed to from a stale copy
    vetted      \* history: sellers of which an approval was committed

rows == <<seller, document>>
storage == <<url, bytes>>
announced == <<mail, approvals, notices>>
vars == <<rows, storage, listed, req, announced, raced, vetted>>

SellerRow == [status : {"PENDING", "APPROVED", "REJECTED"},
              by : Admin \cup {Nobody}, reason : Reason \cup {NoReason}]
DocumentRow == [seller : Seller, status : {"PENDING_UPLOAD", "UPLOADED"}]

(***************************************************************************)
(* A request; pc is what it does next: "commit" its row, "announce" the    *)
(* dispatch that follows, "respond" hand the upload URL to the client,     *)
(* "insert" the listing of a seller that passed the guard.                 *)
(***************************************************************************)
Decision == [op : {"approve", "reject"}, pc : {"commit", "announce"}, id : Seller,
             loaded : SellerRow, wanted : SellerRow]
Upload == [op : {"upload", "confirm"}, pc : {"commit", "announce", "respond"},
           id : Document, loaded : DocumentRow, wanted : DocumentRow]
Listing == [op : {"list"}, pc : {"insert"}, id : Seller]

TypeOK ==
    /\ IsTable(seller, Seller, SellerRow)
    /\ IsTable(document, Document, DocumentRow)
    /\ url \subseteq Document /\ bytes \subseteq Document
    /\ listed \subseteq Seller
    /\ IsTable(req, Request, Decision \cup Upload \cup Listing)
    /\ mail \in [Seller -> SUBSET {"APPROVED", "REJECTED"}]
    /\ approvals \in [Seller -> Nat]
    /\ notices \in [Document -> Nat]
    /\ raced \subseteq Seller \cup Document
    /\ vetted \subseteq Seller

Init ==
    /\ seller = EmptyTable /\ document = EmptyTable
    /\ url = {} /\ bytes = {}
    /\ listed = {}
    /\ req = EmptyTable
    /\ mail = [s \in Seller |-> {}]
    /\ approvals = [s \in Seller |-> 0]
    /\ notices = [d \in Document |-> 0]
    /\ raced = {} /\ vetted = {}

At(r, op, pc) == r \in DOMAIN req /\ req[r].op = op /\ req[r].pc = pc
Begin(r, q) == r \notin DOMAIN req /\ req' = Insert(req, r, q)
Goto(r, pc) == req' = [req EXCEPT ![r].pc = pc]
Finish(r) == req' = Delete(req, r)
Race(id, row, loaded) == raced' = IF row = loaded THEN raced ELSE raced \cup {id}
-----------------------------------------------------------------------------
(* register_seller: the user and the seller row land in one commit; a      *)
(* second registration of the same email or number is refused.             *)
Register(s) ==
    /\ s \notin DOMAIN seller
    /\ seller' = Insert(seller, s,
                        [status |-> "PENDING", by |-> Nobody, reason |-> NoReason])
    /\ UNCHANGED <<document, storage, listed, req, announced, raced, vetted>>

(* Fault: approved_by and rejection_reason are swapped.  *)
DecideSwapped(r, op, s, status, a, reason) ==
    /\ Begin(r, [op |-> op, pc |-> "commit", id |-> s, loaded |-> seller[s],
                 wanted |-> [status |-> status, by |-> reason, reason |-> a]])
    /\ UNCHANGED <<rows, storage, listed, announced, raced, vetted>>

(* A decision loads the row, with no lock, and changes its copy.  *)
Decide(r, op, s, status, a, reason) ==
    /\ Begin(r, [op |-> op, pc |-> "commit", id |-> s, loaded |-> seller[s],
                 wanted |-> [status |-> status, by |-> a, reason |-> reason]])
    /\ UNCHANGED <<rows, storage, listed, announced, raced, vetted>>

(* Fault: an application that was rejected is approved all the same.  *)
ApproveRejected(r, s, a) ==
    seller[s].status # "APPROVED" /\ Decide(r, "approve", s, "APPROVED", a, NoReason)

(* approve_seller: nothing to do for an approved seller, 409 for a rejected. *)
LoadApprove(r, s, a) ==
    seller[s].status = "PENDING" /\ Decide(r, "approve", s, "APPROVED", a, NoReason)

(* reject_seller: 409 for an approved seller.  *)
LoadReject(r, s, a, reason) ==
    seller[s].status # "APPROVED" /\ Decide(r, "reject", s, "REJECTED", a, reason)

CommitDecision(r) ==
    /\ At(r, "approve", "commit") \/ At(r, "reject", "commit")
    /\ LET q == req[r]
       IN  /\ seller' = [seller EXCEPT ![q.id] = Flush(@, q.loaded, q.wanted)]
           /\ Race(q.id, seller[q.id], q.loaded)
           /\ vetted' = IF q.op = "approve" THEN vetted \cup {q.id} ELSE vetted
    /\ Goto(r, "announce")
    /\ UNCHANGED <<document, storage, listed, announced>>

(* The mail is rendered from the decision, not from the row.  *)
MailDecision(r) ==
    /\ At(r, "approve", "announce") \/ At(r, "reject", "announce")
    /\ LET q == req[r]
       IN  /\ mail' = [mail EXCEPT ![q.id] = @ \cup {q.wanted.status}]
           /\ approvals' = IF q.op = "approve"
                           THEN [approvals EXCEPT ![q.id] = @ + 1] ELSE approvals
    /\ Finish(r)
    /\ UNCHANGED <<rows, storage, listed, notices, raced, vetted>>
-----------------------------------------------------------------------------
(* The upload handshake.  *)

(* create_document_upload: the URL is signed before the row is committed.  *)
StartUpload(r, s, d) ==
    /\ d \notin DOMAIN document
    /\ \A q \in DOMAIN req : ~(req[q].op = "upload" /\ req[q].id = d)
    /\ LET row == [seller |-> s, status |-> "PENDING_UPLOAD"]
       IN  Begin(r, [op |-> "upload", pc |-> "commit", id |-> d,
                     loaded |-> row, wanted |-> row])
    /\ UNCHANGED <<rows, storage, listed, announced, raced, vetted>>

(* Fault: the URL is handed over before the commit.  *)
SkipCommit(r) ==
    /\ At(r, "upload", "commit")
    /\ Goto(r, "respond")
    /\ UNCHANGED <<rows, storage, listed, announced, raced, vetted>>

CommitUpload(r) ==
    /\ At(r, "upload", "commit")
    /\ document' = Insert(document, req[r].id, req[r].wanted)
    /\ Goto(r, "respond")
    /\ UNCHANGED <<seller, storage, listed, announced, raced, vetted>>

RespondUpload(r) ==
    /\ At(r, "upload", "respond")
    /\ url' = url \cup {req[r].id}
    /\ Finish(r)
    /\ UNCHANGED <<rows, bytes, listed, announced, raced, vetted>>

(* The client PUTs the bytes, straight to MinIO, while its URL is valid.  *)
Put(d) ==
    /\ d \in url
    /\ bytes' = bytes \cup {d}
    /\ UNCHANGED <<rows, url, listed, req, announced, raced, vetted>>

ExpireUrl(d) ==
    /\ d \in url
    /\ url' = url \ {d}
    /\ UNCHANGED <<rows, bytes, listed, req, announced, raced, vetted>>

Confirm(r, d) ==
    /\ Begin(r, [op |-> "confirm", pc |-> "commit", id |-> d, loaded |-> document[d],
                 wanted |-> [document[d] EXCEPT !.status = "UPLOADED"]])
    /\ UNCHANGED <<rows, storage, listed, announced, raced, vetted>>

(* Fault: a document that is confirmed is confirmed again.  *)
LoadAnyConfirm(r, d) == Confirm(r, d)

(* confirm_document_upload takes the client's word; it may be retried.  *)
LoadConfirm(r, d) == document[d].status # "UPLOADED" /\ Confirm(r, d)

CommitConfirm(r) ==
    /\ At(r, "confirm", "commit")
    /\ LET q == req[r]
       IN  /\ document' = [document EXCEPT ![q.id] = Flush(@, q.loaded, q.wanted)]
           /\ Race(q.id, document[q.id], q.loaded)
    /\ Goto(r, "announce")
    /\ UNCHANGED <<seller, storage, listed, announced, vetted>>

NotifyAdmins(r) ==
    /\ At(r, "confirm", "announce")
    /\ notices' = [notices EXCEPT ![req[r].id] = @ + 1]
    /\ Finish(r)
    /\ UNCHANGED <<rows, storage, listed, mail, approvals, raced, vetted>>
-----------------------------------------------------------------------------
Enter(r, s) ==
    /\ Begin(r, [op |-> "list", pc |-> "insert", id |-> s])
    /\ UNCHANGED <<rows, storage, listed, announced, raced, vetted>>

(* Fault: a seller in any state may list.  *)
EnterAny(r, s) == Enter(r, s)

(* get_current_approved_seller lets the request in...  *)
EnterListing(r, s) == seller[s].status = "APPROVED" /\ Enter(r, s)

(* ... and create_product trusts the row it was let in with.  *)
InsertListing(r) ==
    /\ At(r, "list", "insert")
    /\ listed' = listed \cup {req[r].id}
    /\ Finish(r)
    /\ UNCHANGED <<rows, storage, announced, raced, vetted>>

(* The process dies, or the broker is down when a message is dispatched.   *)
Fail(r) ==
    /\ r \in DOMAIN req
    /\ Finish(r)
    /\ UNCHANGED <<rows, storage, listed, announced, raced, vetted>>
-----------------------------------------------------------------------------
Start(r) ==
    \/ \E s \in DOMAIN seller :
         \/ \E a \in Admin :
              LoadApprove(r, s, a) \/ \E reason \in Reason : LoadReject(r, s, a, reason)
         \/ \E d \in Document : StartUpload(r, s, d)
         \/ EnterListing(r, s)
    \/ \E d \in DOMAIN document : LoadConfirm(r, d)

Step(r) ==
    \/ CommitDecision(r) \/ MailDecision(r)
    \/ CommitUpload(r) \/ RespondUpload(r) \/ CommitConfirm(r) \/ NotifyAdmins(r)
    \/ InsertListing(r)

Next ==
    \/ \E s \in Seller : Register(s)
    \/ \E r \in Request : Start(r) \/ Step(r) \/ Fail(r)
    \/ \E d \in Document : Put(d) \/ ExpireUrl(d)

Spec == Init /\ [][Next]_vars
-----------------------------------------------------------------------------
(* Properties.  *)

(* No bytes arrive under a key that no row names, wherever the request     *)
(* that signed the URL was interrupted (create_document_upload: "so a hung *)
(* client doesn't leave us in a state where the bytes exist in MinIO with  *)
(* no matching DB record").                                                *)
BytesHaveRow == bytes \subseteq DOMAIN document

(* Approvals and confirmations are announced at most once, and only ones   *)
(* that are committed, however often they are retried, as long as no two   *)
(* of them overlap (the docstrings of approve_seller and                   *)
(* confirm_document_upload: "no extra email", "no second admin             *)
(* notification").                                                         *)
AnnouncedOnce ==
    /\ \A s \in Seller \ raced :
         approvals[s] <= 1 /\ (approvals[s] = 1 => s \in DOMAIN seller
                                 /\ seller[s].status = "APPROVED")
    /\ \A d \in Document \ raced :
         notices[d] <= 1 /\ (notices[d] = 1 => d \in DOMAIN document
                               /\ document[d].status = "UPLOADED")

(* Without overlapping decisions a seller is never approved after a        *)
(* rejection or rejected after an approval: what was mailed stays true and *)
(* what was listed under an approval keeps its approved seller.            *)
DecisionStands ==
    \A s \in Seller \ raced :
        /\ mail[s] \subseteq {seller[t].status : t \in DOMAIN seller \cap {s}}
        /\ s \in listed => s \in DOMAIN seller /\ seller[s].status = "APPROVED"

(* Only sellers of which an admin has committed an approval list a         *)
(* product, although create_product trusts the row the guard read and      *)
(* rejections race approvals: one that was only ever rejected, or whose    *)
(* approval was not committed when the guard ran, has no listing           *)
(* (get_current_approved_seller).                                          *)
OnlyVettedList == listed \subseteq vetted
=============================================================================
