----------------------------- MODULE Directory -----------------------------
(***************************************************************************)
(* Accounts are registered at the same time (auth_service.register_buyer,  *)
(* seller_service.register_seller) while an admin pages through the        *)
(* sellers that await a decision (admin_service.list_sellers).             *)
(***************************************************************************)
EXTENDS Tables, Integers, FiniteSets, SequencesExt

CONSTANTS
    Account,    \* registrations, by the id their account would get
    Address,    \* email addresses as they are typed
    Lower,      \* the lower-case form of each address
    Brn,        \* business registration numbers
    NoBrn,      \* the one of a buyer
    PageSizes,  \* values of page_size
    MaxClock    \* bound on the clock

ASSUME AddressAssumption ==
    /\ Lower \in [Address -> Address]
    /\ \A address \in Address : Lower[Lower[address]] = Lower[address]
ASSUME BrnAssumption == NoBrn \notin Brn
ASSUME BoundAssumption == PageSizes \subseteq Nat \ {0} /\ MaxClock \in Nat

VARIABLES
    request,    \* registrations that run or were refused
    users,      \* committed rows
    sellers,    \* committed rows
    clock,      \* the clock of the database
    walk        \* the admin's way through the pages

accounts == <<request, users, sellers, clock>>
vars == <<request, users, sellers, clock, walk>>

(* "user" and "seller" insert the row of that name, "commit" has both.  *)
Request ==
    [pc : {"user", "seller", "commit", "refused"},
     email : Address, brn : Brn \cup {NoBrn}, created_at : 0..MaxClock]

User == [email : Address, role : {"BUYER", "SELLER"}]

Seller == [brn : Brn, approval_status : {"PENDING", "APPROVED"}, created_at : 0..MaxClock]

(***************************************************************************)
(* The walk counts, reads a page, goes on to the next one.  History: what  *)
(* was listed since it began, what it has shown, and whether a row left    *)
(* the list or was added between the count and the read of a page.         *)
(***************************************************************************)
Walk ==
    [pc : {"idle", "count", "read", "done"},
     page : Nat, page_size : Nat, total : Nat,
     listed : SUBSET Account, shown : SUBSET Account, disturbed : BOOLEAN]

TypeOK ==
    /\ IsTable(request, Account, Request)
    /\ IsTable(users, Account, User)
    /\ IsTable(sellers, Account, Seller)
    /\ clock \in 0..MaxClock
    /\ walk \in Walk

Init ==
    /\ request = EmptyTable
    /\ users = EmptyTable
    /\ sellers = EmptyTable
    /\ clock = 0
    /\ walk = [pc |-> "idle", page |-> 1, page_size |-> 0, total |-> 0,
               listed |-> {}, shown |-> {}, disturbed |-> FALSE]
-----------------------------------------------------------------------------
(* Registration.  *)

At(a, pc) == a \in DOMAIN request /\ request[a].pc = pc

(* Rows inserted in this transaction, which nobody else sees.  *)
Inserted(a, row) == At(a, "commit") \/ (row = "user" /\ At(a, "seller"))

(* Fault: the address is stored as typed.  *)
Typed(address) == address

email_of(address) == Lower[address]

Register(a, address, brn) ==
    /\ a \notin DOMAIN request \cup DOMAIN users
    /\ request' = Insert(request, a,
            [pc |-> "user", email |-> email_of(address), brn |-> brn, created_at |-> 0])
    /\ UNCHANGED <<users, sellers, clock, walk>>

(* The unique indexes: an INSERT waits for the transaction of an equal key *)
(* that is not committed, and fails if one is.                             *)
EmailTaken(a) == \E b \in DOMAIN users : users[b].email = request[a].email
EmailPending(a) ==
    \E b \in Account : Inserted(b, "user") /\ request[b].email = request[a].email

BrnTaken(a) == \E b \in DOMAIN sellers : sellers[b].brn = request[a].brn
BrnPending(a) ==
    \E b \in Account : Inserted(b, "seller") /\ request[b].brn = request[a].brn

(* INSERT INTO users; created_at is now(), the start of the transaction.  *)
InsertUser(a) ==
    /\ At(a, "user")
    /\ ~EmailTaken(a) /\ ~EmailPending(a)
    /\ clock' \in {clock, clock + 1} \cap 0..MaxClock
    /\ request' = [request EXCEPT
            ![a].pc = IF request[a].brn = NoBrn THEN "commit" ELSE "seller",
            ![a].created_at = clock']
    /\ UNCHANGED <<users, sellers, walk>>

(* Fault: the number is looked up before the INSERT instead of indexed.  *)
InsertUnindexed(a) ==
    /\ At(a, "seller")
    /\ ~BrnTaken(a)
    /\ request' = [request EXCEPT ![a].pc = "commit"]
    /\ UNCHANGED <<users, sellers, clock, walk>>

InsertSeller(a) ==
    /\ At(a, "seller")
    /\ ~BrnTaken(a) /\ ~BrnPending(a)
    /\ request' = [request EXCEPT ![a].pc = "commit"]
    /\ UNCHANGED <<users, sellers, clock, walk>>

(* IntegrityError: rolled back, 409.  *)
Refuse(a) ==
    /\ \/ At(a, "user") /\ EmailTaken(a)
       \/ At(a, "seller") /\ BrnTaken(a)
    /\ request' = [request EXCEPT ![a].pc = "refused", ![a].created_at = 0]
    /\ UNCHANGED <<users, sellers, clock, walk>>

(* Fault: every error of the database is a 409.  *)
FailAsConflict(a) ==
    /\ a \in DOMAIN request /\ ~At(a, "refused")
    /\ request' = [request EXCEPT ![a].pc = "refused", ![a].created_at = 0]
    /\ UNCHANGED <<users, sellers, clock, walk>>

(* Any other error, a timeout or a crash: rolled back.  *)
Fail(a) ==
    /\ a \in DOMAIN request /\ ~At(a, "refused")
    /\ request' = Delete(request, a)
    /\ UNCHANGED <<users, sellers, clock, walk>>

Listed(table) == {a \in DOMAIN table : table[a].approval_status = "PENDING"}

(* The walk's history: the list has changed into that of `table'.  *)
Watch(table) ==
    walk' = [walk EXCEPT
        !.listed = @ \cap Listed(table),
        !.disturbed = @ \/ ~(Listed(sellers) \subseteq Listed(table))
                        \/ (walk.pc = "read" /\ Listed(table) # Listed(sellers))]

AddUser(a, role) ==
    users' = Insert(users, a, [email |-> request[a].email, role |-> role])

AddSeller(a) ==
    /\ AddUser(a, "SELLER")
    /\ sellers' = Insert(sellers, a,
           [brn |-> request[a].brn, approval_status |-> "PENDING",
            created_at |-> request[a].created_at])

(* Fault: every account gets a seller.  *)
CommitAsSeller(a) ==
    /\ At(a, "commit")
    /\ AddSeller(a)
    /\ request' = Delete(request, a)
    /\ Watch(sellers')
    /\ UNCHANGED clock

(* Both rows, or the only one, at once.  *)
Commit(a) ==
    /\ At(a, "commit")
    /\ \/ request[a].brn = NoBrn /\ AddUser(a, "BUYER") /\ UNCHANGED sellers
       \/ request[a].brn # NoBrn /\ AddSeller(a)
    /\ request' = Delete(request, a)
    /\ Watch(sellers')
    /\ UNCHANGED clock

(* approve_seller; a rejection takes a seller off the list as well.  *)
Approve(a) ==
    /\ a \in Listed(sellers)
    /\ sellers' = [sellers EXCEPT ![a].approval_status = "APPROVED"]
    /\ Watch(sellers')
    /\ UNCHANGED <<request, users, clock>>
-----------------------------------------------------------------------------
(* The list.  *)

StartWalk(page_size) ==
    /\ walk.pc = "idle"
    /\ walk' = [walk EXCEPT !.pc = "count", !.page_size = page_size,
                            !.listed = Listed(sellers), !.disturbed = FALSE]
    /\ UNCHANGED accounts

(* paginate: the SELECT of the count ...  *)
Count ==
    /\ walk.pc = "count"
    /\ walk' = [walk EXCEPT !.pc = "read", !.total = Cardinality(Listed(sellers))]
    /\ UNCHANGED accounts

(* ORDER BY created_at DESC, in any order where it ties.  *)
Orders ==
    {s \in SetToSeqs(Listed(sellers)) :
        \A i, j \in DOMAIN s :
             i < j => sellers[s[i]].created_at >= sellers[s[j]].created_at}

offset_of(page, page_size) == (page - 1) * page_size

(* OFFSET ... LIMIT ...  *)
PageOf(s) ==
    LET offset == offset_of(walk.page, walk.page_size)
    IN  {s[i] : i \in DOMAIN s \cap (offset + 1)..(offset + walk.page_size)}

(* Fault: only full pages count.  *)
full_pages(total, page_size) == total \div page_size

total_pages(total, page_size) == (total + page_size - 1) \div page_size

(* ... and that of the page, each in a snapshot of its own.  *)
Read ==
    /\ walk.pc = "read"
    /\ LET more == walk.page < total_pages(walk.total, walk.page_size)
       IN  \E s \in Orders :
             walk' = [walk EXCEPT
                 !.shown = @ \cup PageOf(s),
                 !.pc = IF more THEN "count" ELSE "done",
                 !.page = IF more THEN @ + 1 ELSE @]
    /\ UNCHANGED accounts
-----------------------------------------------------------------------------
Next ==
    \/ \E a \in Account :
         \/ \E address \in Address, brn \in Brn \cup {NoBrn} : Register(a, address, brn)
         \/ InsertUser(a) \/ InsertSeller(a) \/ Refuse(a) \/ Fail(a)
         \/ Commit(a) \/ Approve(a)
    \/ \E page_size \in PageSizes : StartWalk(page_size)
    \/ Count \/ Read

Spec == Init /\ [][Next]_vars
-----------------------------------------------------------------------------
(* Properties.  *)

(* However registrations race, crash and are rolled back, an email, in any *)
(* spelling, and a registration number have one account, and an account of *)
(* a seller is never without its seller.                                   *)
AccountsWhole ==
    /\ \A a, b \in DOMAIN users :
         a # b => Lower[users[a].email] # Lower[users[b].email]
    /\ \A a, b \in DOMAIN sellers : a # b => sellers[a].brn # sellers[b].brn
    /\ DOMAIN sellers = {a \in DOMAIN users : users[a].role = "SELLER"}

(* A registration is answered with a conflict only if there is an account  *)
(* it conflicts with, not because of one that was being registered and in  *)
(* the end was not.                                                        *)
RefusedOnlyForTaken ==
    \A a \in Account : At(a, "refused") => EmailTaken(a) \/ BrnTaken(a)

(* An admin who reads page after page up to total_pages has seen every     *)
(* seller that awaited a decision all the while, even if others register   *)
(* on the way: except if one was decided, or registered between the COUNT  *)
(* and the SELECT of a page, or if two were created at the same instant.   *)
WalkComplete ==
    walk.pc = "done" =>
        \/ walk.disturbed
        \/ \E a, b \in DOMAIN sellers :
             a # b /\ sellers[a].created_at = sellers[b].created_at
        \/ walk.listed \subseteq walk.shown
=============================================================================
