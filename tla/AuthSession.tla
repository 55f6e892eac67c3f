----------------------------- MODULE AuthSession -----------------------------
(***************************************************************************)
(* Refresh tokens: services/auth_service.py over RefreshTokenStore of      *)
(* core/security.py, with the ban of services/admin_service.py.  A request *)
(* takes one step per round trip to Redis or PostgreSQL; a MULTI/EXEC      *)
(* pipeline is one step.  Tokens are known by their jti; the signature and *)
(* the shape of a token are not modelled, its expiry and its owner are.    *)
(***************************************************************************)
EXTENDS Tables, FiniteSets

CONSTANTS
    User,       \* accounts that are not administrators
    Jti,        \* ids of refresh tokens: a bound on how many are minted
    NoJti,      \* no token
    Request     \* requests served at the same time

ASSUME NoJtiAssumption == NoJti \notin Jti

VARIABLES
    active,     \* users.is_active
    whitelist,  \* the jtis with a key refresh:jti:{jti}
    index,      \* the sets refresh:user:{user_id}
    owner,      \* the sub claim of each token minted
    expired,    \* tokens whose exp has passed
    held,       \* tokens delivered to their client
    req,        \* the requests being served
    registered, \* history: jtis that were whitelisted at some time
    late,       \* history: the ones whose owner was banned by then
    loggedOut,  \* history: jtis a logout revoked
    parent,     \* history: the token each rotation exchanged, by the new one
    swept       \* history: users whose ban revoked all it found

redis == <<whitelist, index>>
history == <<registered, late, loggedOut, parent, swept>>
vars == <<active, redis, owner, expired, held, req, history>>

(***************************************************************************)
(* A request; pc is what it does next:                                     *)
(*   "check"     refresh: EXISTS on the old jti                            *)
(*   "load"      refresh: SELECT of the user                               *)
(*   "register"  login: register the new jti                               *)
(*   "rotate"    refresh: swap the old jti for the new one                 *)
(*   "respond"   send the new token to the client                          *)
(*   "index"     revoke_all_for_user: SMEMBERS                             *)
(*   "delete"    revoke_all_for_user: delete the keys found and the index  *)
(***************************************************************************)
Req == [op : {"login", "refresh", "ban"},
        pc : {"check", "load", "register", "rotate", "respond", "index", "delete"},
        user : User, old : Jti \cup {NoJti}, new : Jti \cup {NoJti},
        found : SUBSET Jti]

TypeOK ==
    /\ active \in [User -> BOOLEAN]
    /\ whitelist \subseteq Jti
    /\ index \in [User -> SUBSET Jti]
    /\ IsTable(owner, Jti, User)
    /\ expired \subseteq Jti /\ held \subseteq Jti
    /\ IsTable(req, Request, Req)
    /\ registered \subseteq Jti /\ late \subseteq Jti /\ loggedOut \subseteq Jti
    /\ IsTable(parent, Jti, Jti)
    /\ swept \subseteq User

Init ==
    /\ active = [u \in User |-> TRUE]
    /\ whitelist = {}
    /\ index = [u \in User |-> {}]
    /\ owner = EmptyTable
    /\ expired = {}
    /\ held = {}
    /\ req = EmptyTable
    /\ registered = {}
    /\ late = {}
    /\ loggedOut = {}
    /\ parent = EmptyTable
    /\ swept = {}

At(r, pc) == r \in DOMAIN req /\ req[r].pc = pc
Goto(r, pc) == req' = [req EXCEPT ![r].pc = pc]
Finish(r) == req' = Delete(req, r)
Fresh(j) == j \in Jti \ DOMAIN owner
Late(u, j) == late' = IF active[u] THEN late ELSE late \cup {j}
-----------------------------------------------------------------------------
(* Login.  *)

(* authenticate: the user row is read, a token pair is minted.  *)
StartLogin(r, u, j) ==
    /\ r \notin DOMAIN req
    /\ active[u]
    /\ Fresh(j)
    /\ owner' = Insert(owner, j, u)
    /\ req' = Insert(req, r, [op |-> "login", pc |-> "register", user |-> u,
                              old |-> NoJti, new |-> j, found |-> {}])
    /\ UNCHANGED <<active, redis, expired, held, history>>

(* Fault: the key registered is not the new one.  *)
RegisterOld(r) ==
    /\ At(r, "register")
    /\ whitelist' = whitelist \cup {req[r].old}
    /\ UNCHANGED <<active, index, owner, expired, held, req, history>>

Register(r) ==
    /\ At(r, "register")
    /\ LET u == req[r].user
           j == req[r].new
       IN  /\ whitelist' = whitelist \cup {j}
           /\ index' = [index EXCEPT ![u] = @ \cup {j}]
           /\ registered' = registered \cup {j}
           /\ Late(u, j)
    /\ Goto(r, "respond")
    /\ UNCHANGED <<active, owner, expired, held, loggedOut, parent, swept>>

Respond(r) ==
    /\ At(r, "respond")
    /\ held' = held \cup {req[r].new}
    /\ Finish(r)
    /\ UNCHANGED <<active, redis, owner, expired, history>>
-----------------------------------------------------------------------------
(* Refresh.  *)

(* A client presents a token that decodes.  *)
StartRefresh(r, j) ==
    /\ r \notin DOMAIN req
    /\ j \in held \ expired
    /\ req' = Insert(req, r, [op |-> "refresh", pc |-> "check", user |-> owner[j],
                              old |-> j, new |-> NoJti, found |-> {}])
    /\ UNCHANGED <<active, redis, owner, expired, held, history>>

(* is_valid: 401 for a token that is not whitelisted.  *)
CheckWhitelist(r) ==
    /\ At(r, "check")
    /\ IF req[r].old \in whitelist THEN Goto(r, "load") ELSE Finish(r)
    /\ UNCHANGED <<active, redis, owner, expired, held, history>>

(* Fault: the claims of the token are trusted, the user is not re-read.  *)
TrustClaims(r, j) ==
    /\ At(r, "load")
    /\ Fresh(j)
    /\ owner' = Insert(owner, j, req[r].user)
    /\ req' = [req EXCEPT ![r].pc = "rotate", ![r].new = j]
    /\ UNCHANGED <<active, redis, expired, held, history>>

(* The user is active: a new pair is minted.  *)
LoadActiveUser(r, j) ==
    /\ At(r, "load")
    /\ active[req[r].user]
    /\ Fresh(j)
    /\ owner' = Insert(owner, j, req[r].user)
    /\ req' = [req EXCEPT ![r].pc = "rotate", ![r].new = j]
    /\ UNCHANGED <<active, redis, expired, held, history>>

(* The user was banned: revoke whatever is left, then 401.  *)
LoadBannedUser(r) ==
    /\ At(r, "load")
    /\ ~active[req[r].user]
    /\ Goto(r, "index")
    /\ UNCHANGED <<active, redis, owner, expired, held, history>>

(* Fault: the old key is kept.  *)
RotateKeepingOld(r) ==
    /\ At(r, "rotate")
    /\ LET u == req[r].user
           new == req[r].new
       IN  /\ whitelist' = whitelist \cup {new}
           /\ index' = [index EXCEPT ![u] = @ \cup {new}]
           /\ registered' = registered \cup {new}
           /\ Late(u, new)
           /\ parent' = Insert(parent, new, req[r].old)
    /\ Goto(r, "respond")
    /\ UNCHANGED <<active, owner, expired, held, loggedOut, swept>>

(* rotate: deletes the old jti without checking that it is still there.  *)
Rotate(r) ==
    /\ At(r, "rotate")
    /\ LET u == req[r].user
           old == req[r].old
           new == req[r].new
       IN  /\ whitelist' = (whitelist \ {old}) \cup {new}
           /\ index' = [index EXCEPT ![u] = (@ \ {old}) \cup {new}]
           /\ registered' = registered \cup {new}
           /\ Late(u, new)
           /\ parent' = Insert(parent, new, old)
    /\ Goto(r, "respond")
    /\ UNCHANGED <<active, owner, expired, held, loggedOut, swept>>
-----------------------------------------------------------------------------
(* Logout: one pipeline, the answer carries nothing.  *)
Logout(j) ==
    /\ j \in held \ expired
    /\ whitelist' = whitelist \ {j}
    /\ index' = [index EXCEPT ![owner[j]] = @ \ {j}]
    /\ loggedOut' = loggedOut \cup {j}
    /\ UNCHANGED <<active, owner, expired, held, req, registered, late, parent, swept>>
-----------------------------------------------------------------------------
(* Ban, and revoke_all_for_user, which a refused refresh runs too.  *)

(* is_active is cleared and committed before Redis is touched.  *)
StartBan(r, u) ==
    /\ r \notin DOMAIN req
    /\ active' = [active EXCEPT ![u] = FALSE]
    /\ req' = Insert(req, r, [op |-> "ban", pc |-> "index", user |-> u,
                              old |-> NoJti, new |-> NoJti, found |-> {}])
    /\ UNCHANGED <<redis, owner, expired, held, history>>

Swept(r) == swept' = IF req[r].op = "ban" THEN swept \cup {req[r].user} ELSE swept

ReadIndex(r) ==
    /\ At(r, "index")
    /\ LET jtis == index[req[r].user]
       IN  IF jtis = {}
           THEN Finish(r) /\ Swept(r)
           ELSE /\ req' = [req EXCEPT ![r].pc = "delete", ![r].found = jtis]
                /\ UNCHANGED swept
    /\ UNCHANGED <<active, redis, owner, expired, held, registered, late, loggedOut, parent>>

DeleteFound(r) ==
    /\ At(r, "delete")
    /\ whitelist' = whitelist \ req[r].found
    /\ index' = [index EXCEPT ![req[r].user] = {}]
    /\ Finish(r)
    /\ Swept(r)
    /\ UNCHANGED <<active, owner, expired, held, registered, late, loggedOut, parent>>
-----------------------------------------------------------------------------
(* Faults and time.  *)

(* Fault: a login goes on although Redis did not take its jti.  *)
FailOpen(r) ==
    /\ r \in DOMAIN req
    /\ IF req[r].pc = "register" THEN Goto(r, "respond") ELSE Finish(r)
    /\ UNCHANGED <<active, redis, owner, expired, held, history>>

(* Redis is down (500, or swallowed by a ban), the process dies, or the    *)
(* answer is lost.                                                         *)
Fail(r) ==
    /\ r \in DOMAIN req
    /\ Finish(r)
    /\ UNCHANGED <<active, redis, owner, expired, held, history>>

(* A token expires, and its key with it: both have the same TTL.  *)
Expire(j) ==
    /\ j \in held \ expired
    /\ expired' = expired \cup {j}
    /\ whitelist' = whitelist \ {j}
    /\ UNCHANGED <<active, index, owner, held, req, history>>

(* Fault: the index expires with the oldest of its members.  *)
ExpireIndexEarly(u) ==
    /\ index[u] \cap expired # {}
    /\ index' = [index EXCEPT ![u] = {}]
    /\ UNCHANGED <<active, whitelist, owner, expired, held, req, history>>

(* The index expires with the youngest of its members.  *)
ExpireIndex(u) ==
    /\ index[u] # {} /\ index[u] \subseteq expired
    /\ index' = [index EXCEPT ![u] = {}]
    /\ UNCHANGED <<active, whitelist, owner, expired, held, req, history>>
-----------------------------------------------------------------------------
Start(r) ==
    \/ \E u \in User, j \in Jti : StartLogin(r, u, j)
    \/ \E j \in Jti : StartRefresh(r, j)
    \/ \E u \in User : StartBan(r, u)

Step(r) ==
    \/ Register(r) \/ Respond(r)
    \/ CheckWhitelist(r) \/ LoadBannedUser(r) \/ Rotate(r)
    \/ \E j \in Jti : LoadActiveUser(r, j)
    \/ ReadIndex(r) \/ DeleteFound(r)

Next ==
    \/ \E r \in Request : Start(r) \/ Step(r) \/ Fail(r)
    \/ \E j \in Jti : Logout(j) \/ Expire(j)
    \/ \E u \in User : ExpireIndex(u)

Spec == Init /\ [][Next]_vars
-----------------------------------------------------------------------------
(* Properties.  *)

(* A token that was exchanged or logged out is never whitelisted again,    *)
(* whatever requests were in flight for it (the docstrings of rotate and   *)
(* revoke: "each refresh invalidates the old token").                      *)
DeadTokensRejected ==
    /\ \A j \in DOMAIN parent : parent[j] \notin whitelist
    /\ loggedOut \cap whitelist = {}

(* A client never receives a token that was not whitelisted first, so no   *)
(* outage leaves it with a session that cannot be refreshed (the docstring *)
(* of login).                                                              *)
DeliveredWasRegistered == held \subseteq registered

(* Once a ban has swept Redis, the tokens of the account that are left     *)
(* there are ones that a login or a refresh in flight registered after it; *)
(* whatever logins, refreshes, logouts, expiries and sweeps overlap, it    *)
(* missed none that was there before (the docstring of ban_user: "revoke   *)
(* every active refresh token").                                           *)
BanRevokesEarlier ==
    \A j \in whitelist : owner[j] \in swept => j \in late

TokensOf(u) == {j \in held : owner[j] = u}

(* Requests that read the user as active and will answer with a token.  *)
InFlight(u) ==
    {r \in DOMAIN req : req[r].user = u /\ req[r].pc \in {"register", "rotate", "respond"}}

LockedOut(u) == ~active[u] /\ InFlight(u) = {}

(* Once an account is banned and the requests that had already read it are *)
(* answered, it never gets a token again, though keys of it may be left in *)
(* Redis: every refresh re-reads the user (the docstring of refresh: "so a *)
(* banned or downgraded user can't keep refreshing").                      *)
LockoutHolds ==
    [][\A u \in User :
         LockedOut(u) => LockedOut(u)' /\ TokensOf(u)' = TokensOf(u)]_vars

(* What the code says and does not do.  *)

(* auth_service.py, refresh: "even under a concurrent reuse attempt only   *)
(* one of the racers wins"; a token is exchanged at most once.             *)
OnlyOneRacerWins ==
    \A i, j \in DOMAIN parent : i # j => parent[i] # parent[j]
=============================================================================
