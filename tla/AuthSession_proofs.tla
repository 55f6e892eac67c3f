------------------------- MODULE AuthSession_proofs -------------------------
(***************************************************************************)
(* Proofs of AuthSession, for any number of accounts, tokens and requests: *)
(* dead tokens stay dead, what a client holds was registered, a ban locks  *)
(* the account out and revokes every key from before it.                   *)
(***************************************************************************)
EXTENDS AuthSession, TLAPS

(* A request that has minted a token and not yet delivered it.             *)
Carries(q) == q.pc \in {"register", "rotate", "respond"}

(* What a request in flight knows: the token it exchanges was delivered,   *)
(* the one it carries is its user's, not delivered, and registered before  *)
(* it is sent.                                                             *)
Sound(q) ==
    /\ q.pc \in {"check", "load", "rotate"} => q.old \in held
    /\ Carries(q) => /\ q.new \in DOMAIN owner /\ owner[q.new] = q.user
                     /\ q.new \notin held
    /\ q.pc = "respond" => q.new \in registered

(* No two requests carry one token.                                        *)
Apart ==
    \A r, s \in DOMAIN req :
        r # s /\ Carries(req[r]) /\ Carries(req[s]) => req[r].new # req[s].new

Requests == Apart /\ \A r \in DOMAIN req : Sound(req[r])

(* Only delivered tokens are exchanged or logged out.                      *)
Delivered ==
    /\ held \subseteq DOMAIN owner
    /\ loggedOut \subseteq held
    /\ \A j \in DOMAIN parent : parent[j] \in held

IInv ==
    /\ TypeOK
    /\ Requests
    /\ Delivered
    /\ DeadTokensRejected
    /\ DeliveredWasRegistered

(***************************************************************************)
(* A step that replaces or removes one request, forgets no token and       *)
(* delivers none that another request carries, keeps what the requests     *)
(* know.                                                                   *)
(***************************************************************************)
LEMMA OneRequest ==
    ASSUME IInv, NEW r,
           \A s \in DOMAIN req' \ {r} : s \in DOMAIN req /\ req'[s] = req[s],
           r \in DOMAIN req' => Sound(req[r])',
           r \in DOMAIN req' /\ Carries(req'[r]) =>
               \A s \in DOMAIN req \ {r} : Carries(req[s]) => req[s].new # req'[r].new,
           held \subseteq held', registered \subseteq registered',
           \A j \in DOMAIN owner : j \in DOMAIN owner' /\ owner'[j] = owner[j],
           \A s \in DOMAIN req \ {r} : Carries(req[s]) => req[s].new \notin held'
    PROVE  Requests'
<1>1. ASSUME NEW s \in DOMAIN req'
      PROVE  Sound(req[s])'
  <2>1. CASE s = r
    BY <1>1, <2>1
  <2>2. CASE s # r
    <3>1. s \in DOMAIN req /\ req'[s] = req[s] /\ Sound(req[s])
      BY <1>1, <2>2 DEF IInv, Requests
    <3> QED
      BY <2>2, <3>1 DEF Sound, Carries
  <2> QED
    BY <2>1, <2>2
<1>2. ASSUME NEW s \in DOMAIN req', NEW t \in DOMAIN req', s # t,
             Carries(req'[s]), Carries(req'[t])
      PROVE  req'[s].new # req'[t].new
  <2>1. CASE s = r
    BY <1>2, <2>1
  <2>2. CASE t = r
    BY <1>2, <2>2
  <2>3. CASE s # r /\ t # r
    BY <1>2, <2>3 DEF IInv, Requests, Apart
  <2> QED
    BY <2>1, <2>2, <2>3
<1>3. Apart'
  BY <1>2 DEF Apart, Carries
<1> QED
  BY <1>1, <1>3 DEF Requests

(* The type of a request after a step that starts or ends it.              *)
LEMMA Ended ==
    ASSUME IInv, NEW r, Finish(r)
    PROVE  /\ IsTable(req', Request, Req)
           /\ DOMAIN req' = DOMAIN req \ {r}
           /\ \A s \in DOMAIN req' : req'[s] = req[s]
<1>1. IsTable(req', Request, Req)
  BY DEF IsTable, Delete, IInv, TypeOK, Finish
<1> QED
  BY <1>1 DEF Finish, Delete

(* A request that moves on leaves the other requests alone.                *)
LEMMA Moved ==
    ASSUME IInv, NEW r \in DOMAIN req, NEW q \in Req, req' = [req EXCEPT ![r] = q]
    PROVE  /\ IsTable(req', Request, Req)
           /\ DOMAIN req' = DOMAIN req /\ req'[r] = q
           /\ \A s \in DOMAIN req \ {r} : req'[s] = req[s]
<1>1. IsTable(req', Request, Req)
  BY DEF IsTable, IInv, TypeOK
<1> QED
  BY <1>1

(* A request that begins leaves the other requests alone.                  *)
LEMMA Begun ==
    ASSUME IInv, NEW r \in Request, r \notin DOMAIN req, NEW q \in Req,
           req' = Insert(req, r, q)
    PROVE  /\ IsTable(req', Request, Req)
           /\ DOMAIN req' = DOMAIN req \cup {r} /\ req'[r] = q
           /\ \A s \in DOMAIN req : req'[s] = req[s]
<1>1. IsTable(req', Request, Req)
  BY DEF IsTable, Insert, IInv, TypeOK
<1> QED
  BY <1>1 DEF Insert

(* A request in flight and its tokens.                                     *)
LEMMA InFlightTyped ==
    ASSUME IInv, NEW r \in DOMAIN req
    PROVE  /\ req[r] \in Req /\ Sound(req[r])
           /\ req[r].user \in User
           /\ req[r].pc \in {"check", "load", "rotate"} => req[r].old \in Jti
           /\ Carries(req[r]) => req[r].new \in Jti
BY DEF IInv, TypeOK, IsTable, Req, Requests, Sound

(* Minting a token for a user.                                             *)
LEMMA Minted ==
    ASSUME IInv, NEW j, Fresh(j), NEW u \in User, owner' = Insert(owner, j, u)
    PROVE  /\ IsTable(owner', Jti, User)
           /\ DOMAIN owner' = DOMAIN owner \cup {j} /\ owner'[j] = u
           /\ \A i \in DOMAIN owner : owner'[i] = owner[i]
           /\ j \in Jti /\ j \notin held
           /\ \A s \in DOMAIN req : Carries(req[s]) => req[s].new # j
<1>1. j \in Jti /\ j \notin DOMAIN owner
  BY DEF Fresh
<1>2. IsTable(owner', Jti, User)
  BY <1>1 DEF IsTable, Insert, IInv, TypeOK
<1>3. j \notin held
  BY <1>1 DEF IInv, Delivered
<1>4. \A s \in DOMAIN req : Carries(req[s]) => req[s].new # j
  BY <1>1 DEF IInv, Requests, Sound
<1> QED
  BY <1>1, <1>2, <1>3, <1>4 DEF Insert

(* StartLogin keeps the inductive invariant.                               *)
LEMMA StartLoginInv ==
    ASSUME IInv, NEW r \in Request, NEW u \in User, NEW j \in Jti, StartLogin(r, u, j)
    PROVE  IInv'
<1> DEFINE q == [op |-> "login", pc |-> "register", user |-> u,
                 old |-> NoJti, new |-> j, found |-> {}]
<1>1. q \in Req /\ q.pc = "register" /\ q.new = j /\ q.user = u
  BY DEF Req
<1>2. /\ req' = Insert(req, r, q) /\ r \notin DOMAIN req
      /\ owner' = Insert(owner, j, u) /\ Fresh(j)
      /\ UNCHANGED <<active, redis, expired, held, history>>
  BY DEF StartLogin
<1> HIDE DEF q
<1>3. /\ IsTable(req', Request, Req)
      /\ DOMAIN req' = DOMAIN req \cup {r} /\ req'[r] = q
      /\ \A s \in DOMAIN req : req'[s] = req[s]
  BY <1>1, <1>2, Begun
<1>4. /\ IsTable(owner', Jti, User)
      /\ DOMAIN owner' = DOMAIN owner \cup {j} /\ owner'[j] = u
      /\ \A i \in DOMAIN owner : owner'[i] = owner[i]
      /\ j \notin held
      /\ \A s \in DOMAIN req : Carries(req[s]) => req[s].new # j
  BY <1>2, Minted
<1>5. Requests'
  <2>1. Sound(req[r])'
    BY <1>1, <1>2, <1>3, <1>4 DEF Sound, Carries
  <2>2. \A s \in DOMAIN req : Carries(req[s]) => req[s].new \notin held'
    BY <1>2 DEF IInv, Requests, Sound
  <2> QED
    BY <1>1, <1>2, <1>3, <1>4, <2>1, <2>2, OneRequest DEF history
<1>6. TypeOK'
  BY <1>2, <1>3, <1>4 DEF IInv, TypeOK, redis, history
<1>7. Delivered' /\ DeadTokensRejected' /\ DeliveredWasRegistered'
  BY <1>2, <1>4 DEF IInv, Delivered, DeadTokensRejected, DeliveredWasRegistered,
                    redis, history
<1> QED
  BY <1>5, <1>6, <1>7 DEF IInv

(* A request that moves on or ends without a token leaves what the others  *)
(* know.                                                                   *)
LEMMA QuietRequests ==
    ASSUME IInv, NEW r,
           \A s \in DOMAIN req' \ {r} : s \in DOMAIN req /\ req'[s] = req[s],
           r \in DOMAIN req' => ~Carries(req'[r]) /\ Sound(req[r])',
           UNCHANGED <<owner, held, registered>>
    PROVE  Requests'
<1>1. \A s \in DOMAIN req \ {r} : Carries(req[s]) => req[s].new \notin held'
  BY DEF IInv, Requests, Sound
<1> QED
  BY <1>1, OneRequest

(* Steps that mint, register and deliver nothing and add no key.           *)
LEMMA QuietInv ==
    ASSUME IInv, Requests',
           IsTable(req', Request, Req),
           UNCHANGED <<owner, held, registered, late, parent>>,
           active' \in [User -> BOOLEAN],
           whitelist' \subseteq whitelist,
           index' \in [User -> SUBSET Jti],
           expired' \subseteq Jti,
           loggedOut' \subseteq held, loggedOut' \cap whitelist' = {},
           swept' \subseteq User
    PROVE  IInv'
<1>1. TypeOK'
  BY DEF IInv, TypeOK
<1>2. Delivered' /\ DeadTokensRejected' /\ DeliveredWasRegistered'
  BY DEF IInv, Delivered, DeadTokensRejected, DeliveredWasRegistered
<1> QED
  BY <1>1, <1>2 DEF IInv

(* StartRefresh keeps the inductive invariant.                             *)
LEMMA StartRefreshInv ==
    ASSUME IInv, NEW r \in Request, NEW j \in Jti, StartRefresh(r, j)
    PROVE  IInv'
<1> DEFINE q == [op |-> "refresh", pc |-> "check", user |-> owner[j],
                 old |-> j, new |-> NoJti, found |-> {}]
<1>1. owner[j] \in User /\ j \in held
  BY DEF StartRefresh, IInv, TypeOK, IsTable, Delivered
<1>2. q \in Req /\ q.pc = "check" /\ q.old = j
  BY <1>1 DEF Req
<1>3. /\ req' = Insert(req, r, q) /\ r \notin DOMAIN req
      /\ UNCHANGED <<active, redis, owner, expired, held, history>>
  BY DEF StartRefresh
<1> HIDE DEF q
<1>4. /\ IsTable(req', Request, Req)
      /\ DOMAIN req' = DOMAIN req \cup {r} /\ req'[r] = q
      /\ \A s \in DOMAIN req : req'[s] = req[s]
  BY <1>2, <1>3, Begun
<1>5. ~Carries(req'[r]) /\ Sound(req[r])'
  BY <1>1, <1>2, <1>3, <1>4 DEF Carries, Sound
<1>6. Requests'
  BY <1>3, <1>4, <1>5, QuietRequests DEF history
<1> QED
  BY <1>3, <1>4, <1>6, QuietInv
     DEF IInv, TypeOK, Delivered, DeadTokensRejected, redis, history

(* StartBan keeps the inductive invariant.                                 *)
LEMMA StartBanInv ==
    ASSUME IInv, NEW r \in Request, NEW u \in User, StartBan(r, u)
    PROVE  IInv'
<1> DEFINE q == [op |-> "ban", pc |-> "index", user |-> u,
                 old |-> NoJti, new |-> NoJti, found |-> {}]
<1>1. q \in Req /\ q.pc = "index"
  BY DEF Req
<1>2. /\ req' = Insert(req, r, q) /\ r \notin DOMAIN req
      /\ active' = [active EXCEPT ![u] = FALSE]
      /\ UNCHANGED <<redis, owner, expired, held, history>>
  BY DEF StartBan
<1> HIDE DEF q
<1>3. /\ IsTable(req', Request, Req)
      /\ DOMAIN req' = DOMAIN req \cup {r} /\ req'[r] = q
      /\ \A s \in DOMAIN req : req'[s] = req[s]
  BY <1>1, <1>2, Begun
<1>4. ~Carries(req'[r]) /\ Sound(req[r])'
  BY <1>1, <1>3 DEF Carries, Sound
<1>5. Requests'
  BY <1>2, <1>3, <1>4, QuietRequests DEF history
<1> QED
  BY <1>2, <1>3, <1>5, QuietInv
     DEF IInv, TypeOK, Delivered, DeadTokensRejected, redis, history

(* A request that ends.                                                    *)
LEMMA FinishRequests ==
    ASSUME IInv, NEW r, Finish(r), UNCHANGED <<owner, held, registered>>
    PROVE  Requests' /\ IsTable(req', Request, Req)
<1>1. /\ IsTable(req', Request, Req)
      /\ DOMAIN req' = DOMAIN req \ {r}
      /\ \A s \in DOMAIN req' : req'[s] = req[s]
  BY Ended
<1> QED
  BY <1>1, QuietRequests

(* A request that goes on to a step in which it carries no token.          *)
LEMMA GotoRequests ==
    ASSUME IInv, NEW r \in DOMAIN req, NEW pc \in {"load", "index", "delete"},
           NEW found \in SUBSET Jti,
           req' = [req EXCEPT ![r].pc = pc, ![r].found = found],
           pc = "load" => req[r].old \in held,
           UNCHANGED <<owner, held, registered>>
    PROVE  Requests' /\ IsTable(req', Request, Req)
<1> DEFINE q == [req[r] EXCEPT !.pc = pc, !.found = found]
<1>1. req[r] \in Req
  BY InFlightTyped
<1>2. q \in Req /\ q.pc = pc /\ q.old = req[r].old
  BY <1>1 DEF Req
<1>3. req' = [req EXCEPT ![r] = q]
  OBVIOUS
<1> HIDE DEF q
<1>4. /\ IsTable(req', Request, Req)
      /\ DOMAIN req' = DOMAIN req /\ req'[r] = q
      /\ \A s \in DOMAIN req \ {r} : req'[s] = req[s]
  BY <1>2, <1>3, Moved
<1>5. ~Carries(req'[r]) /\ Sound(req[r])'
  BY <1>2, <1>4 DEF Carries, Sound
<1> QED
  BY <1>4, <1>5, QuietRequests

(* CheckWhitelist keeps the inductive invariant.                           *)
LEMMA CheckWhitelistInv ==
    ASSUME IInv, NEW r \in Request, CheckWhitelist(r)
    PROVE  IInv'
<1>1. /\ r \in DOMAIN req /\ req[r].pc = "check"
      /\ UNCHANGED <<active, redis, owner, expired, held, history>>
  BY DEF CheckWhitelist, At
<1>2. req[r] \in Req /\ req[r].old \in held
  BY <1>1, InFlightTyped DEF Sound
<1>3. Requests' /\ IsTable(req', Request, Req)
  <2>1. CASE Goto(r, "load")
    <3>1. /\ req[r].found \in SUBSET Jti
          /\ req' = [req EXCEPT ![r].pc = "load", ![r].found = req[r].found]
      BY <1>1, <1>2, <2>1 DEF Goto, Req, IInv, TypeOK, IsTable
    <3> QED
      BY <1>1, <1>2, <3>1, GotoRequests DEF history
  <2>2. CASE Finish(r)
    BY <1>1, <2>2, FinishRequests DEF history
  <2> QED
    BY <2>1, <2>2 DEF CheckWhitelist
<1> QED
  BY <1>1, <1>3, QuietInv
     DEF IInv, TypeOK, Delivered, DeadTokensRejected, redis, history

(* LoadBannedUser keeps the inductive invariant.                           *)
LEMMA LoadBannedUserInv ==
    ASSUME IInv, NEW r \in Request, LoadBannedUser(r)
    PROVE  IInv'
<1>1. /\ r \in DOMAIN req /\ Goto(r, "index")
      /\ UNCHANGED <<active, redis, owner, expired, held, history>>
  BY DEF LoadBannedUser, At
<1>2. /\ req[r].found \in SUBSET Jti
      /\ req' = [req EXCEPT ![r].pc = "index", ![r].found = req[r].found]
  <2>1. req[r] \in Req
    BY <1>1, InFlightTyped
  <2> QED
    BY <1>1, <2>1 DEF Goto, Req, IInv, TypeOK, IsTable
<1>3. Requests' /\ IsTable(req', Request, Req)
  BY <1>1, <1>2, GotoRequests DEF history
<1> QED
  BY <1>1, <1>3, QuietInv
     DEF IInv, TypeOK, Delivered, DeadTokensRejected, redis, history

(* A sweep marks the user of its request.                                  *)
LEMMA SweptTyped ==
    ASSUME IInv, NEW r \in DOMAIN req, Swept(r) \/ UNCHANGED swept
    PROVE  swept' \subseteq User
<1>1. req[r].user \in User
  BY InFlightTyped
<1> QED
  BY <1>1 DEF Swept, IInv, TypeOK

(* ReadIndex keeps the inductive invariant.                                *)
LEMMA ReadIndexInv ==
    ASSUME IInv, NEW r \in Request, ReadIndex(r)
    PROVE  IInv'
<1> DEFINE jtis == index[req[r].user]
<1>1. /\ r \in DOMAIN req
      /\ UNCHANGED <<active, redis, owner, expired, held, registered, late, loggedOut, parent>>
      /\ \/ Finish(r) /\ Swept(r)
         \/ /\ req' = [req EXCEPT ![r].pc = "delete", ![r].found = jtis]
            /\ UNCHANGED swept
  BY DEF ReadIndex, At
<1>2. jtis \in SUBSET Jti
  BY <1>1, InFlightTyped DEF IInv, TypeOK
<1> HIDE DEF jtis
<1>3. Requests' /\ IsTable(req', Request, Req)
  BY <1>1, <1>2, FinishRequests, GotoRequests
<1>4. swept' \subseteq User
  BY <1>1, SweptTyped
<1> QED
  BY <1>1, <1>3, <1>4, QuietInv
     DEF IInv, TypeOK, Delivered, DeadTokensRejected, redis

(* DeleteFound keeps the inductive invariant.                              *)
LEMMA DeleteFoundInv ==
    ASSUME IInv, NEW r \in Request, DeleteFound(r)
    PROVE  IInv'
<1>1. /\ r \in DOMAIN req /\ Finish(r) /\ Swept(r)
      /\ whitelist' = whitelist \ req[r].found
      /\ index' = [index EXCEPT ![req[r].user] = {}]
      /\ UNCHANGED <<active, owner, expired, held, registered, late, loggedOut, parent>>
  BY DEF DeleteFound, At
<1>2. Requests' /\ IsTable(req', Request, Req)
  BY <1>1, FinishRequests
<1>3. swept' \subseteq User
  BY <1>1, SweptTyped
<1>4. index' \in [User -> SUBSET Jti]
  BY <1>1 DEF IInv, TypeOK
<1> QED
  BY <1>1, <1>2, <1>3, <1>4, QuietInv
     DEF IInv, TypeOK, Delivered, DeadTokensRejected

(* Fail keeps the inductive invariant.                                     *)
LEMMA FailInv ==
    ASSUME IInv, NEW r \in Request, Fail(r)
    PROVE  IInv'
<1>1. Finish(r) /\ UNCHANGED <<active, redis, owner, expired, held, history>>
  BY DEF Fail
<1>2. Requests' /\ IsTable(req', Request, Req)
  BY <1>1, FinishRequests DEF history
<1> QED
  BY <1>1, <1>2, QuietInv
     DEF IInv, TypeOK, Delivered, DeadTokensRejected, redis, history

(* A token is registered, delivered, minted for a refresh or exchanged.    *)
LEMMA RegisterInv ==
    ASSUME IInv, NEW r \in Request, Register(r)
    PROVE  IInv'
<1> DEFINE q == [req[r] EXCEPT !.pc = "respond"]
           j == req[r].new
<1>1. /\ r \in DOMAIN req /\ req[r].pc = "register"
      /\ req' = [req EXCEPT ![r] = q]
      /\ whitelist' = whitelist \cup {j}
      /\ index' = [index EXCEPT ![req[r].user] = @ \cup {j}]
      /\ registered' = registered \cup {j}
      /\ late' \in {late, late \cup {j}}
      /\ UNCHANGED <<active, owner, expired, held, loggedOut, parent, swept>>
  BY DEF Register, At, Goto, Late
<1>2. /\ req[r] \in Req /\ Sound(req[r]) /\ Carries(req[r])
      /\ j \in Jti /\ j \notin held
  BY <1>1, InFlightTyped DEF Carries, Sound
<1>3. q \in Req /\ q.pc = "respond" /\ q.new = j /\ q.user = req[r].user
  BY <1>2 DEF Req
<1> HIDE DEF q
<1>4. /\ IsTable(req', Request, Req)
      /\ DOMAIN req' = DOMAIN req /\ req'[r] = q
      /\ \A s \in DOMAIN req \ {r} : req'[s] = req[s]
  BY <1>1, <1>3, Moved
<1>5. Sound(req[r])'
  BY <1>1, <1>2, <1>3, <1>4 DEF Sound, Carries
<1>6. \A s \in DOMAIN req \ {r} : Carries(req[s]) => /\ req[s].new \notin held
                                                    /\ req[s].new # j
  BY <1>1, <1>2 DEF IInv, Requests, Apart, Sound
<1>7. Requests'
  BY <1>1, <1>3, <1>4, <1>5, <1>6, OneRequest
<1>8. TypeOK'
  BY <1>1, <1>2, <1>4 DEF IInv, TypeOK
<1>9. Delivered' /\ DeadTokensRejected' /\ DeliveredWasRegistered'
  BY <1>1, <1>2 DEF IInv, Delivered, DeadTokensRejected, DeliveredWasRegistered
<1> QED
  BY <1>7, <1>8, <1>9 DEF IInv

(* Respond keeps the inductive invariant.                                  *)
LEMMA RespondInv ==
    ASSUME IInv, NEW r \in Request, Respond(r)
    PROVE  IInv'
<1> DEFINE j == req[r].new
<1>1. /\ r \in DOMAIN req /\ req[r].pc = "respond"
      /\ Finish(r) /\ held' = held \cup {j}
      /\ UNCHANGED <<active, redis, owner, expired, history>>
  BY DEF Respond, At
<1>2. /\ Sound(req[r]) /\ Carries(req[r]) /\ j \in Jti
      /\ j \in DOMAIN owner /\ j \in registered
  BY <1>1, InFlightTyped DEF Carries, Sound
<1>3. /\ IsTable(req', Request, Req)
      /\ DOMAIN req' = DOMAIN req \ {r}
      /\ \A s \in DOMAIN req' : req'[s] = req[s]
  BY <1>1, Ended
<1>4. \A s \in DOMAIN req \ {r} : Carries(req[s]) => req[s].new \notin held'
  BY <1>1, <1>2 DEF IInv, Requests, Apart, Sound
<1>5. Requests'
  BY <1>1, <1>3, <1>4, OneRequest DEF history
<1>6. TypeOK'
  BY <1>1, <1>2, <1>3 DEF IInv, TypeOK, redis, history
<1>7. Delivered' /\ DeadTokensRejected' /\ DeliveredWasRegistered'
  BY <1>1, <1>2 DEF IInv, Delivered, DeadTokensRejected, DeliveredWasRegistered,
                    redis, history
<1> QED
  BY <1>5, <1>6, <1>7 DEF IInv

(* LoadActiveUser keeps the inductive invariant.                           *)
LEMMA LoadActiveUserInv ==
    ASSUME IInv, NEW r \in Request, NEW j \in Jti, LoadActiveUser(r, j)
    PROVE  IInv'
<1> DEFINE q == [req[r] EXCEPT !.pc = "rotate", !.new = j]
           u == req[r].user
<1>1. /\ r \in DOMAIN req /\ req[r].pc = "load" /\ Fresh(j)
      /\ owner' = Insert(owner, j, u)
      /\ req' = [req EXCEPT ![r] = q]
      /\ UNCHANGED <<active, redis, expired, held, history>>
  BY DEF LoadActiveUser, At
<1>2. req[r] \in Req /\ u \in User /\ req[r].old \in held
  BY <1>1, InFlightTyped DEF Sound
<1>3. /\ q \in Req /\ q.pc = "rotate" /\ q.new = j /\ q.user = u
      /\ q.old = req[r].old
  BY <1>2 DEF Req
<1> HIDE DEF q, u
<1>4. /\ IsTable(req', Request, Req)
      /\ DOMAIN req' = DOMAIN req /\ req'[r] = q
      /\ \A s \in DOMAIN req \ {r} : req'[s] = req[s]
  BY <1>1, <1>3, Moved
<1>5. /\ IsTable(owner', Jti, User)
      /\ DOMAIN owner' = DOMAIN owner \cup {j} /\ owner'[j] = u
      /\ \A i \in DOMAIN owner : owner'[i] = owner[i]
      /\ j \notin held
      /\ \A s \in DOMAIN req : Carries(req[s]) => req[s].new # j
  BY <1>1, <1>2, Minted
<1>6. Requests'
  <2>1. Sound(req[r])'
    BY <1>1, <1>2, <1>3, <1>4, <1>5 DEF Sound, Carries
  <2>2. \A s \in DOMAIN req : Carries(req[s]) => req[s].new \notin held'
    BY <1>1 DEF IInv, Requests, Sound
  <2> QED
    BY <1>1, <1>3, <1>4, <1>5, <2>1, <2>2, OneRequest DEF history
<1>7. TypeOK'
  BY <1>1, <1>4, <1>5 DEF IInv, TypeOK, redis, history
<1>8. Delivered' /\ DeadTokensRejected' /\ DeliveredWasRegistered'
  BY <1>1, <1>5 DEF IInv, Delivered, DeadTokensRejected, DeliveredWasRegistered,
                    redis, history
<1> QED
  BY <1>6, <1>7, <1>8 DEF IInv

(* Rotate keeps the inductive invariant.                                   *)
LEMMA RotateInv ==
    ASSUME IInv, NEW r \in Request, Rotate(r)
    PROVE  IInv'
<1> DEFINE q == [req[r] EXCEPT !.pc = "respond"]
           old == req[r].old
           new == req[r].new
<1>1. /\ r \in DOMAIN req /\ req[r].pc = "rotate"
      /\ req' = [req EXCEPT ![r] = q]
      /\ whitelist' = (whitelist \ {old}) \cup {new}
      /\ index' = [index EXCEPT ![req[r].user] = (@ \ {old}) \cup {new}]
      /\ registered' = registered \cup {new}
      /\ late' \in {late, late \cup {new}}
      /\ parent' = Insert(parent, new, old)
      /\ UNCHANGED <<active, owner, expired, held, loggedOut, swept>>
  BY DEF Rotate, At, Goto, Late
<1>2. /\ req[r] \in Req /\ Sound(req[r]) /\ Carries(req[r])
      /\ new \in Jti /\ new \notin held /\ old \in Jti /\ old \in held
  BY <1>1, InFlightTyped DEF Carries, Sound
<1>3. q \in Req /\ q.pc = "respond" /\ q.new = new /\ q.user = req[r].user
  BY <1>2 DEF Req
<1> HIDE DEF q
<1>4. /\ IsTable(req', Request, Req)
      /\ DOMAIN req' = DOMAIN req /\ req'[r] = q
      /\ \A s \in DOMAIN req \ {r} : req'[s] = req[s]
  BY <1>1, <1>3, Moved
<1>5. Sound(req[r])'
  BY <1>1, <1>2, <1>3, <1>4 DEF Sound, Carries
<1>6. \A s \in DOMAIN req \ {r} : Carries(req[s]) => /\ req[s].new \notin held
                                                    /\ req[s].new # new
  BY <1>1, <1>2 DEF IInv, Requests, Apart, Sound
<1>7. Requests'
  BY <1>1, <1>3, <1>4, <1>5, <1>6, OneRequest
<1> HIDE DEF old, new
<1>8. TypeOK'
  <2>1. IsTable(parent', Jti, Jti)
    BY <1>1, <1>2 DEF IsTable, Insert, IInv, TypeOK
  <2> QED
    BY <1>1, <1>2, <1>4, <2>1 DEF IInv, TypeOK
<1>9. /\ DOMAIN parent' = DOMAIN parent \cup {new} /\ parent'[new] = old
      /\ \A i \in DOMAIN parent \ {new} : parent'[i] = parent[i]
  BY <1>1 DEF Insert
<1>10. Delivered' /\ DeliveredWasRegistered'
  BY <1>1, <1>2, <1>9 DEF IInv, Delivered, DeliveredWasRegistered
<1>11. DeadTokensRejected'
  <2>1. ASSUME NEW i \in DOMAIN parent'
        PROVE  parent'[i] \notin whitelist'
    <3>1. CASE i = new
      BY <1>1, <1>2, <1>9, <3>1
    <3>2. CASE i # new
      BY <1>1, <1>2, <1>9, <2>1, <3>2 DEF IInv, Delivered, DeadTokensRejected
    <3> QED
      BY <3>1, <3>2
  <2>2. loggedOut' \cap whitelist' = {}
    BY <1>1, <1>2 DEF IInv, Delivered, DeadTokensRejected
  <2> QED
    BY <2>1, <2>2 DEF DeadTokensRejected
<1> QED
  BY <1>7, <1>8, <1>10, <1>11 DEF IInv

(* Steps outside the requests.                                             *)
LEMMA LogoutInv ==
    ASSUME IInv, NEW j \in Jti, Logout(j)
    PROVE  IInv'
<1>1. /\ j \in held /\ whitelist' = whitelist \ {j}
      /\ index' = [index EXCEPT ![owner[j]] = @ \ {j}]
      /\ loggedOut' = loggedOut \cup {j}
      /\ UNCHANGED <<active, owner, expired, held, req, registered, late, parent, swept>>
  BY DEF Logout
<1>2. Requests'
  BY <1>1 DEF IInv, Requests, Apart, Sound, Carries
<1>3. index' \in [User -> SUBSET Jti]
  BY <1>1 DEF IInv, TypeOK
<1> QED
  BY <1>1, <1>2, <1>3, QuietInv DEF IInv, TypeOK, Delivered, DeadTokensRejected

(* Expire keeps the inductive invariant.                                   *)
LEMMA ExpireInv ==
    ASSUME IInv, NEW j \in Jti, Expire(j)
    PROVE  IInv'
<1>1. /\ expired' = expired \cup {j} /\ whitelist' = whitelist \ {j}
      /\ UNCHANGED <<active, index, owner, held, req, history>>
  BY DEF Expire
<1>2. Requests'
  BY <1>1 DEF IInv, Requests, Apart, Sound, Carries, history
<1> QED
  BY <1>1, <1>2, QuietInv DEF IInv, TypeOK, Delivered, DeadTokensRejected, history

(* ExpireIndex keeps the inductive invariant.                              *)
LEMMA ExpireIndexInv ==
    ASSUME IInv, NEW u \in User, ExpireIndex(u)
    PROVE  IInv'
<1>1. /\ index' = [index EXCEPT ![u] = {}]
      /\ UNCHANGED <<active, whitelist, owner, expired, held, req, history>>
  BY DEF ExpireIndex
<1>2. Requests'
  BY <1>1 DEF IInv, Requests, Apart, Sound, Carries, history
<1> QED
  BY <1>1, <1>2, QuietInv DEF IInv, TypeOK, Delivered, DeadTokensRejected, history

(* A step that changes nothing keeps the inductive invariant.              *)
LEMMA StutterInv ==
    ASSUME IInv, UNCHANGED vars
    PROVE  IInv'
<1>1. Requests'
  BY DEF IInv, Requests, Apart, Sound, Carries, vars, history
<1> QED
  BY <1>1, QuietInv
     DEF IInv, TypeOK, Delivered, DeadTokensRejected, vars, redis, history

(* The inductive invariant holds of every reachable state.                 *)
THEOREM Invariance == Spec => []IInv
<1>1. Init => IInv
  BY DEF IsTable, EmptyTable, Init, IInv, TypeOK, Requests, Apart, Delivered,
                    DeadTokensRejected, DeliveredWasRegistered
<1>2. IInv /\ [Next]_vars => IInv'
  <2> SUFFICES ASSUME IInv, [Next]_vars
               PROVE  IInv'
    OBVIOUS
  <2>1. ASSUME NEW r \in Request, Start(r)
        PROVE  IInv'
    BY <2>1, StartLoginInv, StartRefreshInv, StartBanInv DEF Start
  <2>2. ASSUME NEW r \in Request, Step(r)
        PROVE  IInv'
    BY <2>2, RegisterInv, RespondInv, CheckWhitelistInv, LoadBannedUserInv, RotateInv,
       LoadActiveUserInv, ReadIndexInv, DeleteFoundInv DEF Step
  <2> QED
    BY <2>1, <2>2, FailInv, LogoutInv, ExpireInv, ExpireIndexInv, StutterInv DEF Next
<1> QED
  BY <1>1, <1>2, PTL DEF Spec

(* Every reachable state is well typed.                                    *)
THEOREM TypeCorrect == Spec => []TypeOK
<1>1. IInv => TypeOK
  BY DEF IInv
<1> QED
  BY <1>1, Invariance, PTL

(* A token that was exchanged or logged out is never accepted again: only  *)
(* delivered tokens die, and only undelivered ones are registered.         *)
THEOREM DeadTokensStayDead == Spec => []DeadTokensRejected
<1>1. IInv => DeadTokensRejected
  BY DEF IInv
<1> QED
  BY <1>1, Invariance, PTL

(* Clients only receive tokens that were registered.                       *)
THEOREM DeliveredAreRegistered == Spec => []DeliveredWasRegistered
<1>1. IInv => DeliveredWasRegistered
  BY DEF IInv
<1> QED
  BY <1>1, Invariance, PTL
-----------------------------------------------------------------------------
(* The lockout of a banned account.  *)

LockoutKept(u) == LockedOut(u)' /\ TokensOf(u)' = TokensOf(u)

(* A step of one request keeps an account out if it neither reactivates    *)
(* it, nor lets the request carry a token for it, nor delivers one.        *)
LEMMA OneKeepsOut ==
    ASSUME NEW u, LockedOut(u), NEW r,
           \A s \in DOMAIN req' \ {r} : s \in DOMAIN req /\ req'[s] = req[s],
           r \in DOMAIN req' /\ Carries(req'[r]) => req'[r].user # u,
           ~active'[u],
           \A j \in held : owner'[j] = owner[j],
           held \subseteq held', \A j \in held' \ held : owner'[j] # u
    PROVE  LockoutKept(u)
<1>1. \A s \in DOMAIN req' \ {r} : ~(req'[s].user = u /\ Carries(req'[s]))
  BY DEF LockedOut, InFlight, Carries
<1>2. \A s \in DOMAIN req' : ~(req'[s].user = u /\ Carries(req'[s]))
  BY <1>1
<1>3. LockedOut(u)'
  BY <1>2 DEF LockedOut, InFlight, Carries
<1>4. TokensOf(u)' = TokensOf(u)
  BY DEF TokensOf
<1> QED
  BY <1>3, <1>4 DEF LockoutKept

(* Steps that mint and deliver nothing.                                    *)
LEMMA QuietKeepsOut ==
    ASSUME NEW u, LockedOut(u), NEW r,
           \A s \in DOMAIN req' \ {r} : s \in DOMAIN req /\ req'[s] = req[s],
           r \in DOMAIN req' /\ Carries(req'[r]) =>
               \/ req'[r].user # u
               \/ r \in DOMAIN req /\ Carries(req[r]) /\ req'[r].user = req[r].user,
           ~active'[u], UNCHANGED <<owner, held>>
    PROVE  LockoutKept(u)
<1>1. r \in DOMAIN req' /\ Carries(req'[r]) => req'[r].user # u
  BY DEF LockedOut, InFlight, Carries
<1> QED
  BY <1>1, OneKeepsOut

(* A request that starts gives a locked-out user no token.                 *)
LEMMA StartKeepsOut ==
    ASSUME IInv, NEW u \in User, LockedOut(u), NEW r \in Request, Start(r)
    PROVE  LockoutKept(u)
<1>1. ASSUME NEW v \in User, NEW j \in Jti, StartLogin(r, v, j)
      PROVE  LockoutKept(u)
  <2>1. /\ v # u /\ Fresh(j) /\ owner' = Insert(owner, j, v)
        /\ UNCHANGED <<active, held>>
    BY <1>1 DEF StartLogin, LockedOut
  <2>2. \A i \in held : owner'[i] = owner[i]
    BY <2>1, Minted DEF IInv, Delivered
  <2>3. /\ \A s \in DOMAIN req' \ {r} : s \in DOMAIN req /\ req'[s] = req[s]
        /\ req'[r].user = v
    BY <1>1 DEF StartLogin, Insert
  <2> QED
    BY <2>1, <2>2, <2>3, OneKeepsOut DEF LockedOut
<1>2. ASSUME NEW j \in Jti, StartRefresh(r, j)
      PROVE  LockoutKept(u)
  <2>1. /\ \A s \in DOMAIN req' \ {r} : s \in DOMAIN req /\ req'[s] = req[s]
        /\ req'[r].pc = "check" /\ UNCHANGED <<active, owner, held>>
    BY <1>2 DEF StartRefresh, Insert
  <2> QED
    BY <2>1, QuietKeepsOut DEF LockedOut, Carries
<1>3. ASSUME NEW v \in User, StartBan(r, v)
      PROVE  LockoutKept(u)
  <2>1. /\ \A s \in DOMAIN req' \ {r} : s \in DOMAIN req /\ req'[s] = req[s]
        /\ req'[r].pc = "index" /\ UNCHANGED <<owner, held>>
    BY <1>3 DEF StartBan, Insert
  <2>2. ~active'[u]
    BY <1>3 DEF StartBan, LockedOut, IInv, TypeOK
  <2> QED
    BY <2>1, <2>2, QuietKeepsOut DEF Carries
<1> QED
  BY <1>1, <1>2, <1>3 DEF Start

(* A step of a request in flight gives a locked-out user no token.         *)
LEMMA StepKeepsOut ==
    ASSUME IInv, NEW u \in User, LockedOut(u), NEW r \in Request, Step(r)
    PROVE  LockoutKept(u)
<1>1. CASE Register(r) \/ Rotate(r)
  <2>1. /\ r \in DOMAIN req /\ Carries(req[r])
        /\ req' = [req EXCEPT ![r].pc = "respond"]
        /\ UNCHANGED <<active, owner, held>>
    BY <1>1 DEF Register, Rotate, At, Goto, Carries
  <2>2. req[r] \in Req
    BY <2>1, InFlightTyped
  <2>3. /\ \A s \in DOMAIN req' \ {r} : s \in DOMAIN req /\ req'[s] = req[s]
        /\ req'[r].user = req[r].user
    BY <2>1, <2>2 DEF Req
  <2> QED
    BY <2>1, <2>3, QuietKeepsOut DEF LockedOut
<1>2. CASE Respond(r)
  <2>1. /\ r \in DOMAIN req /\ Carries(req[r]) /\ Finish(r)
        /\ held' = held \cup {req[r].new} /\ UNCHANGED <<active, owner>>
    BY <1>2 DEF Respond, At, Carries
  <2>2. owner[req[r].new] = req[r].user /\ req[r].user # u
    BY <2>1, InFlightTyped DEF Sound, LockedOut, InFlight, Carries
  <2>3. /\ r \notin DOMAIN req'
        /\ \A s \in DOMAIN req' \ {r} : s \in DOMAIN req /\ req'[s] = req[s]
    BY <2>1 DEF Finish, Delete
  <2> QED
    BY <2>1, <2>2, <2>3, OneKeepsOut DEF LockedOut
<1>3. ASSUME NEW j \in Jti, LoadActiveUser(r, j)
      PROVE  LockoutKept(u)
  <2> DEFINE v == req[r].user
  <2>1. /\ r \in DOMAIN req /\ v # u /\ Fresh(j) /\ owner' = Insert(owner, j, v)
        /\ req' = [req EXCEPT ![r].pc = "rotate", ![r].new = j]
        /\ UNCHANGED <<active, held>>
    BY <1>3 DEF LoadActiveUser, LockedOut, At
  <2>2. req[r] \in Req /\ v \in User
    BY <2>1, InFlightTyped
  <2>3. /\ \A s \in DOMAIN req' \ {r} : s \in DOMAIN req /\ req'[s] = req[s]
        /\ req'[r].user = v
    BY <2>1, <2>2 DEF Req
  <2> HIDE DEF v
  <2>4. \A i \in held : owner'[i] = owner[i]
    BY <2>1, <2>2, Minted DEF IInv, Delivered
  <2> QED
    BY <2>1, <2>3, <2>4, OneKeepsOut DEF LockedOut
<1>4. CASE \/ CheckWhitelist(r) \/ LoadBannedUser(r)
           \/ ReadIndex(r) \/ DeleteFound(r)
  <2>1. /\ r \in DOMAIN req /\ UNCHANGED <<active, owner, held>>
        /\ \/ Finish(r) \/ Goto(r, "load") \/ Goto(r, "index")
           \/ \E found : req' = [req EXCEPT ![r].pc = "delete", ![r].found = found]
    BY <1>4 DEF CheckWhitelist, LoadBannedUser, ReadIndex, DeleteFound, At
  <2>2. req[r] \in Req
    BY <2>1, InFlightTyped
  <2>3. \A s \in DOMAIN req' \ {r} : s \in DOMAIN req /\ req'[s] = req[s]
    BY <2>1 DEF Finish, Goto, Delete
  <2>4. r \in DOMAIN req' => req'[r].pc \in {"load", "index", "delete"}
    BY <2>1, <2>2 DEF Finish, Goto, Delete, Req
  <2> QED
    BY <2>1, <2>3, <2>4, QuietKeepsOut DEF LockedOut, Carries
<1> QED
  BY <1>1, <1>2, <1>3, <1>4 DEF Step

(* No step gives a locked-out user a token.                                *)
LEMMA NextKeepsOut ==
    ASSUME IInv, [Next]_vars, NEW u \in User, LockedOut(u)
    PROVE  LockoutKept(u)
<1>1. ASSUME NEW r \in Request, Fail(r)
      PROVE  LockoutKept(u)
  <2>1. /\ \A s \in DOMAIN req' \ {r} : s \in DOMAIN req /\ req'[s] = req[s]
        /\ r \notin DOMAIN req' /\ UNCHANGED <<active, owner, held>>
    BY <1>1 DEF Fail, Finish, Delete
  <2> QED
    BY <2>1, QuietKeepsOut DEF LockedOut
<1>2. ASSUME UNCHANGED <<active, owner, held, req>>
      PROVE  LockoutKept(u)
  BY <1>2 DEF LockoutKept, LockedOut, InFlight, TokensOf
<1>3. ASSUME \/ UNCHANGED vars
             \/ \E j \in Jti : Logout(j) \/ Expire(j)
             \/ \E v \in User : ExpireIndex(v)
      PROVE  UNCHANGED <<active, owner, held, req>>
  BY <1>3 DEF Logout, Expire, ExpireIndex, vars
<1> QED
  BY <1>1, <1>2, <1>3, StartKeepsOut, StepKeepsOut DEF Next

(* Once a banned account's requests in flight are answered, it never gets  *)
(* a token again, whatever Redis still holds.                              *)
THEOREM BanLocksOut == Spec => LockoutHolds
<1>1. IInv /\ [Next]_vars =>
        [\A u \in User :
            LockedOut(u) => LockedOut(u)' /\ TokensOf(u)' = TokensOf(u)]_vars
  BY NextKeepsOut DEF LockoutKept
<1> QED
  BY <1>1, Invariance, PTL DEF Spec, LockoutHolds
-----------------------------------------------------------------------------
(* What a ban revokes.  *)

(* The keys no ban came before.                                            *)
Early == whitelist \ late

(* A request that sweeps the keys of a user was let to by a ban; once it   *)
(* has read the index, it knows of every key from before that ban.         *)
Sweeps(q) ==
    /\ q.pc \in {"index", "delete"} => ~active[q.user]
    /\ q.pc = "delete" => \A j \in Early : owner[j] = q.user => j \in q.found

(* Such a key is in its user's index as long as it lives: an index expires *)
(* last, and is only deleted with what was found in it.                    *)
BanInv ==
    /\ whitelist \subseteq DOMAIN owner
    /\ expired \subseteq held /\ expired \cap whitelist = {}
    /\ \A j \in Early : j \in index[owner[j]]
    /\ \A r \in DOMAIN req : Sweeps(req[r])
    /\ \A u \in swept : ~active[u] /\ \A j \in Early : owner[j] # u

(* Bans are final, tokens keep their owner, and only users that are active *)
(* get a key that is early.                                                *)
Steady ==
    /\ \A u \in User : ~active[u] => ~active'[u]
    /\ \A j \in DOMAIN owner : owner'[j] = owner[j]
    /\ \A j \in Early' : j \in Early \/ active'[owner'[j]]

(* A steady step leaves every sweep what it still has to find.             *)
LEMMA SweepsKept ==
    ASSUME BanInv, Steady, NEW q, q.user \in User, Sweeps(q)
    PROVE  Sweeps(q)'
BY DEF BanInv, Steady, Sweeps, Early

(* A step of one request, or of none, that is steady.                      *)
LEMMA OneSweeps ==
    ASSUME IInv, BanInv, Steady, NEW r,
           whitelist' \subseteq DOMAIN owner',
           expired' \subseteq held' /\ expired' \cap whitelist' = {},
           \A j \in Early' : j \in index'[owner'[j]],
           \A s \in DOMAIN req' \ {r} : s \in DOMAIN req /\ req'[s] = req[s],
           r \in DOMAIN req' => Sweeps(req[r])',
           \A u \in swept' \ swept : ~active'[u] /\ \A j \in Early' : owner'[j] # u
    PROVE  BanInv'
<1>1. ASSUME NEW s \in DOMAIN req'
      PROVE  Sweeps(req[s])'
  <2>1. CASE s = r
    BY <1>1, <2>1
  <2>2. CASE s # r
    <3>1. s \in DOMAIN req /\ req'[s] = req[s]
      BY <1>1, <2>2
    <3>2. PICK q : q = req[s]
      OBVIOUS
    <3>3. Sweeps(q) /\ q.user \in User
      BY <3>1, <3>2, InFlightTyped DEF BanInv
    <3>4. Sweeps(q)'
      BY <3>3, SweepsKept
    <3> QED
      BY <3>1, <3>2, <3>4 DEF Sweeps
  <2> QED
    BY <2>1, <2>2
<1>2. ASSUME NEW u \in swept
      PROVE  ~active'[u] /\ \A j \in Early' : owner'[j] # u
  <2>1. u \in User
    BY DEF IInv, TypeOK
  <2> QED
    BY <2>1 DEF BanInv, Steady, Early
<1> QED
  BY <1>1, <1>2 DEF BanInv

(* Steps that add no key and touch no index of a key that stays.           *)
LEMMA QuietSweeps ==
    ASSUME IInv, BanInv, NEW r,
           \A u \in User : ~active[u] => ~active'[u],
           \A j \in DOMAIN owner : j \in DOMAIN owner' /\ owner'[j] = owner[j],
           whitelist' \subseteq whitelist, UNCHANGED late,
           expired' \subseteq held' /\ expired' \cap whitelist' = {},
           \A j \in Early' : j \in index'[owner[j]],
           \A s \in DOMAIN req' \ {r} : s \in DOMAIN req /\ req'[s] = req[s],
           r \in DOMAIN req' => Sweeps(req[r])',
           \A u \in swept' \ swept : ~active'[u] /\ \A j \in Early' : owner'[j] # u
    PROVE  BanInv'
<1>1. Early' \subseteq Early
  BY DEF Early
<1>2. Steady
  BY <1>1 DEF Steady
<1>3. /\ whitelist' \subseteq DOMAIN owner'
      /\ \A j \in Early' : j \in index'[owner'[j]]
  BY DEF BanInv, Early
<1> QED
  BY <1>2, <1>3, OneSweeps

(* Registering a token puts it in the index, so a sweep will find it or it *)
(* is late.                                                                *)
LEMMA RegisterSweeps ==
    ASSUME IInv, BanInv, NEW r \in Request, Register(r)
    PROVE  BanInv'
<1>1. PICK q : q = req[r] /\ q \in Req /\ Sound(q) /\ Carries(q) /\ q.new \in Jti
  BY InFlightTyped DEF Register, At, Carries
<1>2. /\ r \in DOMAIN req /\ whitelist' = whitelist \cup {q.new}
      /\ index' = [index EXCEPT ![q.user] = @ \cup {q.new}]
      /\ late' = IF active[q.user] THEN late ELSE late \cup {q.new}
      /\ req' = [req EXCEPT ![r].pc = "respond"]
      /\ UNCHANGED <<active, owner, expired, held, swept>>
  BY <1>1 DEF Register, At, Goto, Late
<1>3. q.user \in User /\ q.new \in DOMAIN owner /\ owner[q.new] = q.user /\ q.new \notin held
  BY <1>1 DEF Req, Sound
<1>4. /\ Early' \subseteq Early \cup {q.new}
      /\ q.new \in Early' => q.new \in Early \/ active[q.user]
  BY <1>2 DEF Early
<1>5. Steady
  BY <1>2, <1>3, <1>4 DEF Steady
<1>6. \A j \in Early' : j \in index'[owner'[j]]
  <2>1. ASSUME NEW j \in Early'
        PROVE  j \in index'[owner[j]]
    <3>1. CASE j = q.new
      BY <1>2, <1>3, <3>1 DEF IInv, TypeOK
    <3>2. CASE j # q.new
      <4>1. j \in index[owner[j]] /\ owner[j] \in User
        BY <1>4, <2>1, <3>2 DEF BanInv, IInv, TypeOK, IsTable, Early
      <4> QED
        BY <1>2, <4>1 DEF IInv, TypeOK
    <3> QED
      BY <3>1, <3>2
  <2> QED
    BY <1>2, <2>1
<1>7. /\ whitelist' \subseteq DOMAIN owner'
      /\ expired' \subseteq held' /\ expired' \cap whitelist' = {}
  BY <1>2, <1>3 DEF BanInv
<1>8. /\ \A s \in DOMAIN req' \ {r} : s \in DOMAIN req /\ req'[s] = req[s]
      /\ req'[r].pc = "respond"
  BY <1>1, <1>2 DEF Req
<1>9. Sweeps(req[r])'
  BY <1>8 DEF Sweeps
<1> QED
  BY <1>2, <1>5, <1>6, <1>7, <1>8, <1>9, OneSweeps

(* Rotation replaces the token in the whitelist and the index together.    *)
LEMMA RotateSweeps ==
    ASSUME IInv, BanInv, NEW r \in Request, Rotate(r)
    PROVE  BanInv'
<1>1. PICK q : q = req[r] /\ q \in Req /\ Sound(q) /\ Carries(q) /\ q.new \in Jti
                         /\ q.pc = "rotate"
  BY InFlightTyped DEF Rotate, At, Carries
<1>2. /\ r \in DOMAIN req /\ whitelist' = (whitelist \ {q.old}) \cup {q.new}
      /\ index' = [index EXCEPT ![q.user] = (@ \ {q.old}) \cup {q.new}]
      /\ late' = IF active[q.user] THEN late ELSE late \cup {q.new}
      /\ req' = [req EXCEPT ![r].pc = "respond"]
      /\ UNCHANGED <<active, owner, expired, held, swept>>
  BY <1>1 DEF Rotate, At, Goto, Late
<1>3. q.user \in User /\ q.new \in DOMAIN owner /\ owner[q.new] = q.user /\ q.new \notin held
  BY <1>1 DEF Req, Sound
<1>4. /\ Early' \subseteq (Early \ {q.old}) \cup {q.new}
      /\ q.new \in Early' => q.new \in Early \/ active[q.user]
  BY <1>2 DEF Early
<1>5. Steady
  BY <1>2, <1>3, <1>4 DEF Steady
<1>6. \A j \in Early' : j \in index'[owner'[j]]
  <2>1. ASSUME NEW j \in Early'
        PROVE  j \in index'[owner[j]]
    <3>1. CASE j = q.new
      BY <1>2, <1>3, <3>1 DEF IInv, TypeOK
    <3>2. CASE j # q.new
      <4>1. j \in index[owner[j]] /\ owner[j] \in User /\ j # q.old
        BY <1>4, <2>1, <3>2 DEF BanInv, IInv, TypeOK, IsTable, Early
      <4> QED
        BY <1>2, <4>1 DEF IInv, TypeOK
    <3> QED
      BY <3>1, <3>2
  <2> QED
    BY <1>2, <2>1
<1>7. /\ whitelist' \subseteq DOMAIN owner'
      /\ expired' \subseteq held' /\ expired' \cap whitelist' = {}
  BY <1>2, <1>3 DEF BanInv
<1>8. /\ \A s \in DOMAIN req' \ {r} : s \in DOMAIN req /\ req'[s] = req[s]
      /\ req'[r].pc = "respond"
  BY <1>1, <1>2 DEF Req
<1>9. Sweeps(req[r])'
  BY <1>8 DEF Sweeps
<1> QED
  BY <1>2, <1>5, <1>6, <1>7, <1>8, <1>9, OneSweeps

(* A sweep reads the index, or deletes what it found and ends.             *)
LEMMA ReadIndexSweeps ==
    ASSUME IInv, BanInv, NEW r \in Request, ReadIndex(r)
    PROVE  BanInv'
<1>1. PICK q : q = req[r] /\ q \in Req /\ q.pc = "index"
  BY InFlightTyped DEF ReadIndex, At
<1>2. /\ r \in DOMAIN req
      /\ UNCHANGED <<active, whitelist, index, owner, expired, held, late>>
  BY DEF ReadIndex, At, redis
<1>3. q.user \in User /\ ~active[q.user]
  BY <1>1, <1>2 DEF Req, BanInv, Sweeps
<1>4. Early' = Early /\ \A j \in Early : j \in index[owner[j]]
  BY <1>2 DEF Early, BanInv
<1>5. CASE index[q.user] = {}
  <2>1. Finish(r) /\ Swept(r)
    BY <1>1, <1>5 DEF ReadIndex
  <2>2. \A u \in swept' \ swept : ~active'[u] /\ \A j \in Early' : owner'[j] # u
    BY <1>1, <1>2, <1>3, <1>4, <1>5, <2>1 DEF Swept
  <2>3. r \notin DOMAIN req' /\ \A s \in DOMAIN req' \ {r} : s \in DOMAIN req /\ req'[s] = req[s]
    BY <2>1 DEF Finish, Delete
  <2> QED
    BY <1>2, <1>4, <2>2, <2>3, QuietSweeps DEF BanInv
<1>6. CASE index[q.user] # {}
  <2>1. /\ req' = [req EXCEPT ![r].pc = "delete", ![r].found = index[q.user]]
        /\ UNCHANGED swept
    BY <1>1, <1>6 DEF ReadIndex
  <2>2. /\ \A s \in DOMAIN req' \ {r} : s \in DOMAIN req /\ req'[s] = req[s]
        /\ req'[r].pc = "delete" /\ req'[r].user = q.user /\ req'[r].found = index[q.user]
    BY <1>1, <1>2, <2>1 DEF Req
  <2>3. Sweeps(req[r])'
    BY <1>2, <1>3, <1>4, <2>2 DEF Sweeps
  <2> QED
    BY <1>2, <1>4, <2>1, <2>2, <2>3, QuietSweeps DEF BanInv
<1> QED
  BY <1>5, <1>6

(* Deleting what the sweep read removes every token from before the ban.   *)
LEMMA DeleteFoundSweeps ==
    ASSUME IInv, BanInv, NEW r \in Request, DeleteFound(r)
    PROVE  BanInv'
<1>1. PICK q : q = req[r] /\ q \in Req /\ q.pc = "delete"
  BY InFlightTyped DEF DeleteFound, At
<1>2. /\ r \in DOMAIN req /\ whitelist' = whitelist \ q.found
      /\ index' = [index EXCEPT ![q.user] = {}]
      /\ Finish(r) /\ Swept(r) /\ UNCHANGED <<active, owner, expired, held, late>>
  BY <1>1 DEF DeleteFound, At
<1>3. /\ q.user \in User /\ ~active[q.user]
      /\ \A j \in Early : owner[j] = q.user => j \in q.found
  BY <1>1, <1>2 DEF Req, BanInv, Sweeps
<1>4. /\ Early' \subseteq Early
      /\ \A j \in Early' : j \notin q.found /\ owner[j] # q.user
  BY <1>2, <1>3 DEF Early
<1>5. \A j \in Early' : j \in index'[owner[j]]
  BY <1>2, <1>4 DEF IInv, TypeOK, BanInv
<1>6. \A u \in swept' \ swept : ~active'[u] /\ \A j \in Early' : owner'[j] # u
  BY <1>1, <1>2, <1>3, <1>4 DEF Swept
<1>7. r \notin DOMAIN req' /\ \A s \in DOMAIN req' \ {r} : s \in DOMAIN req /\ req'[s] = req[s]
  BY <1>2 DEF Finish, Delete
<1>8. expired' \subseteq held' /\ expired' \cap whitelist' = {}
  BY <1>2 DEF BanInv
<1> QED
  BY <1>2, <1>5, <1>6, <1>7, <1>8, QuietSweeps

(* The steps that neither register nor sweep.                              *)
LEMMA StartSweeps ==
    ASSUME IInv, BanInv, NEW r \in Request, Start(r)
    PROVE  BanInv'
<1>1. /\ r \notin DOMAIN req
      /\ UNCHANGED <<whitelist, index, expired, held, late, swept>>
  BY DEF Start, StartLogin, StartRefresh, StartBan, redis, history
<1>2. /\ \A s \in DOMAIN req' \ {r} : s \in DOMAIN req /\ req'[s] = req[s]
      /\ \/ req'[r].pc \in {"register", "check"}
         \/ req'[r].pc = "index" /\ ~active'[req'[r].user]
  <2>1. ASSUME NEW q, req' = Insert(req, r, q)
        PROVE  /\ req'[r] = q
               /\ \A s \in DOMAIN req' \ {r} : s \in DOMAIN req /\ req'[s] = req[s]
    BY <2>1 DEF Insert
  <2>2. ASSUME NEW u \in User, NEW j \in Jti, StartLogin(r, u, j)
        PROVE  \E q : req' = Insert(req, r, q) /\ q.pc = "register"
    BY <2>2 DEF StartLogin
  <2>3. ASSUME NEW j \in Jti, StartRefresh(r, j)
        PROVE  \E q : req' = Insert(req, r, q) /\ q.pc = "check"
    BY <2>3 DEF StartRefresh
  <2>4. ASSUME NEW u \in User, StartBan(r, u)
        PROVE  \E q : req' = Insert(req, r, q) /\ q.pc = "index" /\ ~active'[q.user]
    BY <2>4 DEF StartBan, IInv, TypeOK
  <2> QED
    BY <2>1, <2>2, <2>3, <2>4 DEF Start
<1>3. Sweeps(req[r])'
  BY <1>2 DEF Sweeps
<1>4. \A u \in User : ~active[u] => ~active'[u]
  BY DEF Start, StartLogin, StartRefresh, StartBan, IInv, TypeOK
<1>5. \A j \in DOMAIN owner : j \in DOMAIN owner' /\ owner'[j] = owner[j]
  BY Minted DEF Start, StartLogin, StartRefresh, StartBan
<1>6. \A j \in Early' : j \in index'[owner[j]]
  BY <1>1 DEF Early, BanInv
<1> QED
  BY <1>1, <1>2, <1>3, <1>4, <1>5, <1>6, QuietSweeps DEF BanInv

(* Requests that touch neither the whitelist nor the index keep the ban    *)
(* invariant.                                                              *)
LEMMA MoveSweeps ==
    ASSUME IInv, BanInv, NEW r \in Request,
           \/ Respond(r) \/ CheckWhitelist(r) \/ LoadBannedUser(r) \/ Fail(r)
           \/ \E j \in Jti : LoadActiveUser(r, j)
    PROVE  BanInv'
<1>1. /\ r \in DOMAIN req /\ held \subseteq held'
      /\ UNCHANGED <<active, whitelist, index, expired, late, swept>>
  BY DEF Respond, CheckWhitelist, LoadBannedUser, Fail, LoadActiveUser, At, redis, history
<1>2. req[r] \in Req
  BY <1>1, InFlightTyped
<1>3. \/ Finish(r) \/ Goto(r, "load") \/ (Goto(r, "index") /\ ~active[req[r].user])
      \/ \E j \in Jti : req' = [req EXCEPT ![r].pc = "rotate", ![r].new = j]
  BY DEF Respond, CheckWhitelist, LoadBannedUser, Fail, LoadActiveUser
<1>4. /\ \A s \in DOMAIN req' \ {r} : s \in DOMAIN req /\ req'[s] = req[s]
      /\ r \in DOMAIN req' =>
            \/ req'[r].pc \in {"load", "rotate"}
            \/ req'[r].pc = "index" /\ req'[r].user = req[r].user /\ ~active[req[r].user]
  <2>1. CASE Finish(r)
    BY <2>1 DEF Finish, Delete
  <2>2. CASE Goto(r, "load")
    BY <1>1, <1>2, <2>2 DEF Goto, Req
  <2>3. CASE Goto(r, "index") /\ ~active[req[r].user]
    BY <1>1, <1>2, <2>3 DEF Goto, Req
  <2>4. ASSUME NEW j \in Jti, req' = [req EXCEPT ![r].pc = "rotate", ![r].new = j]
        PROVE  /\ \A s \in DOMAIN req' \ {r} : s \in DOMAIN req /\ req'[s] = req[s]
               /\ req'[r].pc = "rotate"
    BY <1>1, <1>2, <2>4 DEF Req
  <2> QED
    BY <1>3, <2>1, <2>2, <2>3, <2>4
<1>5. r \in DOMAIN req' => Sweeps(req[r])'
  BY <1>1, <1>4 DEF Sweeps
<1>6. \A j \in DOMAIN owner : j \in DOMAIN owner' /\ owner'[j] = owner[j]
  <2>1. ASSUME NEW j \in Jti, LoadActiveUser(r, j)
        PROVE  \A i \in DOMAIN owner : i \in DOMAIN owner' /\ owner'[i] = owner[i]
    BY <1>2, <2>1, Minted DEF LoadActiveUser, Req
  <2> QED
    BY <2>1 DEF Respond, CheckWhitelist, LoadBannedUser, Fail
<1>7. \A j \in Early' : j \in index'[owner[j]]
  BY <1>1 DEF Early, BanInv
<1>8. expired' \subseteq held' /\ expired' \cap whitelist' = {}
  BY <1>1 DEF BanInv
<1> QED
  BY <1>1, <1>4, <1>5, <1>6, <1>7, <1>8, QuietSweeps

(* Logout and expiry only remove tokens.                                   *)
LEMMA OutsideSweeps ==
    ASSUME IInv, BanInv,
           \/ UNCHANGED vars
           \/ \E j \in Jti : Logout(j) \/ Expire(j)
           \/ \E u \in User : ExpireIndex(u)
    PROVE  BanInv'
<1>1. UNCHANGED <<active, owner, held, req, late, swept>>
  BY DEF Logout, Expire, ExpireIndex, vars, history
<1>2. /\ whitelist' \subseteq whitelist
      /\ expired' \subseteq held' /\ expired' \cap whitelist' = {}
  BY DEF Logout, Expire, ExpireIndex, vars, redis, BanInv
<1>3. ASSUME NEW j \in Early'
      PROVE  j \in index'[owner[j]]
  <2>1. j \in Early /\ j \in index[owner[j]] /\ owner[j] \in User /\ j \notin expired
    BY <1>1, <1>2, <1>3 DEF Early, BanInv, IInv, TypeOK, IsTable
  <2>2. ASSUME NEW i \in Jti, Logout(i)
        PROVE  j \in index'[owner[j]]
    BY <1>3, <2>1, <2>2 DEF Logout, Early, IInv, TypeOK
  <2>3. ASSUME NEW u \in User, ExpireIndex(u)
        PROVE  j \in index'[owner[j]]
    BY <2>1, <2>3 DEF ExpireIndex, IInv, TypeOK
  <2>4. ASSUME UNCHANGED index
        PROVE  j \in index'[owner[j]]
    BY <2>1, <2>4
  <2> QED
    BY <2>2, <2>3, <2>4 DEF Expire, vars, redis
<1>4. ASSUME NEW s \in DOMAIN req
      PROVE  Sweeps(req[s])'
  BY <1>1, <1>2 DEF BanInv, Sweeps, Early
<1> QED
  BY <1>1, <1>2, <1>3, <1>4 DEF BanInv, Early

(* Every step keeps the ban invariant.                                     *)
LEMMA BanInvariance == IInv /\ BanInv /\ [Next]_vars => BanInv'
<1> SUFFICES ASSUME IInv, BanInv, [Next]_vars
             PROVE  BanInv'
  OBVIOUS
<1>1. ASSUME NEW r \in Request, Step(r)
      PROVE  BanInv'
  BY <1>1, RegisterSweeps, RotateSweeps, ReadIndexSweeps, DeleteFoundSweeps, MoveSweeps
     DEF Step
<1> QED
  BY <1>1, StartSweeps, MoveSweeps, OutsideSweeps DEF Next

(* Whatever logins, refreshes, logouts, expiries and sweeps overlap, a ban *)
(* that has swept Redis left no key from before it.                        *)
THEOREM BansRevoke == Spec => []BanRevokesEarlier
<1>1. Init => BanInv
  BY DEF IsTable, EmptyTable, Init, BanInv, Early
<1>2. BanInv => BanRevokesEarlier
  BY DEF BanInv, Early, BanRevokesEarlier
<1> QED
  BY <1>1, <1>2, BanInvariance, Invariance, PTL DEF Spec
=============================================================================
