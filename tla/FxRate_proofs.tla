---------------------------- MODULE FxRate_proofs ----------------------------
(***************************************************************************)
(* Proofs about FxRate, for any number of workers, sessions and quotes and *)
(* any carts: what the TTL makes of missed refreshes, which entries of the *)
(* cache fail a checkout, and that what an order records reconciles.       *)
(***************************************************************************)
EXTENDS FxRate, FiniteSetTheorems, TLAPS

(* What TypeOK says of the refresh.  *)
RefreshTyped ==
    /\ configured \in BOOLEAN
    /\ queued \in [0..MaxRetries -> 0..MaxQueued]
    /\ IsTable(task, Worker, Task)
    /\ cached \in Int \cup Special \cup {NoRate}
    /\ ttl \in Periods
    /\ age \in Periods
    /\ missed \in Periods

(***************************************************************************)
(* A period that passes without a refresh is taken from the TTL: the two   *)
(* make up one TTL at least, and the TTL with the age of the quote at most *)
(* one TTL and the period in which it was fetched.                         *)
(***************************************************************************)
Clocks ==
    /\ missed + ttl >= RateTtl
    /\ ttl > 0 => cached # NoRate
    /\ cached = NoRate => age = 0
    /\ cached # NoRate => age + ttl <= RateTtl + 1

(* What a checkout knows: the entry gave it its rate, and an order has the *)
(* totals of its cart at that rate.                                        *)
Knows(c) ==
    /\ c.age <= RateTtl + 1
    /\ \/ c.rate \in CurrentRate(c.entry)
       \/ c.pc = "error" /\ c.entry = NaN /\ c.rate = Fallback
    /\ c.pc = "error" => c.entry = NaN \/ ~Payable(c)
    /\ c.pc = "placed" =>
         /\ Payable(c)
         /\ c.total_krw = TotalKrw(c.cart)
         /\ c.total_uzs = TotalUzs(c.cart, c.rate)
         /\ c.exchange_rate_used = RoundHalfUp(c.rate, Digit)

(* The checkouts, on which nothing in the refresh depends.  *)
Served ==
    /\ IsTable(checkout, Session, Checkout)
    /\ \A s \in DOMAIN checkout : Knows(checkout[s])

IInv ==
    /\ RefreshTyped
    /\ Clocks
    /\ Served
-----------------------------------------------------------------------------
(***************************************************************************)
(* Totals.  Total is a recursive function over the subsets of the cart; an *)
(* induction over them looks at a smallest subset of which a fact fails.   *)
(***************************************************************************)
LEMMA Smallest ==
    ASSUME NEW S, IsFiniteSet(S), NEW B, B \subseteq SUBSET S, B # {}
    PROVE  \E T \in B : \A U \in SUBSET T : U # T => U \notin B
<1> DEFINE R == StrictSubsetOrdering(S)
<1>1. IsWellFoundedOn(R, SUBSET S)
  BY FS_StrictSubsetOrderingWellFounded, FS_FiniteSubsetsOfFinite
<1>2. PICK T \in B : \A U \in B : ~(<<U, T>> \in R)
  <2> HIDE DEF R
  <2> QED
    BY <1>1, WFMin
<1>3. ASSUME NEW U \in SUBSET T, U # T, U \in B PROVE FALSE
  <2>1. <<U, T>> \in R
    BY <1>3 DEF StrictSubsetOrdering
  <2> QED
    BY <1>2, <1>3, <2>1
<1> QED
  BY <1>3

(* The function that sums up a part of a cart, of each subset of it.  *)
Choice(s) == CHOOSE x \in s : TRUE

IsSum(g, cart, amount, S) ==
    g = [s \in SUBSET S |->
            IF s = {} THEN 0
            ELSE amount[Choice(s)] * cart[Choice(s)] + g[s \ {Choice(s)}]]

(* The chosen member is a member.                                          *)
LEMMA ChoiceIn == \A s : s # {} => Choice(s) \in s
BY DEF Choice

(* Two sums agree on the sets both are defined for.                        *)
LEMMA SumsAgree ==
    ASSUME NEW cart, NEW amount, NEW S, IsFiniteSet(S), NEW T, S \subseteq T,
           NEW g, IsSum(g, cart, amount, S), NEW h, IsSum(h, cart, amount, T)
    PROVE  \A s \in SUBSET S : g[s] = h[s]
<1> DEFINE B == {s \in SUBSET S : g[s] # h[s]}
<1> SUFFICES ASSUME B # {} PROVE FALSE
  OBVIOUS
<1>1. PICK s \in B : \A u \in SUBSET s : u # s => u \notin B
  <2>1. B \subseteq SUBSET S
    OBVIOUS
  <2> HIDE DEF B
  <2> QED
    BY <2>1, Smallest
<1>2. s # {}
  BY DEF IsSum
<1>3. Choice(s) \in s
  BY <1>2, ChoiceIn
<1>4. g[s \ {Choice(s)}] = h[s \ {Choice(s)}]
  BY <1>1, <1>3
<1>5. g[s] = amount[Choice(s)] * cart[Choice(s)] + g[s \ {Choice(s)}]
  BY <1>2 DEF IsSum
<1>6. h[s] = amount[Choice(s)] * cart[Choice(s)] + h[s \ {Choice(s)}]
  BY <1>2 DEF IsSum
<1> QED
  BY <1>4, <1>5, <1>6

(* Every finite set has a sum.                                             *)
LEMMA SumExists ==
    ASSUME NEW cart, NEW amount, NEW S, IsFiniteSet(S)
    PROVE  \E g : IsSum(g, cart, amount, S)
<1> DEFINE B == {T \in SUBSET S : ~\E g : IsSum(g, cart, amount, T)}
<1> SUFFICES ASSUME B # {} PROVE FALSE
  OBVIOUS
<1>1. PICK T \in B : \A U \in SUBSET T : U # T => U \notin B
  <2>1. B \subseteq SUBSET S
    OBVIOUS
  <2> HIDE DEF B
  <2> QED
    BY <2>1, Smallest
<1> DEFINE H(U) == CHOOSE h : IsSum(h, cart, amount, U)
           rest(s) == s \ {Choice(s)}
           g == [s \in SUBSET T |->
                    IF s = {} THEN 0
                    ELSE amount[Choice(s)] * cart[Choice(s)] + H(rest(s))[rest(s)]]
<1>2. ASSUME NEW U \in SUBSET T, U # T PROVE IsSum(H(U), cart, amount, U)
  BY <1>1, <1>2
<1>3. ASSUME NEW U \in SUBSET T, U # T PROVE g[U] = H(U)[U]
  <2>1. CASE U = {}
    <3>1. IsSum(H(U), cart, amount, U)
      BY <1>2, <1>3
    <3>2. g[U] = 0
      BY <2>1
    <3> HIDE DEF H, g
    <3>3. H(U)[U] = 0
      BY <2>1, <3>1 DEF IsSum
    <3> QED
      BY <3>2, <3>3
  <2>2. CASE U # {}
    <3>1. Choice(U) \in U /\ rest(U) \in SUBSET T /\ rest(U) # T /\ rest(U) \subseteq U
      BY <1>3, <2>2, ChoiceIn
    <3>2. IsSum(H(rest(U)), cart, amount, rest(U)) /\ IsSum(H(U), cart, amount, U)
      BY <1>2, <1>3, <3>1
    <3>3. IsFiniteSet(rest(U))
      BY <3>1, FS_Subset
    <3> HIDE DEF H
    <3>4. H(rest(U))[rest(U)] = H(U)[rest(U)]
      BY <3>1, <3>2, <3>3, SumsAgree
    <3>5. g[U] = amount[Choice(U)] * cart[Choice(U)] + H(rest(U))[rest(U)]
      BY <2>2
    <3>6. H(U)[U] = amount[Choice(U)] * cart[Choice(U)] + H(U)[rest(U)]
      BY <2>2, <3>2 DEF IsSum
    <3> QED
      BY <3>4, <3>5, <3>6
  <2> QED
    BY <2>1, <2>2
<1> HIDE DEF H
<1>4. IsSum(g, cart, amount, T)
  <2>1. ASSUME NEW s \in SUBSET T, s # {}
        PROVE  H(rest(s))[rest(s)] = g[rest(s)]
    <3>1. rest(s) \in SUBSET T /\ rest(s) # T
      BY <2>1, ChoiceIn
    <3> QED
      BY <1>3, <3>1
  <2>2. g = [s \in SUBSET T |->
                IF s = {} THEN 0
                ELSE amount[Choice(s)] * cart[Choice(s)] + g[s \ {Choice(s)}]]
    BY <2>1
  <2> HIDE DEF g
  <2> QED
    BY <2>2 DEF IsSum
<1> QED
  BY <1>1, <1>4

(* The total of a cart is the sum of its lines.                            *)
LEMMA TotalIsSum ==
    ASSUME NEW cart, NEW amount, IsFiniteSet(DOMAIN cart)
    PROVE  \E g : /\ IsSum(g, cart, amount, DOMAIN cart)
                  /\ Total(cart, amount) = g[DOMAIN cart]
<1> DEFINE g == CHOOSE h : IsSum(h, cart, amount, DOMAIN cart)
<1>1. IsSum(g, cart, amount, DOMAIN cart)
  BY SumExists
<1>2. Total(cart, amount) = g[DOMAIN cart]
  BY DEF Total, MapThenSumSet, MapThenFoldSet, IsSum, Choice
<1> HIDE DEF g
<1> QED
  BY <1>1, <1>2

(* A sum of naturals is one.  *)
LEMMA SumNat ==
    ASSUME NEW cart, NEW amount, NEW S, IsFiniteSet(S),
           NEW g, IsSum(g, cart, amount, S),
           \A p \in S : amount[p] \in Nat /\ cart[p] \in Nat
    PROVE  \A s \in SUBSET S : g[s] \in Nat
<1> DEFINE B == {s \in SUBSET S : g[s] \notin Nat}
<1> SUFFICES ASSUME B # {} PROVE FALSE
  OBVIOUS
<1>1. PICK s \in B : \A u \in SUBSET s : u # s => u \notin B
  <2>1. B \subseteq SUBSET S
    OBVIOUS
  <2> HIDE DEF B
  <2> QED
    BY <2>1, Smallest
<1>2. s # {}
  BY DEF IsSum
<1>3. Choice(s) \in s /\ Choice(s) \in S
  BY <1>2, ChoiceIn
<1>4. g[s \ {Choice(s)}] \in Nat
  BY <1>1, <1>3
<1>5. g[s] = amount[Choice(s)] * cart[Choice(s)] + g[s \ {Choice(s)}]
  BY <1>2 DEF IsSum
<1>6. amount[Choice(s)] * cart[Choice(s)] \in Nat
  BY <1>3
<1> QED
  BY <1>4, <1>5, <1>6

(* The total of natural amounts is a natural number.                       *)
LEMMA TotalNat ==
    ASSUME NEW cart, NEW amount, IsFiniteSet(DOMAIN cart),
           \A p \in DOMAIN cart : amount[p] \in Nat /\ cart[p] \in Nat
    PROVE  Total(cart, amount) \in Nat
BY TotalIsSum, SumNat

(* Rounding moves a quotient by half a unit at most.  *)
LEMMA Rounded ==
    ASSUME NEW n \in Nat, NEW d \in Nat \ {0}
    PROVE  /\ RoundHalfUp(n, d) \in Nat
           /\ 2 * (RoundHalfUp(n, d) * d - n) <= d
           /\ 2 * (n - RoundHalfUp(n, d) * d) <= d
<1> DEFINE m == 2 * n + d
           e == 2 * d
           v == m \div e
<1>1. m \in Nat /\ e \in Nat \ {0}
  OBVIOUS
<1> HIDE DEF m, e
<1>2. v \in Nat /\ e * v <= m /\ m < e * v + e
  BY <1>1
<1>3. RoundHalfUp(n, d) = v
  BY DEF RoundHalfUp, m, e
<1> HIDE DEF v
<1>4. e * v = 2 * (v * d)
  BY <1>2 DEF e
<1>5. v * d \in Nat
  BY <1>2
<1>6. 2 * (v * d) <= 2 * n + d /\ 2 * n + d < 2 * (v * d) + 2 * d
  BY <1>2, <1>4 DEF m, e
<1> QED
  BY <1>2, <1>3, <1>5, <1>6

(* If rounding moves each unit by half a Scale, it moves n units by n halves.  *)
LEMMA SumsReconcile ==
    ASSUME NEW cart, NEW uzs, NEW krw, NEW one, NEW rate \in Nat, NEW S, IsFiniteSet(S),
           \A p \in S :
               /\ uzs[p] \in Nat /\ krw[p] \in Nat /\ cart[p] \in Nat /\ one[p] = 1
               /\ 2 * (uzs[p] * Scale - krw[p] * rate) <= Scale
               /\ 2 * (krw[p] * rate - uzs[p] * Scale) <= Scale,
           NEW U, IsSum(U, cart, uzs, S), NEW K, IsSum(K, cart, krw, S),
           NEW N, IsSum(N, cart, one, S)
    PROVE  \A s \in SUBSET S :
               /\ 2 * (U[s] * Scale - K[s] * rate) <= N[s] * Scale
               /\ 2 * (K[s] * rate - U[s] * Scale) <= N[s] * Scale
<1> DEFINE Near(s) == /\ 2 * (U[s] * Scale - K[s] * rate) <= N[s] * Scale
                      /\ 2 * (K[s] * rate - U[s] * Scale) <= N[s] * Scale
           B == {s \in SUBSET S : ~Near(s)}
<1> SUFFICES ASSUME B # {} PROVE FALSE
  OBVIOUS
<1>1. PICK s \in B : \A u \in SUBSET s : u # s => u \notin B
  <2>1. B \subseteq SUBSET S
    OBVIOUS
  <2> HIDE DEF B
  <2> QED
    BY <2>1, Smallest
<1>2. Scale \in Nat
  BY ScaleAssumption
<1>3. s # {}
  <2>1. U[{}] = 0 /\ K[{}] = 0 /\ N[{}] = 0
    BY DEF IsSum
  <2>2. 0 * Scale = 0 /\ 0 * rate = 0
    BY <1>2
  <2>3. Near({})
    BY <2>1, <2>2
  <2> HIDE DEF Near
  <2> QED
    BY <1>1, <2>3
<1> DEFINE p == Choice(s)
           r == s \ {p}
<1>4. p \in s /\ p \in S /\ r \in SUBSET S
  BY <1>3, ChoiceIn
<1>5. Near(r)
  BY <1>1, <1>4
<1>6. /\ U[s] = uzs[p] * cart[p] + U[r]
      /\ K[s] = krw[p] * cart[p] + K[r]
      /\ N[s] = one[p] * cart[p] + N[r]
  BY <1>3 DEF IsSum
<1>7. U[r] \in Nat /\ K[r] \in Nat /\ N[r] \in Nat
  BY <1>4, SumNat
<1>8. ~Near(s)
  BY <1>1
<1> HIDE DEF p, r, B
<1> DEFINE q == cart[p]
           A == uzs[p] * Scale
           C == krw[p] * rate
<1>9. /\ q \in Nat /\ A \in Nat /\ C \in Nat /\ uzs[p] \in Nat /\ krw[p] \in Nat
      /\ one[p] = 1
      /\ 2 * (A - C) <= Scale /\ 2 * (C - A) <= Scale
  BY <1>2, <1>4
<1>10. /\ U[s] * Scale = q * A + U[r] * Scale
       /\ K[s] * rate = q * C + K[r] * rate
       /\ N[s] * Scale = q * Scale + N[r] * Scale
  BY <1>2, <1>6, <1>7, <1>9
<1> HIDE DEF q, A, C
<1>11. q * (2 * (A - C)) <= q * Scale /\ q * (2 * (C - A)) <= q * Scale
  BY <1>2, <1>9
<1>12. /\ q * (2 * (A - C)) = 2 * (q * A) - 2 * (q * C)
       /\ q * (2 * (C - A)) = 2 * (q * C) - 2 * (q * A)
  BY <1>9
<1>13. /\ q * A \in Nat /\ q * C \in Nat /\ q * Scale \in Nat
       /\ U[r] * Scale \in Nat /\ K[r] * rate \in Nat /\ N[r] * Scale \in Nat
  BY <1>2, <1>7, <1>9
<1> QED
  BY <1>5, <1>8, <1>10, <1>11, <1>12, <1>13
-----------------------------------------------------------------------------
(* The refresh.  *)

(* One message more or less of a retry count.  *)
LEMMA QueuedTyped ==
    ASSUME RefreshTyped, NEW k \in 0..MaxRetries, NEW n \in 0..MaxQueued
    PROVE  [queued EXCEPT ![k] = n] \in [0..MaxRetries -> 0..MaxQueued]
BY DEF RefreshTyped

(***************************************************************************)
(* A tick takes a period from the TTL, and adds one to what is counted; an *)
(* entry whose TTL has run out is gone before.                             *)
(***************************************************************************)
LEMMA PeriodInv ==
    ASSUME IInv, Tick \/ LoseTick
    PROVE  RefreshTyped' /\ Clocks'
<1>1. /\ cached # NoRate => ttl > 0
      /\ task' = [w \in DOMAIN task |-> [task[w] EXCEPT !.age = 1]]
      /\ ttl' = IF ttl > 0 THEN ttl - 1 ELSE 0
      /\ age' = IF cached = NoRate THEN 0 ELSE Later(age)
      /\ missed' = Later(missed)
      /\ UNCHANGED <<configured, cached>>
      /\ queued' = queued \/ queued' = [queued EXCEPT ![0] = 1]
  BY DEF Tick, LoseTick, NextPeriod
<1>2. /\ ttl \in Nat /\ age \in Nat /\ missed \in Nat /\ MaxPeriods \in Nat /\ MaxPeriods >= 3
      /\ ttl <= MaxPeriods /\ age <= MaxPeriods /\ missed <= MaxPeriods
  BY BoundAssumption DEF IInv, RefreshTyped, Periods
<1>3. ttl' \in Periods /\ age' \in Periods /\ missed' \in Periods
  BY <1>1, <1>2 DEF Periods, Later
<1>4. queued' \in [0..MaxRetries -> 0..MaxQueued]
  <2>1. 0 \in 0..MaxRetries /\ 1 \in 0..MaxQueued
    BY BoundAssumption
  <2> QED
    BY <1>1, <2>1, QueuedTyped DEF IInv, RefreshTyped
<1>5. IsTable(task', Worker, Task)
  <2>1. \A w \in DOMAIN task : [task[w] EXCEPT !.age = 1] \in Task
    BY DEF IInv, RefreshTyped, IsTable, Task
  <2> QED
    BY <1>1, <2>1 DEF IInv, RefreshTyped, IsTable
<1>6. RefreshTyped'
  BY <1>1, <1>3, <1>4, <1>5 DEF IInv, RefreshTyped
<1>7. Clocks'
  BY <1>1, <1>2 DEF IInv, Clocks, Later, RateTtl
<1> QED
  BY <1>6, <1>7

(* The worker runs its task: nothing reaches the cache before Store.  *)
LEMMA WorkInv ==
    ASSUME IInv, NEW w \in Worker, Refresh(w), ~Store(w)
    PROVE  RefreshTyped' /\ Clocks'
<1>1. ASSUME NEW k \in 0..MaxRetries, StartRefresh(w, k)
      PROVE  RefreshTyped' /\ Clocks'
  <2>1. queued[k] \in 0..MaxQueued /\ queued[k] > 0 /\ MaxQueued \in Nat
    BY <1>1, BoundAssumption DEF StartRefresh, IInv, RefreshTyped
  <2>2. queued' \in [0..MaxRetries -> 0..MaxQueued]
    BY <1>1, <2>1, QueuedTyped DEF StartRefresh, IInv
  <2>3. [tries |-> k, pc |-> "fetch", quote |-> Garbage, age |-> 0] \in Task
    BY DEF Task, Special
  <2>4. IsTable(task', Worker, Task)
    BY <1>1, <2>3 DEF StartRefresh, IInv, RefreshTyped, IsTable, Insert
  <2> QED
    BY <1>1, <2>2, <2>4 DEF StartRefresh, IInv, RefreshTyped, Clocks
<1>2. ASSUME NEW q \in Quote, Fetch(w, q)
      PROVE  RefreshTyped' /\ Clocks'
  <2>1. w \in DOMAIN task /\ task[w] \in Task /\ q \in Int \cup Special
    BY <1>2, QuoteAssumption DEF Fetch, At, IInv, RefreshTyped, IsTable
  <2>2. IsTable(task', Worker, Task)
    BY <1>2, <2>1 DEF Fetch, IInv, RefreshTyped, IsTable, Task
  <2> QED
    BY <1>2, <2>2 DEF Fetch, IInv, RefreshTyped, Clocks
<1>3. IsTable(Delete(task, w), Worker, Task)
  BY DEF IInv, RefreshTyped, IsTable, Delete
<1>4. ASSUME NEW q \in Quote, RetryFetch(w, q)
      PROVE  RefreshTyped' /\ Clocks'
  <2> DEFINE k == task[w].tries + 1
  <2>1. k \in 0..MaxRetries
    BY <1>4, BoundAssumption DEF RetryFetch, At, IInv, RefreshTyped, IsTable, Task
  <2>2. queued[k] + 1 \in 0..MaxQueued
    BY <1>4, <2>1, BoundAssumption DEF RetryFetch, IInv, RefreshTyped
  <2>3. queued' \in [0..MaxRetries -> 0..MaxQueued]
    BY <1>4, <2>1, <2>2, QueuedTyped DEF RetryFetch, IInv
  <2> QED
    BY <1>3, <1>4, <2>3 DEF RetryFetch, Finish, IInv, RefreshTyped, Clocks
<1>5. ASSUME (\E q \in Quote : GiveUp(w, q)) \/ SkipRefresh(w) \/ FailStore(w)
      PROVE  RefreshTyped' /\ Clocks'
  <2>1. /\ task' = Delete(task, w)
        /\ UNCHANGED <<configured, queued, cached, ttl, age, missed, checkout>>
    BY <1>5 DEF GiveUp, SkipRefresh, FailStore, Finish
  <2> QED
    BY <1>3, <2>1 DEF IInv, RefreshTyped, Clocks
<1>6. ASSUME LoseWorker(w)
      PROVE  RefreshTyped' /\ Clocks'
  <2> DEFINE k == task[w].tries
  <2>1. k \in 0..MaxRetries
    BY <1>6 DEF LoseWorker, IInv, RefreshTyped, IsTable, Task
  <2>2. queued[k] + 1 \in 0..MaxQueued
    BY <1>6, <2>1, BoundAssumption DEF LoseWorker, IInv, RefreshTyped
  <2>3. queued' \in [0..MaxRetries -> 0..MaxQueued]
    BY <1>6, <2>1, <2>2, QueuedTyped DEF LoseWorker, IInv
  <2>4. IsTable(task', Worker, Task)
    BY <1>3, <1>6 DEF LoseWorker, IInv, RefreshTyped
  <2> QED
    BY <1>6, <2>3, <2>4 DEF LoseWorker, IInv, RefreshTyped, Clocks
<1> QED
  BY <1>1, <1>2, <1>4, <1>5, <1>6 DEF Refresh

(* A quote is one period old at most when it is stored.  *)
LEMMA StoreInv ==
    ASSUME IInv, NEW w \in Worker, Store(w)
    PROVE  RefreshTyped' /\ Clocks'
<1>1. w \in DOMAIN task /\ task[w] \in Task
  BY DEF Store, At, IInv, RefreshTyped, IsTable
<1>2. /\ cached' \in Int \cup Special
      /\ task' = Delete(task, w) /\ UNCHANGED <<configured, queued>>
  BY <1>1 DEF Store, Finish, Task
<1>3. age' \in {0, 1} /\ ttl' = 3 /\ missed' = 0
  BY <1>1 DEF Store, Task, RateTtl
<1>4. cached' # NoRate
  BY <1>2, QuoteAssumption
<1>5. IsTable(task', Worker, Task)
  BY <1>2 DEF IInv, RefreshTyped, IsTable, Delete
<1>6. {0, 1, 3} \subseteq Periods
  BY BoundAssumption DEF Periods
<1>7. RefreshTyped'
  BY <1>2, <1>3, <1>5, <1>6 DEF IInv, RefreshTyped
<1>8. Clocks'
  <2>1. missed' + ttl' >= RateTtl
    BY <1>3 DEF RateTtl
  <2>2. age' + ttl' <= RateTtl + 1
    <3>1. CASE age' = 0
      BY <1>3, <3>1 DEF RateTtl
    <3>2. CASE age' = 1
      BY <1>3, <3>2 DEF RateTtl
    <3> QED
      BY <1>3, <3>1, <3>2
  <2> QED
    BY <1>3, <1>4, <2>1, <2>2 DEF Clocks
<1> QED
  BY <1>7, <1>8

(* Messages, entries and what corrupts them.  *)
LEMMA CacheInv ==
    ASSUME IInv,
           \/ \E k \in 0..MaxRetries : ExpireMessage(k)
           \/ \E v \in Damage : Corrupt(v)
           \/ ExpireRate
    PROVE  RefreshTyped' /\ Clocks'
<1>1. ASSUME NEW k \in 0..MaxRetries, ExpireMessage(k)
      PROVE  RefreshTyped' /\ Clocks'
  <2>1. queued[k] - 1 \in 0..MaxQueued
    BY <1>1, BoundAssumption DEF ExpireMessage, IInv, RefreshTyped
  <2>2. queued' \in [0..MaxRetries -> 0..MaxQueued]
    BY <1>1, <2>1, QueuedTyped DEF ExpireMessage, IInv
  <2> QED
    BY <1>1, <2>2 DEF ExpireMessage, IInv, RefreshTyped, Clocks
<1>2. ASSUME NEW v \in Damage, Corrupt(v)
      PROVE  RefreshTyped' /\ Clocks'
  <2>1. v \in Int \cup Special /\ v # NoRate
    BY QuoteAssumption
  <2> QED
    BY <1>2, <2>1 DEF Corrupt, IInv, RefreshTyped, Clocks
<1>3. ASSUME ExpireRate
      PROVE  RefreshTyped' /\ Clocks'
  <2>1. 0 \in Periods
    BY BoundAssumption DEF Periods
  <2> QED
    BY <1>3, <2>1 DEF ExpireRate, IInv, RefreshTyped, Clocks
<1> QED
  BY <1>1, <1>2, <1>3
-----------------------------------------------------------------------------
(* The checkout.  *)

(* An entry gives no rate that is not positive, and Infinity only itself.  *)
LEMMA RateOfEntry ==
    ASSUME NEW entry, NEW rate \in CurrentRate(entry)
    PROVE  /\ rate = Infinity => entry = Infinity
           /\ rate # Infinity => rate \in Nat \ {0}
<1>1. Fallback \in Nat \ {0} /\ Infinity \notin Int
  BY FallbackAssumption, QuoteAssumption DEF Special
<1> QED
  BY <1>1 DEF CurrentRate, Positive

(* What a cart comes to, in both currencies.  *)
LEMMA TotalsTyped ==
    ASSUME NEW cart \in Carts, NEW rate \in Nat
    PROVE  TotalKrw(cart) \in Nat /\ TotalUzs(cart, rate) \in Nat
<1>1. /\ IsFiniteSet(DOMAIN cart)
      /\ \A p \in DOMAIN cart : Price[p] \in Nat /\ cart[p] \in Nat
  BY CartAssumption
<1>2. TotalKrw(cart) \in Nat
  BY <1>1, TotalNat DEF TotalKrw
<1>3. TotalUzs(cart, rate) \in Nat
  <2> DEFINE uzs == [p \in DOMAIN cart |-> convert_krw_to_uzs(Price[p], rate)]
  <2>1. \A p \in DOMAIN cart : uzs[p] \in Nat
    <3> SUFFICES ASSUME NEW p \in DOMAIN cart PROVE convert_krw_to_uzs(Price[p], rate) \in Nat
      OBVIOUS
    <3>1. Price[p] * rate \in Nat
      BY <1>1
    <3> QED
      BY <3>1, Rounded, ScaleAssumption DEF convert_krw_to_uzs
  <2> HIDE DEF uzs
  <2>2. Total(cart, uzs) \in Nat
    BY <1>1, <2>1, TotalNat
  <2> QED
    BY <2>2 DEF TotalUzs, uzs
<1> QED
  BY <1>2, <1>3

(***************************************************************************)
(* The totals of a cart differ by what rounding does to its units, and by  *)
(* what exchange_rate_used has no room for, times the total.               *)
(***************************************************************************)
LEMMA CartReconciles ==
    ASSUME NEW cart \in Carts, NEW rate \in Nat
    PROVE  2 * Abs(TotalUzs(cart, rate) * Scale
                     - TotalKrw(cart) * RoundHalfUp(rate, Digit) * Digit)
               <= Units(cart) * Scale + TotalKrw(cart) * Digit
<1> DEFINE uzs == [p \in DOMAIN cart |-> convert_krw_to_uzs(Price[p], rate)]
           one == [p \in DOMAIN cart |-> 1]
           S == DOMAIN cart
           R == RoundHalfUp(rate, Digit)
<1>1. /\ IsFiniteSet(S)
      /\ \A p \in S : Price[p] \in Nat /\ cart[p] \in Nat /\ one[p] = 1
  BY CartAssumption
<1>2. \A p \in S : /\ uzs[p] \in Nat
                   /\ 2 * (uzs[p] * Scale - Price[p] * rate) <= Scale
                   /\ 2 * (Price[p] * rate - uzs[p] * Scale) <= Scale
  <2> SUFFICES ASSUME NEW p \in S
               PROVE  LET u == convert_krw_to_uzs(Price[p], rate)
                      IN  /\ u \in Nat
                          /\ 2 * (u * Scale - Price[p] * rate) <= Scale
                          /\ 2 * (Price[p] * rate - u * Scale) <= Scale
    OBVIOUS
  <2>1. Price[p] * rate \in Nat
    BY <1>1
  <2> QED
    BY <2>1, Rounded, ScaleAssumption DEF convert_krw_to_uzs
<1> HIDE DEF uzs, one
<1>3. PICK U : IsSum(U, cart, uzs, S) /\ Total(cart, uzs) = U[S]
  BY <1>1, TotalIsSum
<1>4. PICK K : IsSum(K, cart, Price, S) /\ Total(cart, Price) = K[S]
  BY <1>1, TotalIsSum
<1>5. PICK N : IsSum(N, cart, one, S) /\ Total(cart, one) = N[S]
  BY <1>1, TotalIsSum
<1>6. /\ 2 * (U[S] * Scale - K[S] * rate) <= N[S] * Scale
      /\ 2 * (K[S] * rate - U[S] * Scale) <= N[S] * Scale
  BY <1>1, <1>2, <1>3, <1>4, <1>5, SumsReconcile
<1>7. U[S] \in Nat /\ K[S] \in Nat /\ N[S] \in Nat
  BY <1>1, <1>2, <1>3, <1>4, <1>5, SumNat
<1>8. R \in Nat /\ 2 * (R * Digit - rate) <= Digit /\ 2 * (rate - R * Digit) <= Digit
  BY Rounded, ScaleAssumption
<1>9. TotalUzs(cart, rate) = U[S] /\ TotalKrw(cart) = K[S] /\ Units(cart) = N[S]
  BY <1>3, <1>4, <1>5 DEF TotalUzs, TotalKrw, Units, uzs, one
<1>10. Scale \in Nat /\ Digit \in Nat
  BY ScaleAssumption
<1> DEFINE u == U[S]
           k == K[S]
           n == N[S]
           d == R * Digit
<1>11. u \in Nat /\ k \in Nat /\ n \in Nat /\ d \in Nat
  BY <1>7, <1>8, <1>10
<1>12. k * R * Digit = k * d
  BY <1>7, <1>8, <1>10
<1> HIDE DEF u, k, n, d
<1>13. k * (2 * (d - rate)) <= k * Digit /\ k * (2 * (rate - d)) <= k * Digit
  BY <1>8, <1>10, <1>11 DEF d
<1>14. /\ k * (2 * (d - rate)) = 2 * (k * d) - 2 * (k * rate)
       /\ k * (2 * (rate - d)) = 2 * (k * rate) - 2 * (k * d)
  BY <1>11
<1>15. /\ u * Scale \in Nat /\ k * rate \in Nat /\ k * d \in Nat
       /\ n * Scale \in Nat /\ k * Digit \in Nat
  BY <1>10, <1>11
<1>16. /\ 2 * (u * Scale - k * rate) <= n * Scale
       /\ 2 * (k * rate - u * Scale) <= n * Scale
  BY <1>6 DEF u, k, n
<1>17. 2 * Abs(u * Scale - k * d) <= n * Scale + k * Digit
  BY <1>13, <1>14, <1>15, <1>16 DEF Abs
<1> QED
  BY <1>9, <1>12, <1>17 DEF u, k, n

(* A checkout that begins knows the entry it has just read.  *)
LEMMA BeginServed ==
    ASSUME IInv, NEW s \in Session, NEW cart \in Carts, NEW pc, NEW rate,
           Begin(s, cart, pc, rate),
           \/ pc = "priced" /\ rate \in CurrentRate(cached)
           \/ pc = "error" /\ cached = NaN /\ rate = Fallback
    PROVE  Served'
<1> DEFINE c == [pc |-> pc, cart |-> cart, rate |-> rate, entry |-> cached,
                 age |-> IF rate = cached THEN age ELSE 0,
                 total_krw |-> 0, total_uzs |-> 0, exchange_rate_used |-> 0]
<1>1. checkout' = Insert(checkout, s, c)
  BY DEF Begin
<1>2. /\ age \in Periods /\ age <= RateTtl + 1 /\ 0 \in Periods /\ 0 <= RateTtl + 1
  BY BoundAssumption DEF IInv, RefreshTyped, Clocks, Periods, RateTtl
<1>3. rate \in Int \cup {Infinity}
  BY RateOfEntry, FallbackAssumption
<1>4. c \in Checkout
  BY <1>2, <1>3 DEF Checkout, IInv, RefreshTyped
<1>5. Knows(c)
  <2>1. c.pc = pc /\ c.rate = rate /\ c.entry = cached /\ c.age <= RateTtl + 1
    BY <1>2
  <2> HIDE DEF c
  <2> QED
    BY <2>1 DEF Knows
<1> HIDE DEF c
<1> QED
  BY <1>1, <1>4, <1>5 DEF Insert, IInv, Served, IsTable

(* An update of one checkout.  *)
LEMMA UpdateServed ==
    ASSUME Served, NEW s \in DOMAIN checkout, NEW c \in Checkout, Knows(c),
           checkout' = [checkout EXCEPT ![s] = c]
    PROVE  Served'
BY DEF Served, IsTable

(* It ends as an order if its total fits, as an error if it does not.  *)
LEMMA EndServed ==
    ASSUME IInv, NEW s \in Session, PlaceOrder(s) \/ FailOrder(s) \/ RejectOrder(s)
    PROVE  Served'
<1> DEFINE c == checkout[s]
<1>1. s \in DOMAIN checkout /\ c \in Checkout /\ Knows(c) /\ c.pc = "priced"
  BY DEF PlaceOrder, FailOrder, RejectOrder, Pending, IInv, Served, IsTable
<1>2. 0 \in Periods /\ 0 <= RateTtl + 1
  BY BoundAssumption DEF Periods, RateTtl
<1>3. CASE PlaceOrder(s)
  <2> DEFINE k == TotalKrw(c.cart)
             u == TotalUzs(c.cart, c.rate)
             e == RoundHalfUp(c.rate, Digit)
             o == [c EXCEPT !.pc = "placed", !.age = 0, !.total_krw = k,
                            !.total_uzs = u, !.exchange_rate_used = e]
  <2>1. Payable(c) /\ checkout' = [checkout EXCEPT ![s] = o]
    BY <1>3 DEF PlaceOrder
  <2>2. c.cart \in Carts /\ c.rate \in Nat
    BY <1>1, <2>1, RateOfEntry DEF Knows, Payable, Checkout
  <2>3. k \in Nat /\ u \in Nat /\ e \in Nat
    BY <2>2, TotalsTyped, Rounded, ScaleAssumption
  <2> HIDE DEF c, k, u, e
  <2>4. /\ o \in Checkout
        /\ o.pc = "placed" /\ o.age = 0 /\ o.cart = c.cart /\ o.rate = c.rate
        /\ o.entry = c.entry /\ o.total_krw = k /\ o.total_uzs = u
        /\ o.exchange_rate_used = e
    BY <1>1, <1>2, <2>3 DEF Checkout
  <2> HIDE DEF o
  <2>5. Knows(o)
    BY <1>1, <1>2, <2>1, <2>4 DEF Knows, Payable, k, u, e
  <2> QED
    BY <1>1, <2>1, <2>4, <2>5, UpdateServed DEF IInv
<1>4. CASE FailOrder(s)
  <2> DEFINE o == [c EXCEPT !.pc = "error", !.age = 0]
  <2>1. ~Payable(c) /\ checkout' = [checkout EXCEPT ![s] = o]
    BY <1>4 DEF FailOrder
  <2> HIDE DEF c
  <2>2. /\ o \in Checkout
        /\ o.pc = "error" /\ o.age = 0 /\ o.cart = c.cart /\ o.rate = c.rate
        /\ o.entry = c.entry
    BY <1>1, <1>2 DEF Checkout
  <2> HIDE DEF o
  <2>3. Knows(o)
    BY <1>1, <1>2, <2>1, <2>2 DEF Knows, Payable
  <2> QED
    BY <1>1, <2>1, <2>2, <2>3, UpdateServed DEF IInv
<1>5. CASE RejectOrder(s)
  BY <1>5 DEF RejectOrder, Delete, IInv, Served, IsTable
<1> QED
  BY <1>3, <1>4, <1>5
-----------------------------------------------------------------------------
(* The theorems.  *)

(* The initial states satisfy the inductive invariant.                     *)
LEMMA InitInv == Init => IInv
<1> SUFFICES ASSUME Init PROVE IInv
  OBVIOUS
<1>1. 0 \in 0..MaxQueued /\ {0, MaxPeriods} \subseteq Periods
  BY BoundAssumption DEF Periods
<1>2. RefreshTyped
  BY <1>1 DEF Init, RefreshTyped, IsTable, EmptyTable
<1>3. Clocks
  BY BoundAssumption DEF Init, Clocks, RateTtl
<1>4. Served
  BY DEF Init, Served, IsTable, EmptyTable
<1> QED
  BY <1>2, <1>3, <1>4 DEF IInv

(* Every step keeps the inductive invariant.                               *)
LEMMA NextInv == IInv /\ [Next]_vars => IInv'
<1> SUFFICES ASSUME IInv, [Next]_vars PROVE IInv'
  OBVIOUS
<1>1. ASSUME RefreshTyped', Clocks', checkout' = checkout
      PROVE  IInv'
  BY <1>1 DEF IInv, Served, Knows, Payable, Fits
<1>2. ASSUME UNCHANGED fx, Served'
      PROVE  IInv'
  BY <1>2 DEF fx, IInv, RefreshTyped, Clocks
<1>3. CASE Tick \/ LoseTick
  BY <1>1, <1>3, PeriodInv DEF Tick, LoseTick, NextPeriod
<1>4. ASSUME NEW w \in Worker, Refresh(w)
      PROVE  IInv'
  <2>1. checkout' = checkout
    BY <1>4 DEF Refresh, StartRefresh, Fetch, RetryFetch, GiveUp, SkipRefresh,
                Store, FailStore, LoseWorker
  <2> QED
    BY <1>1, <1>4, <2>1, WorkInv, StoreInv
<1>5. CASE \/ \E k \in 0..MaxRetries : ExpireMessage(k)
           \/ \E v \in Damage : Corrupt(v)
           \/ ExpireRate
  <2>1. checkout' = checkout
    BY <1>5 DEF ExpireMessage, Corrupt, ExpireRate
  <2> QED
    BY <1>1, <1>5, <2>1, CacheInv
<1>6. ASSUME NEW s \in Session, Buy(s)
      PROVE  IInv'
  <2>1. UNCHANGED fx
    BY <1>6 DEF Buy, ReadRate, FailRead, Begin, PlaceOrder, FailOrder, RejectOrder
  <2>2. ASSUME NEW cart \in Carts, ReadRate(s, cart) \/ FailRead(s, cart)
        PROVE  Served'
    BY <2>2, BeginServed DEF ReadRate, FailRead
  <2>3. Served'
    BY <1>6, <2>2, EndServed DEF Buy
  <2> QED
    BY <1>2, <2>1, <2>3
<1>7. CASE UNCHANGED vars
  <2>1. UNCHANGED fx /\ checkout' = checkout
    BY <1>7 DEF vars, fx
  <2>2. RefreshTyped' /\ Clocks'
    BY <2>1 DEF fx, IInv, RefreshTyped, Clocks
  <2> QED
    BY <1>1, <2>1, <2>2
<1> QED
  BY <1>3, <1>4, <1>5, <1>6, <1>7 DEF Next

(* The inductive invariant holds of every reachable state.                 *)
THEOREM Invariance == Spec => []IInv
<1> QED
  BY InitInv, NextInv, PTL DEF Spec

(* The refresh, the cache and the checkouts are well typed; in particular  *)
(* the totals of an order are natural numbers, at whatever rate.           *)
THEOREM TypeCorrect == Spec => []TypeOK
<1>1. IInv => TypeOK
  BY DEF IInv, RefreshTyped, Served, TypeOK
<1> QED
  BY <1>1, Invariance, PTL

(***************************************************************************)
(* For any cart, prices and rate, the total in UZS is that in KRW at the   *)
(* recorded rate up to the rounding of its units and of the rate.          *)
(***************************************************************************)
THEOREM TotalsReconcile == Spec => []OrdersReconcile
<1>1. IInv => OrdersReconcile
  <2> SUFFICES ASSUME IInv, NEW o \in Ended("placed")
               PROVE  2 * Abs(o.total_uzs * Scale - o.total_krw * o.exchange_rate_used * Digit)
                         <= Units(o.cart) * Scale + o.total_krw * Digit
    BY DEF OrdersReconcile
  <2>1. Knows(o) /\ o \in Checkout /\ o.pc = "placed"
    BY DEF Ended, IInv, Served, IsTable
  <2>2. o.cart \in Carts /\ o.rate \in Nat
    BY <2>1, RateOfEntry DEF Knows, Payable, Checkout
  <2> QED
    BY <2>1, <2>2, CartReconciles DEF Knows
<1> QED
  BY <1>1, Invariance, PTL

(***************************************************************************)
(* However ticks, retries, redeliveries and crashes of workers interleave, *)
(* two missed refreshes leave the cache filled, and no checkout prices an  *)
(* order at a quote older than the TTL and the period that fetched it.     *)
(***************************************************************************)
THEOREM RatesAreFresh == Spec => []RateFresh
<1>1. IInv => RateFresh
  <2> SUFFICES ASSUME IInv PROVE RateFresh
    OBVIOUS
  <2>1. missed <= 2 => cached # NoRate
    BY DEF IInv, RefreshTyped, Clocks, Periods, RateTtl
  <2>2. \A s \in DOMAIN checkout : checkout[s].age <= 4
    BY DEF IInv, Served, Knows, RateTtl
  <2> QED
    BY <2>1, <2>2 DEF RateFresh
<1> QED
  BY <1>1, Invariance, PTL

(***************************************************************************)
(* Whatever a cache entry is corrupted into, a checkout fails only of an   *)
(* entry of NaN, an infinite rate, or a total or a rate that has no room   *)
(* in its column; and an entry that is not positive is never the rate.     *)
(***************************************************************************)
THEOREM OnlyBadEntriesFail == Spec => []OnlyBadRatesFail
<1>1. IInv => OnlyBadRatesFail
  <2> SUFFICES ASSUME IInv PROVE OnlyBadRatesFail
    OBVIOUS
  <2>1. ASSUME NEW c \in Ended("error")
        PROVE  c.entry = NaN \/ c.rate = Infinity \/ ~Fits(c.cart, c.rate)
    BY DEF Ended, IInv, Served, Knows, Payable
  <2>2. ASSUME NEW s \in DOMAIN checkout
        PROVE  /\ checkout[s].rate \in {checkout[s].entry, Fallback}
               /\ ~Positive(checkout[s].entry) => checkout[s].rate = Fallback
    BY DEF IInv, Served, Knows, CurrentRate
  <2> QED
    BY <2>1, <2>2 DEF OnlyBadRatesFail
<1> QED
  BY <1>1, Invariance, PTL
=============================================================================
