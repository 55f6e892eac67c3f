------------------------------- MODULE FxRate -------------------------------
(***************************************************************************)
(* The KRW -> UZS rate: workers/fx_tasks.py fetches it from a provider and *)
(* caches it in Redis with a TTL, services/payment_service.py reads it     *)
(* back, and create_order prices the whole cart at the rate it read first. *)
(* Rows and locks of a checkout are in Checkout; here it is its arithmetic. *)
(***************************************************************************)
EXTENDS Tables, Integers, FiniteSets, FiniteSetsExt

CONSTANTS
    Worker,         \* Celery worker processes
    Session,        \* checkouts served at a time
    Quote,          \* what the provider may answer
    Damage,         \* what an entry of the cache may be corrupted into
    NaN, Infinity,  \* the decimals that are no number
    Garbage,        \* no answer, or one that does not parse as a decimal
    NoRate,         \* a cache without entry
    Fallback,       \* EXCHANGE_RATE_FALLBACK_KRW_TO_UZS
    Scale,          \* a rate is counted in units of 1 / Scale
    Digit,          \* units of a rate in the last digit of exchange_rate_used
    MaxAmount,      \* the largest value of a Numeric(18, 2), in hundredths
    MaxRate,        \* the largest exchange_rate_used, in units of Digit
    Carts,          \* functions from product to quantity
    Price,          \* price_krw of each product, in hundredths
    MaxRetries,     \* of update_exchange_rates
    MaxQueued,      \* bound on the messages with one retry count
    MaxPeriods      \* bound on counted refresh periods

Special == {NaN, Infinity, Garbage}

ASSUME QuoteAssumption ==
    /\ Quote \cup Damage \subseteq Int \cup Special
    /\ Special \cap Int = {} /\ Cardinality(Special) = 3
    /\ NoRate \notin Int \cup Special
ASSUME FallbackAssumption == Fallback \in Nat \ {0}
ASSUME ScaleAssumption == Scale \in Nat \ {0} /\ Digit \in Nat \ {0}
ASSUME CartAssumption ==
    \A cart \in Carts :
        /\ IsFiniteSet(DOMAIN cart)
        /\ \A p \in DOMAIN cart : Price[p] \in Nat /\ cart[p] \in Nat \ {0}
(* Bounds: a tick queues a message, and a TTL can be counted.  *)
ASSUME BoundAssumption ==
    /\ {MaxAmount, MaxRate, MaxRetries} \subseteq Nat
    /\ MaxQueued \in Nat \ {0}
    /\ MaxPeriods \in Nat /\ MaxPeriods >= 3

VARIABLES
    configured, \* whether EXCHANGE_RATE_PROVIDER_URL is set
    queued,     \* refresh messages, by how often they were retried
    task,       \* the refresh each busy worker runs
    cached,     \* the entry fx:krw_to_uzs
    ttl,        \* refresh periods until it expires
    age,        \* history: refresh periods since it was quoted
    missed,     \* history: ticks since the cache was last written
    checkout    \* the checkout each session serves, or has answered

fx == <<configured, queued, task, cached, ttl, age, missed>>
vars == <<configured, queued, task, cached, ttl, age, missed, checkout>>

Periods == 0..MaxPeriods
Later(n) == IF n < MaxPeriods THEN n + 1 ELSE n

(* Strings in Redis that Decimal() parses, and the ones that are positive. *)
Positive(v) == v = Infinity \/ (v \in Int /\ v > 0)

(* A running refresh: "fetch" asks the provider, "store" writes the cache. *)
Task == [tries : 0..MaxRetries, pc : {"fetch", "store"},
         quote : Int \cup Special, age : {0, 1}]

(***************************************************************************)
(* A checkout: "priced" has read its rate, "placed" is an order with its   *)
(* payment, "error" a server error.  History: the cache entry it read and, *)
(* while it is served, the age of that quote.                              *)
(***************************************************************************)
Checkout ==
    [pc : {"priced", "placed", "error"}, cart : Carts,
     rate : Int \cup {Infinity}, entry : Int \cup Special \cup {NoRate}, age : Periods,
     total_krw : Nat, total_uzs : Nat, exchange_rate_used : Nat]

TypeOK ==
    /\ configured \in BOOLEAN
    /\ queued \in [0..MaxRetries -> 0..MaxQueued]
    /\ IsTable(task, Worker, Task)
    /\ cached \in Int \cup Special \cup {NoRate}
    /\ ttl \in Periods
    /\ age \in Periods
    /\ missed \in Periods
    /\ IsTable(checkout, Session, Checkout)
-----------------------------------------------------------------------------
(* The refresh.  *)

(* Fault: the entry lives as long as it takes to the next refresh.  *)
OnePeriod == 1

(* _RATE_TTL_SECONDS  *)
RateTtl == 3

Init ==
    /\ configured \in BOOLEAN
    /\ queued = [k \in 0..MaxRetries |-> 0]
    /\ task = EmptyTable
    /\ cached = NoRate
    /\ ttl = 0 /\ age = 0 /\ missed = MaxPeriods
    /\ checkout = EmptyTable

At(w, pc) == w \in DOMAIN task /\ task[w].pc = pc
Finish(w) == task' = Delete(task, w)

(* A beat tick: a refresh period begins.  What was queued in the last one  *)
(* has expired, runs are at most one period old (the HTTP timeout), and an *)
(* entry due to expire has.                                                *)
NextPeriod ==
    /\ \A k \in 0..MaxRetries : queued[k] = 0
    /\ \A w \in DOMAIN task : task[w].age = 0
    /\ cached # NoRate => ttl > 0
    /\ task' = [w \in DOMAIN task |-> [task[w] EXCEPT !.age = 1]]
    /\ ttl' = IF ttl > 0 THEN ttl - 1 ELSE 0
    /\ age' = IF cached = NoRate THEN 0 ELSE Later(age)
    /\ missed' = Later(missed)
    /\ UNCHANGED <<configured, cached, checkout>>

Tick ==
    /\ NextPeriod
    /\ queued' = [queued EXCEPT ![0] = 1]

(* The broker is down at the tick.  *)
LoseTick ==
    /\ NextPeriod
    /\ UNCHANGED queued

(* `expires': a message not taken within the hour is dropped.  *)
ExpireMessage(k) ==
    /\ queued[k] > 0
    /\ queued' = [queued EXCEPT ![k] = @ - 1]
    /\ UNCHANGED <<configured, task, cached, ttl, age, missed, checkout>>

StartRefresh(w, k) ==
    /\ w \notin DOMAIN task
    /\ queued[k] > 0
    /\ queued' = [queued EXCEPT ![k] = @ - 1]
    /\ task' = Insert(task, w, [tries |-> k, pc |-> "fetch", quote |-> Garbage, age |-> 0])
    /\ UNCHANGED <<configured, cached, ttl, age, missed, checkout>>

(* No provider URL: the task does nothing.  *)
SkipRefresh(w) ==
    /\ At(w, "fetch") /\ ~configured
    /\ Finish(w)
    /\ UNCHANGED <<configured, queued, cached, ttl, age, missed, checkout>>

Fetch(w, q) ==
    /\ At(w, "fetch") /\ configured
    /\ Positive(q)
    /\ task' = [task EXCEPT ![w].pc = "store", ![w].quote = q]
    /\ UNCHANGED <<configured, queued, cached, ttl, age, missed, checkout>>

(* HTTP errors and answers _extract_rate refuses with ValueError are       *)
(* retried, as a message with a higher count ...                           *)
RetryFetch(w, q) ==
    /\ At(w, "fetch") /\ configured
    /\ ~Positive(q) /\ q # NaN
    /\ task[w].tries < MaxRetries
    /\ queued[task[w].tries + 1] < MaxQueued
    /\ queued' = [queued EXCEPT ![task[w].tries + 1] = @ + 1]
    /\ Finish(w)
    /\ UNCHANGED <<configured, cached, ttl, age, missed, checkout>>

(* ... max_retries times; NaN <= 0 raises InvalidOperation and an answer   *)
(* that is no JSON object an AttributeError, which are not.                *)
GiveUp(w, q) ==
    /\ At(w, "fetch") /\ configured
    /\ ~Positive(q)
    /\ task[w].tries = MaxRetries \/ q \in {NaN, Garbage}
    /\ Finish(w)
    /\ UNCHANGED <<configured, queued, cached, ttl, age, missed, checkout>>

(* SET fx:krw_to_uzs ... EX.  *)
Store(w) ==
    /\ At(w, "store")
    /\ cached' = task[w].quote
    /\ ttl' = RateTtl
    /\ age' = task[w].age
    /\ missed' = 0
    /\ Finish(w)
    /\ UNCHANGED <<configured, queued, checkout>>

(* redis-py's errors are none of the retried ones.  *)
FailStore(w) ==
    /\ At(w, "store")
    /\ Finish(w)
    /\ UNCHANGED <<configured, queued, cached, ttl, age, missed, checkout>>

(* The worker dies, or the message is handed out again while it runs.  *)
LoseWorker(w) ==
    /\ w \in DOMAIN task
    /\ queued[task[w].tries] < MaxQueued
    /\ queued' = [queued EXCEPT ![task[w].tries] = @ + 1]
    /\ task' \in {task, Delete(task, w)}
    /\ UNCHANGED <<configured, cached, ttl, age, missed, checkout>>

ExpireRate ==
    /\ cached # NoRate /\ ttl = 0
    /\ cached' = NoRate
    /\ age' = 0
    /\ UNCHANGED <<configured, queued, task, ttl, missed, checkout>>

Corrupt(v) ==
    /\ cached # NoRate
    /\ cached' = v
    /\ UNCHANGED <<configured, queued, task, ttl, age, missed, checkout>>
-----------------------------------------------------------------------------
(* The checkout.  *)

(* Fault: any entry that parses is a rate.  *)
ParsedRate(entry) ==
    IF entry = NoRate \/ entry = Garbage THEN {Fallback} ELSE {entry, Fallback}

(* Fault: any number is.  *)
AnyNumber(entry) ==
    (IF entry \in Int THEN {entry} ELSE IF entry = NaN THEN {} ELSE {Fallback})
        \cup {Fallback}

(* get_current_exchange_rate: an absent, unparsable or non-positive entry  *)
(* and a Redis outage give the fallback; an entry of NaN gives no rate.    *)
CurrentRate(entry) ==
    (IF Positive(entry) THEN {entry} ELSE IF entry = NaN THEN {} ELSE {Fallback})
        \cup {Fallback}

RoundHalfUp(n, d) == (2 * n + d) \div (2 * d)

convert_krw_to_uzs(amount_krw, rate) == RoundHalfUp(amount_krw * rate, Scale)

Total(cart, amount) == MapThenSumSet(LAMBDA p : amount[p] * cart[p], DOMAIN cart)

TotalKrw(cart) == Total(cart, Price)
TotalUzs(cart, rate) ==
    Total(cart, [p \in DOMAIN cart |-> convert_krw_to_uzs(Price[p], rate)])

(* The totals and the rate have room in the columns of the order and its   *)
(* payment; unit prices are at most the totals.                            *)
Fits(cart, rate) ==
    /\ TotalKrw(cart) <= MaxAmount
    /\ TotalUzs(cart, rate) <= MaxAmount
    /\ RoundHalfUp(rate, Digit) <= MaxRate

(* They are numbers at all: quantize raises InvalidOperation for an        *)
(* infinite amount.                                                        *)
Payable(c) == c.rate # Infinity /\ Fits(c.cart, c.rate)

Pending(s) == s \in DOMAIN checkout /\ checkout[s].pc = "priced"

(* The handler reads the rate before anything else.  *)
Begin(s, cart, pc, rate) ==
    /\ ~Pending(s)
    /\ checkout' = Insert(checkout, s,
            [pc |-> pc, cart |-> cart, rate |-> rate, entry |-> cached,
             age |-> IF rate = cached THEN age ELSE 0,
             total_krw |-> 0, total_uzs |-> 0, exchange_rate_used |-> 0])
    /\ UNCHANGED fx

ReadRate(s, cart) == \E rate \in CurrentRate(cached) : Begin(s, cart, "priced", rate)

(* Comparing NaN with 0 raises outside of the try.  *)
FailRead(s, cart) == cached = NaN /\ Begin(s, cart, "error", Fallback)

(* Fault: the payment records the rate of the moment, not that of the order. *)
PlaceAtNewRate(s) ==
    /\ Pending(s)
    /\ LET c == checkout[s]
       IN  /\ Payable(c)
           /\ \E rate \in CurrentRate(cached) \ {Infinity} :
                checkout' = [checkout EXCEPT
                    ![s].pc = "placed",
                    ![s].age = 0,
                    ![s].total_krw = TotalKrw(c.cart),
                    ![s].total_uzs = TotalUzs(c.cart, c.rate),
                    ![s].exchange_rate_used = RoundHalfUp(rate, Digit)]
    /\ UNCHANGED fx

(* The order, its items and its payment.  *)
PlaceOrder(s) ==
    /\ Pending(s)
    /\ LET c == checkout[s]
       IN  /\ Payable(c)
           /\ checkout' = [checkout EXCEPT
                  ![s].pc = "placed",
                  ![s].age = 0,
                  ![s].total_krw = TotalKrw(c.cart),
                  ![s].total_uzs = TotalUzs(c.cart, c.rate),
                  ![s].exchange_rate_used = RoundHalfUp(c.rate, Digit)]
    /\ UNCHANGED fx

FailOrder(s) ==
    /\ Pending(s)
    /\ ~Payable(checkout[s])
    /\ checkout' = [checkout EXCEPT ![s].pc = "error", ![s].age = 0]
    /\ UNCHANGED fx

(* Not found, not available, out of stock.  *)
RejectOrder(s) ==
    /\ Pending(s)
    /\ checkout' = Delete(checkout, s)
    /\ UNCHANGED fx
-----------------------------------------------------------------------------
Refresh(w) ==
    \/ \E k \in 0..MaxRetries : StartRefresh(w, k)
    \/ \E q \in Quote : Fetch(w, q) \/ RetryFetch(w, q) \/ GiveUp(w, q)
    \/ SkipRefresh(w) \/ Store(w) \/ FailStore(w) \/ LoseWorker(w)

Buy(s) ==
    \/ \E cart \in Carts : ReadRate(s, cart) \/ FailRead(s, cart)
    \/ PlaceOrder(s) \/ FailOrder(s) \/ RejectOrder(s)

Next ==
    \/ Tick \/ LoseTick \/ ExpireRate
    \/ \E k \in 0..MaxRetries : ExpireMessage(k)
    \/ \E v \in Damage : Corrupt(v)
    \/ \E w \in Worker : Refresh(w)
    \/ \E s \in Session : Buy(s)

Spec == Init /\ [][Next]_vars
-----------------------------------------------------------------------------
(* Properties.  *)

Ended(pc) == {checkout[s] : s \in {t \in DOMAIN checkout : checkout[t].pc = pc}}

Abs(n) == IF n < 0 THEN -n ELSE n
Units(cart) == Total(cart, [p \in DOMAIN cart |-> 1])

(* A payment can be recomputed from its own row although the cache changes *)
(* between the reading of the rate and the payment: the total in UZS is    *)
(* that in KRW at the recorded rate, up to half a tiyin for each unit      *)
(* bought (unit prices are rounded, convert_krw_to_uzs) and to the digits  *)
(* of the rate that exchange_rate_used has no room for.  The UZS prices    *)
(* are those of create_order (line 134): price_krw at the rate, never the  *)
(* listed price_uzs, although order_service.py:12-15 has the totals        *)
(* computed from the live price_krw and price_uzs of the product rows.     *)
OrdersReconcile ==
    \A o \in Ended("placed") :
        2 * Abs(o.total_uzs * Scale - o.total_krw * o.exchange_rate_used * Digit)
            <= Units(o.cart) * Scale + o.total_krw * Digit

(* Whatever the cache is corrupted into, the arithmetic of a checkout ends *)
(* in a server error only if the entry was NaN, if it was priced at an     *)
(* infinite rate, or if a total or the rate itself has no room in its      *)
(* column, which a positive entry that is too large brings about as well.  *)
(* An entry that is no positive number is never a rate: it gives the       *)
(* fallback, as Redis being down does ("a corrupt cache entry can't 500 a  *)
(* checkout", get_current_exchange_rate).                                  *)
OnlyBadRatesFail ==
    /\ \A c \in Ended("error") :
         c.entry = NaN \/ c.rate = Infinity \/ ~Fits(c.cart, c.rate)
    /\ \A s \in DOMAIN checkout :
         /\ checkout[s].rate \in {checkout[s].entry, Fallback}
         /\ ~Positive(checkout[s].entry) => checkout[s].rate = Fallback

(* The cache is neither stale nor empty too early: a refresh or two that   *)
(* are missed do not make checkouts fall back, and no order is priced at a *)
(* quote older than the TTL and the one attempt that fetched it (the       *)
(* comment on _RATE_TTL_SECONDS).                                          *)
RateFresh ==
    /\ missed <= 2 => cached # NoRate
    /\ \A s \in DOMAIN checkout : checkout[s].age <= 4
=============================================================================
