# A specification of the uzkormarket backend

The program is a marketplace backend: a FastAPI service (`src/api`) over
PostgreSQL (SQLAlchemy, one session per request), Redis (refresh tokens, FX
rate cache, Celery broker), MinIO (files) and Celery workers. Most of what is
hard to get right in it is not in a function but between two of them: requests
that interleave at their `await`s, rows read without a lock and written later,
messages delivered twice, a process that dies between a commit and what should
follow it. This directory states what the program promises there and checks it.

## The system

| part | state it keeps | operations | interacts with |
|---|---|---|---|
| orders (`services/order_service.py`) | `orders`, `order_items`, `payments`, `products.stock_quantity` | checkout, cancel, reads | locks product rows, queues the confirmation mail, asks for the FX rate |
| products (`services/product_service.py`) | `products` | create, update, soft delete, catalogue reads | the rows checkout reads |
| moderation (`services/admin_service.py`) | `products.is_approved`, `sellers.approval_status`, `users.is_active` | approve and reject products and sellers, ban users, analytics | product rows, Redis, mail |
| refresh tokens (`services/auth_service.py`, `core/security.py`) | Redis keys `refresh:jti:*`, sets `refresh:user:*` | login, refresh, logout, revoke all | `users`, the ban |
| delivery tracking (`workers/delivery_tasks.py`) | `deliveries`, `orders.status` | beat fan-out, sync of one order, event merge | the carrier, the broker, the update mail |
| tasks (`services/_dispatch.py`, `workers/celery_app.py`, `workers/*_tasks.py`) | the queues in Redis | best-effort dispatch, late acknowledgement, redelivery, mails | everything that notifies |
| payments and FX (`services/payment_service.py`, `workers/fx_tasks.py`) | the cached rate | read, refresh, convert | checkout |
| registration (`services/auth_service.py`, `services/seller_service.py`) | `users`, `sellers` | register a buyer, register a seller | the lists of the admins |
| sellers and documents (`services/seller_service.py`, `core/storage.py`) | `sellers`, `seller_documents`, MinIO objects | register, request an upload, confirm it | admins |
| access guards (`dependencies/auth.py`, `dependencies/db.py`) | none | decide on rows read at the start of a request | every route |
| pagination, schemas | none | count and page, validate | every list |

What makes each part correct, and what could break it:

* **Orders.** Stock is sold once, an order appears with its items, payment and
  stock change or not at all, a cancellation restores each unit once. Hazards:
  two checkouts of the last unit, a cancellation racing a payment or another
  cancellation, carts that overlap in opposite orders (deadlock), a seller's
  unlocked PATCH committing over a sale, a crash at any statement.
* **Refresh tokens.** A token that was exchanged or revoked never works again,
  a client only receives tokens that are registered, a banned account gets no
  more. Hazards: everything between two round trips to Redis or PostgreSQL.
* **Delivery tracking.** What is recorded was reported, an arrival ends up
  recorded, the buyer is told. Hazards: overlapping syncs, redelivery, outages.
* **Moderation.** What buyers see was approved as they see it; a decision on a
  seller or a listing is final and announced once. Hazards: unlocked
  read-modify-writes of the same row by sellers and admins.
* **Documents.** Bytes only arrive under a key some row names; one
  confirmation, one notice. Hazards: retries and overlapping confirmations.
* **FX and prices.** A corrupt or missing cached rate must not fail a checkout;
  a cart is priced at one rate, and the recorded amounts reconcile with the
  recorded rate. Hazards: a cache that changes during a checkout, missed
  refreshes, NaN and Infinity, rounding, the width of the columns.
* **Tasks and mails.** A message on the broker is run to an end, a mail fits the
  change that caused it. Hazards: workers that die, repeated and overlapping
  runs, rows that change between the commit and the mail, retries without end.
* **Registration and lists.** One account for an email and for a registration
  number, a seller's account and its seller row together or not at all; an admin
  who pages through a list sees all of it. Hazards: INSERTs that race and are
  rolled back, rows that come and go between COUNT, SELECT and the next page.

`PROJECT.json` lists the components with what is and is not modelled, and under
`hazards` every such hazard at its line, with the properties that watch it.

## The modules

| module | models | corresponds to the code as follows |
|---|---|---|
| `Tables` | what is used of PostgreSQL and SQLAlchemy | a table is a function from ids to rows; `Flush` is the unit of work's UPDATE, which writes only the columns whose value differs from the loaded copy |
| `OrderLedger` | the abstract shop | a checkout, a cancellation, a settlement or a product write is one step on `product`, `order`, `payment` |
| `Checkout` | `create_order`, `cancel_order` and the writes to product rows they race with | one action per SQL statement that locks a row, per flush, commit and dispatch; row locks are derived from what a transaction has read FOR UPDATE |
| `Cart` | `_consolidate_cart` | a payload is a sequence of lines, the cart a function from product to quantity; the carts of the runs are built with it |
| `AuthSession` | login, refresh, logout, ban over `RefreshTokenStore` | one action per round trip; a MULTI/EXEC pipeline is one step; a token is its jti |
| `TaskQueue` | what `workers/celery_app.py` promises | the jobs a service has still to send, the messages of each job on the broker, the message of each busy worker, and the jobs that are owed: published, and no run of them at its end since; `NoneLost` says that an owed job is on the broker or being run, `NeverLoses` that no step makes it false |
| `Mailer` | the mail tasks and `send_email` | the commit, the dispatch, and in the worker the load of the row and the send are steps; a row is the number of its changes, a mail the version of the row it shows and of the reason it quotes |
| `FxRate` | `update_exchange_rates`, `get_current_exchange_rate`, `convert_krw_to_uzs`, the pricing in `create_order` | the tick, fetch and SET of a refresh, the GET and the pricing of a checkout are steps; time passes in refresh periods; rates and amounts are integers with a scale |
| `Directory` | `register_buyer`, `register_seller`, `list_sellers` over `paginate` | one action per INSERT, which waits where a unique index makes it, and per COUNT and SELECT of a page |
| `DeliverySync` | `sync_active_deliveries`, `sync_delivery_status`, the update mail | the load (two SELECTs), the carrier call, the commit and the dispatch are steps of a worker; messages are counted |
| `Moderation` | `product_service` writes and `admin_service` decisions on listings | a request loads a row without a lock, holds its copy, and commits the columns it changed, or aborts |
| `Onboarding` | `register_seller`, the decisions on sellers, the upload handshake, the approved-seller guard | load, commit and announcement (or answer) of each request are steps; the presigned URL, the client's PUT and the objects in MinIO are state |
| `MC*` | instances of the module they name | the carts, initial rows, journeys and symmetries of the runs |
| `Checkout_proofs`, `AuthSession_proofs`, `DeliverySync_proofs`, `Moderation_proofs`, `Onboarding_proofs`, `FxRate_proofs`, `Mailer_proofs`, `Directory_proofs` | | the theorems about the module they extend |

`Checkout` extends `OrderLedger`, whose variables and row types it shares, and
is shown to implement it with the identity as refinement mapping: the abstract
steps are those of the transactions that commit. `DeliverySync` and `Mailer` are
two implementations of `TaskQueue`, which neither extends: each instantiates it
with its own messages and runs. The contract ties an acknowledgement to the end of a
run: a message leaves the broker only for a worker, and leaves the worker only by
an end (`Ack`, after which the job is no longer owed), a counted retry, or the
death of the worker, which puts it back. A message that is acknowledged when it
is taken, and is gone with its worker, is a step of neither, and `NeverLoses`
fails. The definitions commented
"Fault" are plausible bugs (a lock left out, a check dropped, an order
changed); they stand next to the definition they would replace, are used by
nothing, and each property is checked to fail when one of them is put in place.

### Checkout

`tx` maps each busy session to its transaction: the operation, the statement it
is at, its cart and `seen`, the ORM copies of the rows read FOR UPDATE.
`StartCheckout`, `LockProduct` (one row of `SELECT ... ORDER BY id FOR UPDATE`
at a time, so waiting in the middle is visible), `RejectCheckout`,
`FlushCheckout`, `CommitCheckout`, `DispatchConfirmation` are the statements of
`create_order`; `StartCancel`, `RefuseCancel`, `LockOrder`, `LockProduct`,
`CommitCancel`, `OverflowCancel` those of `cancel_order`. `Crash` is the loss of
a request at any point. `writer` maps a staff session to a product row loaded
without lock (`LoadUpdate`, `LoadDelete`, `LoadApprove`, `LoadReject`) that
`CommitWrite` flushes. The payment gateway is not in the repository:
`CapturePayment` stands for the callback the order statuses provide for.
Prices, titles and images are left out except for one price column, which an
order item copies. Buyers' sessions, staff sessions, products, orders and
buyers are parameters.

### AuthSession

`whitelist` is the set of jtis with a key, `index` the per-user sets, `req` the
requests being served. `Fail` may end a request at any step: Redis is down, the
process dies or the answer is lost. `Expire` drops a key with its token (one
TTL for both). `registered`, `loggedOut`, `parent` and `swept` are history
variables that no action reads. Passwords, signatures and roles are left out.

### DeliverySync

`parcel` is how far along its `journey` the carrier has each parcel; the event
log is the set of points of the journey it contains, so `_merge_events` is a
union. `RetrySync` is `autoretry_for` (the database or the carrier cannot be
reached), `LoseWorker` a worker that died before it acknowledged, wherever it
was, `Redeliver` the visibility timeout that hands a message out again while its
task still runs, `GiveUp` a task out of retries or an error that is not retried,
`LoseDispatch` and `LoseMail` broker outages that `dispatch_task` swallows. Only
those updates that say DELIVERED are remembered in `told`; `owed` and `unmailed`
are history variables that no action reads.

`Queue` instantiates `TaskQueue` with one job for each order, its sync: `asked`
is the rest of the fan-out, and a sync is owed from its dispatch until a run of
it ends. How often a sync was retried is not counted here (the number matters to
`Mailer`'s liveness only), so a retried message goes back as it was, the step
`Return` of the contract. An order is owed once however many syncs of it are
queued, so what is promised is that one of them comes to its end. The steps
inside a sync, the carrier and the mails are stutters there.

### Mailer

`config` holds the settings that decide what becomes of a mail: no `SMTP_HOST`
logs it, no sender address drops it, no admin addresses ends a notice. `Commit`
is any service that commits a change and then dispatches a mail about it,
`Edit` one that tells nobody. Which arguments a task takes is kept: a rejection
and a ban carry their reason, everything else is read from the row by
`LoadRow`. `RetryMail` and `GiveUp` follow `autoretry_for` and `max_retries`,
with SMTP failing before or after it took the mail; `FailMail` is an error that
is not retried. `Queue` instantiates `TaskQueue` with one job for each email,
retries counted; `owed` is a history variable.

### FxRate

`cached`, `ttl` and `age` are the Redis entry; `NextPeriod` is a beat tick and
`Tick` and `LoseTick` whether the broker took its message. `CurrentRate` is what
`get_current_exchange_rate` may return for an entry, the fallback among it
because Redis may be down at any read; for NaN it has no answer and `FailRead`
is the server error. `PlaceOrder` computes the three amounts as the code does:
the UZS price of a unit is rounded half up, multiplied and summed, and the rate
is rounded to the digits of `exchange_rate_used`. `Fits` says that both totals
and the rate have room in their columns, `Numeric(18, 2)` and `Numeric(18, 6)`;
if not, the flush or the commit is a server error (`FailOrder`). The 28 digits
of Python's decimal context are left out: they only matter for rates and amounts
far beyond the columns, or for the last digit of a rate with more than that.

### Directory

`request` is a registration with the rows its transaction has inserted;
`EmailPending` and `BrnPending` are the waits of the unique indexes,
`Refuse` the IntegrityError, `Fail` every other end. `created_at` is `now()`,
the start of the transaction, so rows may appear in the list below others, and
tie. `walk` is an admin who reads page after page; its `listed` and `disturbed`
are history.

### Moderation

`listing` holds the product rows: two columns of content, `is_active`,
`is_approved`, `approved_by` and `rejection_reason`. `LoadUpdate`, `LoadDelete`,
`LoadApprove` and `LoadReject` are everything `update_product`,
`delete_product`, `approve_product` and `reject_product` do before their commit;
`Commit` is the UPDATE, `Abort` a request that dies or whose UPDATE PostgreSQL
refuses. `raced` remembers the listings that were written to from a copy that
was no longer the row; no action reads it. The approval of the seller who edits
is in `Onboarding`; stock and its locks are in `Checkout`.

### Onboarding

A decision is `LoadApprove` or `LoadReject`, `CommitDecision`, `MailDecision`; an
upload is `StartUpload` (the URL is signed, nothing is stored), `CommitUpload`,
`RespondUpload` (only now the client can use the URL), then `Put` at any time
until `ExpireUrl`; a confirmation is `LoadConfirm`, `CommitConfirm`,
`NotifyAdmins`; a listing is `EnterListing` (the guard reads the seller row) and
`InsertListing`. `vetted` remembers for which sellers an approval was committed,
and `raced` which rows were written to from a stale copy; no action reads them.
`Fail` ends a request at any step: a crash, or a broker that
refuses the message. A document id stands for its row and its object key, which
the code makes unique with a UUID.

## The runs

Each run of `PROJECT.json` asks one question.

| run | question | bounds, and why they are enough |
|---|---|---|
| `checkout_orders` | do overlapping checkouts and cancellations behave as if atomic, never deadlock, mail only what exists, and is every request answered though it waits for locks? | two sessions, three products of two sellers, two orders, five kinds of cart (one line, two in either order, a repeated product, two sellers, an unknown id): every pair of conflicting statements and every rejection occurs; one or two units of product 1 make the last one contended |
| `checkout_staff` | does that survive unlocked writes by sellers and admins, and is every unit kept? | two buyers' sessions and one staff session on one row, two prices, stock patched to 0 and to the top of the column, which reaches the overflow |
| `auth_session` | do dead tokens stay dead, are delivered tokens registered, what does a ban leave? | two concurrent requests, three tokens, two accounts: a login and a refresh, two refreshes of one token, a ban during either |
| `delivery` | is what is recorded true, without holes, does an arrival end up recorded, is the buyer told, is a queued sync never lost? | one order (orders do not interact), two workers that may die, fail and retry at every step, a queue of one, a journey of three reports and one with an exception |
| `fx` | do orders reconcile, which entries fail a checkout, does the cache outlive missed refreshes? | two workers whose runs overlap, one checkout (checkouts share only the cache, which they do not write); a rate with one digit more than its column holds, each kind of entry that is no number, zero, a small rate and one that its column has no room for; a cart of three units and one whose totals do not fit (at the small rate the KRW total alone does not); five periods are more than the TTL and a run together |
| `mailer` | do mails fit their cause, do they come to an end, is a queued mail never lost? | one row, two changes of it, a mail with a reason and one to the admins (other kinds take the same branches), two workers, two retries, one loss: a job may be taken twice and overlap itself, or go back with its dead worker |
| `directory` | is an account one and whole, is a refusal justified, is a walk complete? | three accounts, "Ann" and "ann" among four addresses, pages of one and of two, three instants: a page can shift in the middle of a walk |
| `moderation` | do content, deletions and the lifecycle survive requests that overlap? | two requests on one listing (listings do not interact), two admins, two values for each column, one reason: every pair of operations overlaps in every order |
| `onboarding` | do bytes have their row, are announcements made once, do decisions stand, does only a vetted seller list? | three requests about one seller and one document, two admins: two decisions race while a third request lists, uploads or confirms |
| `only_one_racer_wins`, `statuses_settle`, `edit_clears_approval` | does the code do what its comments say? | the smallest instance in which it does not |

The carts of a run are finite sets, quantities at most 2 (but for the cart of 200
units whose totals overflow) and `MaxStock` stands for the top of the INTEGER
column; `MaxQueued` bounds the messages of an order or with one retry count,
`MaxLosses` the deaths of workers and repeated deliveries, `MaxVersion` the
changes of a row, `MaxPeriods` the periods that ages and ttls count to,
`MaxClock` the instants at which rows are created; `Jti` and `OrderId` bound how
many tokens and orders are ever created. Deadlock is checked except in `mailer`
and `directory`, which stop when every change is made and every mail is at its
end, or every account is decided and the walk is done. Symmetry is only used in
runs without liveness.

## What the code says and does not do

* Two refreshes with one token both succeed (`OnlyOneRacerWins`): the whitelist
  is checked with EXISTS, and `rotate` deletes the key without looking whether
  it was still there.
* A ban can leave a live token: a login or refresh that read the account before
  the ban registers its token after the sweep, or between the SMEMBERS and the
  DEL of the sweep. `BanRevokesEarlier` exempts every token that was
  registered after the ban was committed, also one the sweep could have found,
  and `LockoutHolds` shows that such a token cannot be used to get another one.
* A stale sync sets a DELIVERED order back to SHIPPED and can leave a delivery
  IN_TRANSIT whose order is DELIVERED, or a DELIVERED delivery whose order is
  SHIPPED; neither is polled again, so they disagree for ever
  (`StatusesSettle`). What remains true is that one of the two says DELIVERED
  (`DeliveryRecorded`).
* An edit does not always clear the approval (`EditClearsApproval`): loaded
  while the listing is pending, it writes no `is_approved`, and an approval that
  commits first puts the edited content live without a review.
* A worker that dies between the commit and the dispatch leaves a buyer who is
  never told: the redelivered sync sees no change. `BuyerTold` exempts that and
  a broker outage, for the rest of the order's history (an order of which any
  update was once lost is in `unmailed` for good), and shows that nothing else
  keeps a delivery from its mail.
* Overlapping syncs overwrite each other's log: the newest events can be lost
  until the next poll, and for good once the delivery is not polled any more.
  `LogHasNoHoles` says only that what is left has no gap.
* A cached NaN or Infinity fails a checkout with a server error, although
  `get_current_exchange_rate` means to fall back on any corrupt entry, and an
  infinite quote of the provider passes the task's check and is cached. A corrupt
  entry that is a positive number is taken for the rate, and fails the checkout
  if it, or a total at it, is too large for its column; the KRW total can be too
  large at any rate. `OnlyBadRatesFail` says that these are the only ways the
  arithmetic fails, and that an entry that is not positive or does not parse
  gives the fallback.
* `order_service.py:12-15` says that checkout reads the live `price_krw` and
  `price_uzs` of each product row and computes the totals from them. It never
  reads `price_uzs`: line 134 converts `price_krw` at the rate of the moment. The
  `price_uzs` a seller sets (`product_service.py:125`, any amount) is what the
  catalogue shows and not what is charged, unless it happens to be `price_krw`
  times the rate. `OrdersReconcile` states what the code does, so the listed
  `price_uzs` appears in no model; that a listing and a charge agree is not
  checked anywhere because nothing in the code makes them.
* `exchange_rate_used` has six decimals, so a quote with more is recorded
  rounded, while the totals are computed with all of it; `OrdersReconcile`
  allows for that difference and for no more.
* Decisions on a listing or a seller that overlap are not stopped by a lock: a
  rejection can leave an approved listing live with a reason, two admins can
  decide one seller both ways and mail both, and a listing can be inserted after
  a racing rejection. `LifecycleKept` and `DecisionStands` exempt the rows that
  were written to from a stale copy (`raced`), so these are not among what they
  rule out; `OnlyVettedList` holds of them, too.
* An admin who pages can miss a seller: if one was decided in the meantime, if
  one registered between a COUNT and its SELECT, or if two were created at the
  same instant (the order by `created_at` has no tie-breaker). `WalkComplete`
  exempts these.

## Fairness

`Checkout!FairSpec` assumes strong fairness of the steps of a request being
served: the event loop runs every ready task, and PostgreSQL queues the waiters
of a row lock, so a row that becomes free again and again is granted. Nothing
is assumed of requests that have not started, of crashes or of staff.

`DeliverySync!FairSpec` assumes that Celery beat keeps ticking (it is a
schedule), that the broker takes some of the messages it is offered, and that
of infinitely many loads, carrier calls and commits that could be made some
are: a carrier or a worker that fails every single time would defeat any code.
`MailFairSpec` adds that SMTP does not fail every single time. The
counterexample to `StatusesSettle` satisfies this fairness.

`Mailer!FairSpec` is a single weak fairness: while a worker can take a message or
go on with its task, some worker does (Celery's processes are restarted when
they die). SMTP may fail for ever. Deaths and redeliveries are bounded by
`MaxLosses`: a message whose worker dies every time is in the queue for ever in
the code, too.

## What is proved

Every safety property of the passing runs, and the three refinements, are
theorems, for every value of the constants that satisfies the named assumptions;
each `*_proofs` module has the theorems of the module it extends. The argument
is the same everywhere: an inductive invariant `IInv`, checked with TLC on the
instance of the run before it was proved, one lemma per action that `IInv`
survives it, theorem `Invariance`, and each property from `IInv`. None of the
properties is inductive by itself, except type correctness in most modules; what
has to be added is what a request, a worker or a client that is halfway through
knows of state that the others go on changing.

**`Checkout_proofs`**: `TypeCorrect`, `CopiesStayCurrent`
(`LockedCopiesCurrent`), `MailFollowsCommit` (`MailOnlyPlaced`),
`DeadlockFreedom` (`NoLockCycle`, for any number of transactions),
`StockReconciles` (the action property `UnitsConserved`) and `Refinement`
(`RefinesLedger`: every step is a step of `OrderLedger` or none). `IInv` is
`TypeOK`, what one transaction knows (`Sound`: its statement order, that it has
locked the first products of its cart in ascending order, that its copies equal
the rows, that a flushed cart can still be placed, that its order exists
exactly when it has committed, that the order it cancels is still pending), and
that two transactions never know the same row (`Apart`). A step of one session
preserves what the others know because everything they know is about rows they
hold. `DeadlockFreedom` looks at the products that the transactions of a circle
wait for: finite and not empty, they have a greatest (`Greatest`), and whoever
holds that one waits for a greater, because locks are taken in ascending order.
`UnitsConserved` is what says that no sale is lost to a seller's or an admin's
unlocked write: the ledger's own product write may set any row, so `RefinesLedger`
alone would not see it. `StockReconciles` counts the units of an order as the pairs of the order and a
number and so needs no sum over a table.

**`AuthSession_proofs`**: `TypeCorrect`, `DeadTokensStayDead`,
`DeliveredAreRegistered`, `BanLocksOut` (the action property `LockoutHolds`),
`BansRevoke` (`BanRevokesEarlier`). `IInv` says that the tokens carried by
requests in flight are pairwise distinct, belong to the request's user and are
not delivered yet (`Sound`, `Apart`), and that only delivered tokens are ever
exchanged or logged out (`Delivered`): a token that dies has been delivered, a
token that is registered has not, so they never meet. `BansRevoke` has a second
invariant (`BanInv`) over the first: every whitelisted token that no request
registered after its ban is in the index of its user until a sweep has found it,
so what the sweep reads is all there was.

**`DeliverySync_proofs`**: `TypeCorrect`, `RecordedWasReported`
(`NothingInvented`), `LogsHaveNoHoles` (`LogHasNoHoles`), `QueueRefinement`
(`RefinesQueue`). The rows, and everything a running sync holds however old it
is, are backed by what the carrier has reported (`Backed`), which it never takes
back; a union of logs without holes has none. For the queue, `Kept` says that an
order that is owed has a message or a run (`SyncsKept`): only an end takes a run
away without leaving a message, and then the order is no longer owed. `QueueStep`
maps every action to its step of `TaskQueue`, and `NoneLost` is
`Kept` under the mapping, which gives `NeverLoses`.

**`Moderation_proofs`**: `TypeCorrect`, `LifecyclesKept`, `DeletionIsFinal`,
`EditsSurvive` (`NoEditLost`). The invariant (`Honest`) says in which columns the
copy of a request may differ from the row it loaded; `FlushColumns` says that
the UPDATE writes these columns and no others. Nothing relates the copy to the
row, which other requests may have changed since.

**`Onboarding_proofs`**: `TypeCorrect`, `UploadsAreRecorded` (`BytesHaveRow`),
`AnnouncementsNotRepeated` (`AnnouncedOnce`), `DecisionsStand`
(`DecisionStands`), `ListersWereVetted` (`OnlyVettedList`). `Knows` is what each
kind of request knows between its steps; it survives the others because a
commit that is not from a stale copy never undoes a decision or an upload
(`Stands`); that an approved row is a vetted one (`VettedOnly`) survives even
stale copies, because an UPDATE writes the status APPROVED only for a decision
that is an approval. `Once` counts an announcement together with the request that is
about to make it.

**`FxRate_proofs`**: `TypeCorrect`, `TotalsReconcile` (`OrdersReconcile`),
`RatesAreFresh` (`RateFresh`), `OnlyBadEntriesFail` (`OnlyBadRatesFail`).
`Clocks` balances the TTL with the periods missed and with the age of the quote,
`Knows` keeps with a checkout the entry its rate came from.
The totals are sums over a cart of any size: `TotalIsSum` shows that the fold of
the community modules has the value its recursion says, and `SumsReconcile` that
the rounding of units adds up to half a unit for each, both by looking at a
smallest subset of the cart of which it fails (`Smallest`), which
needs no induction scheme.

**`Mailer_proofs`**: `TypeCorrect`, `MailsFitTheirCause` (`TextMatchesCause`),
`QueueRefinement` (`RefinesQueue`). An email is in the queue or in a worker once,
and once more for each loss (`Counted`; messages are counted as sets of copies,
so that a publication and a retry add or move one element), which bounds the
queue; a message is only there after its change is committed, and what a run
has loaded is no older. `Kept` (`MailsKept`) and `QueueStep` are as in
`DeliverySync_proofs`, with the retries counted.

**`Directory_proofs`**: `TypeCorrect`, `AccountsAreWhole` (`AccountsWhole`),
`ConflictsAreReal` (`RefusedOnlyForTaken`), `WalksAreComplete` (`WalkComplete`).
`EmailIndex` and `BrnIndex` say of the rows that are committed and of those that
only their transaction sees that no two have one key; `Behind` says of a walk
that whatever it has not shown yet has at least a page of newer rows before it
for each page that was read. `Place` turns the number of newer rows of a row
into its place in the list, `PagesCover` does the arithmetic of `total_pages`.

The theorems rest on the assumptions named in the modules: a missing value
(`NoJti`, `Nobody`, `NoReason`, `NoRate`, `NoBrn`) is not a value, sets that are
counted are finite, product ids are integers, carts are finite with positive
quantities (of at most `MaxQuantity` in `Checkout`), prices are natural numbers,
the lower-case form of an address is its own lower-case form, the shop starts
with rows that are rows, and `MaxPeriods` is no less than a TTL, so that a bound
on the model is never what keeps a rate fresh.

Only model-checked: liveness (`RequestsAnswered`, `DeliveryRecorded`,
`BuyerTold`, `QueueDrains`), which rests on fairness and ENABLED and so is out of
the prover's reach, and the three counterexamples, which are runs and not
theorems.

## Not modelled

Reads without effect (details, the catalogue, analytics, lists other than the
one of `Directory`, which use the same `paginate`), schemas' validation of
shapes, passwords and signatures, the wording of mails and the PDF of a receipt,
configuration other than the settings named above, migrations other than the
constraints the models rely on, containers and monitoring.

Stock set from a stale dashboard, an order placed twice by a client that
retries, a payment captured for a cancelled order, a listed UZS price that is not
the one charged, a lost tail of an event log, and decisions that overwrite each
other are listed as hazards without a property: the code offers nothing against them and promises nothing.
What one step of one request does wrong (null columns sent by a PUT, the
carrier client that answers PENDING instead of nothing) is left to unit tests.

## Plan

1. `Cart` against a reference definition of the consolidated quantity, over
   bounded payloads.
2. The safety half of the liveness properties as theorems: that a request that
   waits for a lock always waits for one that can move (from `NoLockCycle`), and
   that a DELIVERED report is never dropped without a message or a run left to
   record it, which are the facts `RequestsAnswered` and `DeliveryRecorded` add
   fairness to.
