# Verification of the Stroyopttorg shop backend

TLA+ models of the orders, payments, stock, prices, carts, catalogue, cached
pages, accounts and staff forms of the backend (`src/`, a
Django application with a Celery worker, a beat scheduler, PostgreSQL, Redis
and the external payment gateway Fintechhub), checked with TLC on small
instances and proved with TLAPS for every instance. Paths below are relative to
the Django project, `src/src/`.

## 1. The system

| Component | State | Operations | Hard behaviour |
|---|---|---|---|
| Orders (`apps/orders`) | `Order.status`, `payment_method`, `paid_at`, `created_at`, items | checkout, customer cancel, unpaid-order expiry (beat, every 5 min), staff `set-status`, staff edit, Django admin | five actors write one row, only two of them lock it |
| Payments (`apps/payments`) | `Payment.status`, `merchant_prepare_id`, `merchant_confirm_id` per gateway transaction | `start_payment`, card-token charge, QR and invoice, `handle_prepare`, `handle_complete`, `_apply_refund`, `sync_payment_status` | callbacks repeated, late or before the request that opened the session; answers lost; a sync without a transaction |
| Gateway (external) | its own record of each transaction | opens, prepares, charges, rejects, reverses, voids; calls back until answered | seen only through its calls |
| Stock (`catalog.Stock`; the services of `apps/catalog/services.py` have no caller) | units on hand, display status | taken at checkout, returned by cancellation, expiry, reversal; set by staff, who save whole rows | returned twice, lost, sold twice; a badge that contradicts the number |
| Pricing (`apps/discounts`) | promo codes with a usage limit, discount tiers | price breakdown, promo validation | rounding, limits passed together |
| Carts (`apps/carts`) | lines, promo code, owner | add, set, remove, clear, apply a code; merge at login (no caller) | lost updates, stale prices, one cart checked out twice |
| Guests (`apps/carts/sessions.py`, `apps/geo`) | sessions, whose cart and orders, cities and zones | create a session and a cart, order, list and look up orders; staff move cities | first requests at once, sessions that expire, a city that moves during a checkout |
| Comparison (`apps/carts/compare_services.py`) | rows per owner, limit and category | add, remove, clear; ad hoc comparison | three questions before an insert, without a lock |
| Catalogue (`apps/catalog`, `apps/reviews`) | categories, products, stock rows, attributes, reviews | listings, filters, counts, cards, comparison; staff edits | the same figure computed in several places; pages that shift under a reader |
| Home cache (`apps/content`) | one cached payload per cache | fill on read, delete after commit, lifetime | stale fill after an invalidation, lost deletions |
| Accounts (`apps/users`) | one-time codes, attempts, tokens; addresses | issue, resend, verify, reset password (no view calls them); staff forms | two guesses at once, a login during a reset, two default addresses |
| Gateway desk (`apps/payments/gateway.py`, `operations.py`, `api/payments`) | settings of the process, one request | the staff's proxy, card, QR and invoice calls, callbacks' way in, probes | servers that are lost, answers that never come, credentials that are missing |
| Leads, profile pages, wishlist, e-mail | stored rows | generic create and update, or commented out | none worth a model |

How they interact: checkout reads the cart, prices it, takes stock and creates
the order in one transaction. A payment request calls the gateway and stores a
`Payment`. The gateway calls `prepare_url` and then `complete_url`; each handler
runs in one transaction that holds the order's row lock. The expiry takes the
same lock, order by order. The customer's cancellation, the staff and
`sync_payment_status` write the order *without* that lock.

What makes each part correct:

* money: the shop calls an order paid, or a payment refunded, only when the
  gateway did charge it, or let it go; no order is charged twice; what the gateway was told
  is done is done;
* stock: an order takes all its units or none, holds them while it lives, gives
  them back once, and no unit is lost or sold twice;
* an order that was closed stays closed; an unpaid card order does not hold its
  stock for ever; a charge that arrives too late does not stand;
* prices: lines add up, no discount exceeds what it discounts, limits hold;
* what is shown: figures computed in several places agree, a page that is stale
  is so for a known reason and a known time, a walk through a listing misses nothing;
* whose it is: a guest sees their own cart and orders only, a code is spent once,
  an answer tells what the gateway did.

`PROJECT.json` lists the hazards at their lines, with the properties that
would notice them.

## 2. Modules

### OrderPayments

State: per order its `status`, whether it is a `card` order, is `paid`
(`paid_at`), is `aged` (older than `UNPAID_ORDER_TTL_MINUTES`); the `stock`
rows; per gateway transaction the `payment` row (status, prepare id set, confirm
id set) and the gateway's own `session`; per web worker the request it serves
(`job`: what was read and not yet written); the `batch` the expiry has still to
visit. Three history variables (`returned`, `released`, `acked`) record what
properties speak about and no guard depends on, except for the bound below.

A step is one transaction where the code holds a lock or decides inside the
database, and one statement where it does not:

| Action | Code |
|---|---|
| `Checkout` | `create_order_from_cart` (stock rows locked: one step) |
| `CancelRead`, `CancelSave` | the view's `get_object()`, then `cancel_order`, which judges the object it was given |
| `StartRead`, `OpenSession`, `SaveSession` | `start_payment` before, at and after its call of the gateway |
| `CardRead`, `OpenSession`, `RecordCharge` | the card-token charge, likewise |
| `OpenUnrecorded` | QR codes, invoices and the staff gateway console: a session the shop does not store |
| `Age`, `Scan`, `Release`, `ExpiryStops` | `release_expired_orders`: the query, one locked re-read per order, the task's time limit |
| `Prepare`, `Complete` | `handle_prepare`, `handle_complete` with `_apply_refund`; `heard = FALSE` is a lost answer |
| `Charge`, `Reject`, `Reverse` | the gateway's own moves |
| `SyncRead` ... `SyncOrder` | `sync_payment_status`, statement by statement |
| `SetStatus`, `EditRead`, `EditSave` | staff `set-status` (one column); PUT, PATCH or admin form: `paid_at` as it was read, and the status that was read or shown unless another is named; the admin list reads its rows again and keeps the status alone |
| `Crash` | a worker dies, or its call of the gateway fails |

The handlers are operators of what they find (`PrepareOutcome`,
`CompleteOutcome` with its exits), so that what a callback does can be stated,
checked and proved apart from when it comes. Definitions whose names carry a
suffix after an underscore (`Release_unread`) are mistakes: each shows that a property
can notice a plausible bug, and no specification uses them.

Left out: amounts and signatures (early returns that change nothing;
`GatewayDesk` has them), who owns an order (`Visitors`), addresses, item
snapshots, the display status of a stock row (`Inventory`).

### Reservation

The abstract promise about stock: `Reserve` takes an order's units at once,
`Return` gives all of them back, once. `OrderPayments` implements it, with the
live orders as `held` and the closed ones as `ended`, when its actors lock, an
order has one session and callbacks are not overtaken (`OrderlyNext`).

### Checkout

`OrderPayments` takes a checkout, and a restock, as one step. `Checkout` opens
them up: a step is one statement of `create_order_from_cart` or `restock_order`,
or several that touch nothing another request can see. State: how far each
request has come (`pc`), the lines it read (`items`), whether it carries the
promo code (`carries`); the carts; the committed `stock` and `used_count`; and
the row locks, as the owner of each row (`holder`) and the row a request waits
for (`want`).

| Action | Code |
|---|---|
| `Read` | `resolve_cart` and `cart.items.all()`, without a lock |
| `Ask`, `Granted` | a statement locks one more of its rows, or waits for its owner's transaction to end |
| `Judge` | the comparison with the stock, the pricing, the code dropped when it is used up |
| `Commit` | order, items, decrements, `used_count`, `clear(cart)`: written under locks, seen at once |
| `StartReturn`, `CommitReturn` | the transaction of a cancellation, expiry or refund around `restock_order` |
| `Fail`, `Victim` | the worker dies or the city is refused; PostgreSQL aborts a transaction of a cycle |

`Ask` takes the rows in any order, because the query at `orders/services.py:138`
has no `ORDER BY` and a restock goes by the items of its order. `Checkout`
implements `Reservation` too (`ReservesAllOrNothing`). Lines change only by
checkouts here; their other changes are in `Carts`.
The rows of the cart itself are written last, when a transaction waits for nothing
more, so their locks are left out.

### Pricing

`PricingService` as operators without state, in integer cents: `Money` (half
up), `ActiveTier`, `TierDiscount`, `Usable`, `PromoDiscount`, `Breakdown`.

### Carts

One cart and the requests of its owner. The services of `apps/carts` read and
then write without a lock, so `add_item`, `apply_promo_code` and the checkout
are two steps each (`AddRead`, `AddWrite`, ...); the others write what does not
depend on what they read and are one step. `line` keeps the quantity and the price stored
with it, `price` the catalogue's; `lost` marks an addition whose row is deleted
before it is saved, which `save(update_fields=...)` refuses to bring back. A
checkout is priced by `OrderPrice`, the cart by `CartPrice`, both through
`Pricing!Breakdown`. Stock is left to `Checkout`: a request refused for want of
it ends as one that gives up (`GiveUp`).

### Visitors

Sessions, carts and orders of guests, statement by statement: `Send` (a browser
sends what its cookie says), `LoadSession`, `ResolveCart`, `CreateCart`, `Fill`,
then for a checkout `ChooseCity`, `DrawNumber`, `Place`, and `ListOrders`,
`ShowOrder` for the orders; `Respond` brings the cookie back, `GiveUp` loses it.
`Expire` ends a session (Django never renews it: two weeks after its creation).
`MoveCity` and `RepriceZone` are the staff's. `calm` marks the visitors who
have so far waited for each answer.

### AddressBook

`Address.save` under the staff's forms: `Save`, `Take` (a row's lock), `ClearOthers`,
`ClearNext`, `CommitSave`, `DeleteAddress`, and `Victim` when two forms wait for each
other. `together` is a history variable: pairs of rows inserted by
transactions that overlapped.

### Inventory

The rows of `Stock` under every writer: `DeductLine`, `ReturnLine` (the service
of `apps/catalog`, in the order of the ids), `RestockLine` and the sales of
`apps/orders` (in any order), `Commit` with the badge derived again
(`Written`, from `Stock.save` and `_refresh_stock_statuses`), `Abort`, and the
staff's `OpenForm`, `SaveForm`, `CreateRow`, `DeleteRow`. A form saves what it read.

### Catalogue

The stored tree, products, reviews and attributes with the staff's edits as
actions (`EditCategory`, `DeleteCategory` with its cascade, `EditProduct`,
`SetStock`, `Moderate`, ...), and everything the storefront computes from them
as operators: `CategoryList`, `CategoryTree`, `ProductCount`, `Card`, `RatingSummary`,
`Listed` with its filters, `ComparisonMatrix`, `RelatedProducts`. One customer
walks through a listing page by page (`OpenListing`, `NextPage`) while rows
change; `walk` keeps what was due, seen, seen again, came and left.

### Comparison

The saved comparison under several requests: `AddOpen`, `AddCategory`,
`AddCount`, `AddInsert` are the statements of `add_to_compare`; `Remove`,
`Clear`, and the staff's `Move`, `Toggle` and `DropCategory`. `raced`: an insert
came between another request's questions and its insert.

### HomeCache

A visit misses (`Miss`), reads section by section (`Read`) and stores (`Put`);
an edit begins, writes, commits or is rolled back, and deletes the payload
after its commit (`Invalidate`) unless its process dies first (`Lose`). `Tick` is
a minute: payloads age and expire, `behind` counts for how long what a reading
shows has been outdated. One Redis, or a cache per process (`storeOf`).

### Accounts

One account's codes, guesses, resets and tokens, with the transactions of
`apps/users/services.py` opened up: `ResendRead` / `ResendLock`,
`IssueWithdraw` / `IssueCommit`, `Ask` / `TakeCode` / `Wrong`, `Verified`, `Confirmed`,
`ResetTake` / `ResetRevoke` / `ResetCommit`, `Login` / `IssueTokens`; `Fails` and `Tick`.
No view calls these services today; the requests are those they are written for.

### GatewayDesk

One process: `Start` with an environment it accepts, `Stop`, `Health`; servers that
are lost and restored; and one request at a time from `Arrive` through
`Dispatch` (permission, throttle) and its view (`ProxyCall`, `CardCall`,
`OrderCall`, `InvoiceStatusCall`, `Header`, `Callback`) to the gateway (`Exchange`)
and back (`Reply`), whose answer is a success, an error, no JSON, nothing, or JSON the
code cannot use (`odd`). `OPERATIONS` and `FintechhubClient` are the two tables
that the proxy's check and the client keep by hand. A request may be `odd` as well: it
holds a value that passes every check before a line that raises on it
(`MayBeOdd`; for callbacks `CallbackRaises` and `MayRaise`, which take the field that
is at fault). A callback's signature is judged by what it was made with: the secret, and a
row of values joined without separators, which may be cut into fields in two ways.

### MC modules and proofs

`MCOrderPayments`, `MCCheckout`, `MCCarts`, `MCHomeCache`, `MCStorefront`,
`MCBackOffice`, `MCGuests` are the instances for TLC. The last three hold several
modules that share no variable; a variable `part` chooses the one a behaviour
runs, because interleaving them would add states and nothing else.
`...Proofs` hold the lemmas and theorems of section 5: `OrderPaymentsProofs` and
`LockingProofs`, which extends it, `CheckoutProofs`, `PricingProofs` (with the
lemmas about sums, which `CheckoutProofs`, `LockingProofs` and `CartsProofs` use), `CartsProofs`,
`HomeCacheProofs`, `StorefrontProofs` (`Catalogue`, `Inventory`, `Comparison`) and
`PeopleProofs` (`GatewayDesk`, `AddressBook`, `Accounts`, `Visitors`).

## 3. Runs

| Run | Specification | Shows |
|---|---|---|
| `Everyone` | `OrderPayments`, every actor, callbacks in any order | types and references; paid and succeeded only with a charge, refunded only when let go; a replayed handler changes nothing; closed orders gave stock back; no unit leaks |
| `Locking` | the actors that lock, with fairness, two workers | acknowledged confirmations are stamped, acknowledged reversals returned stock; a released order takes no payment and stays closed; expired orders are settled; late charges are voided |
| `Guests` | the orderly actors (one session per order, two orders); `Visitors`; `AddressBook` | units taken once and returned once (implements `Reservation`), refunds are final; a guest sees and orders only their own; a delivery costs what the city cost during the request, no order number twice; one default address |
| `Checkouts` | `Checkout` with fairness, four requests | units taken together and given back once (`Reservation`); the code counted exactly; no judged checkout in a deadlock; every checkout answered |
| `Carts` | `Carts`, two requests in flight | what an order is charged adds up, its code is earned at that moment, it equals what an up-to-date cart shows; removed lines stay removed |
| `HomePage` | `HomeCache` with fairness, two processes | a stale page was overtaken or its deletion lost; nothing shown is older than a lifetime and a visit; the page comes right once edits stop |
| `Storefront` | `Catalogue`; `Inventory`; `Comparison` | counts equal listings, figures agree, walks are faithful; badges match quantities, the transactions of the uncalled service wait in no circle of their own; the comparison's limit is exceeded by no more than the racers, and its rules hold without races |
| `BackOffice` | `Accounts`; `GatewayDesk` | no guess is lost, one reset per code, only a racing login outlives a reset; what is answered as refused had no effect, lost answers included; a process its probes call well fails only on what its code is known to raise on |
| `PaidCancelReversed` | purchase, customer cancel | **violated**: a paid order cancelled and then reversed is restocked twice |
| `ReplayAfterReversal` | purchase, late callbacks | **violated**: a confirmation delivered again after the reversal makes the refunded payment succeeded |
| `SyncRevives` | purchase, expiry, sync | **violated**: the sync brings a cancelled order back to processing |
| `SecondCharge` | purchase with two sessions | **violated**: an order that is already paid is charged again |

`Everyone` is the honest system, so it checks only what survives every actor.
`Locking` and `Guests` remove the actors that do not lock, to show what the
locks are there for; the violated runs add one of those actors back and show
the promise of a comment or a document it breaks (quoted in `PROJECT.json`).
Disagreements that can be seen in the same model and have no run of their own:
a staff `set-status` to cancelled returns no stock
(`api/admin/views/order.py:46`); a staff edit that read the order before it was
paid saves `paid_at = NULL`, and one that names no status writes back the one it
read (`EditSave`); a rejected charge takes the
reversal path, so that an order never paid becomes refunded (`RefundExit`); and callbacks
do not "always return HTTP 200" (`api/payments/views/callbacks.py:9`): see the gateway desk below.

`Checkout` and `Carts` show four more that no line of the repository promises
otherwise: two checkouts of one cart place two orders; two checkouts judge a
code before either counts it, so `used_count` may pass `usage_limit` by the
number of checkouts at work; of two additions to one line at once, one is lost; and a
line added between the read and the `clear` of a checkout is deleted unordered.

### What else the models show

Facts met while modelling, each reachable in the module named; they have no run
of their own, some because no line of the repository promises otherwise.

Orders, carts and stock

* A cancellation judges the status of the object its view read before
  (`api/orders/views/order.py:108-109`, `apps/orders/services.py:232`): it may cancel and restock
  an order the expiry has just cancelled (`CancelSave` after `Release`).
* `apps/orders/services.py:133-134` says the stock rows are locked in a deterministic
  order; the ids are sorted, the query has no `ORDER BY`, and a restock goes by the
  order's items. Two transactions may wait for each other and one is aborted
  (`Victim`); `JudgedNeverVictim` and `EveryCheckoutEnds` show what is left of the promise.
* The cart is priced with the price stored in its lines, the order with the
  catalogue's: the two differ when a price changed between (`README.md:76-78`, `QuoteKept`).
* `catalog/models.py:193-194` says runtime changes of stock go through `apps/catalog/services.py`;
  nothing calls it. `restock_order` loses the units of a row that was deleted, where
  `return_stock` would make it anew. Its literal 5 equals `LOW_STOCK_THRESHOLD`.
* A staff stock form saves the whole row it read: a sale made meanwhile is
  undone by it, and a row deleted meanwhile is inserted again (`SaveForm`).
* An order number is looked for and then inserted: a collision raises
  `IntegrityError` and rolls the whole checkout back (`Place` in `Visitors`).
* A visitor's first two requests at once make two sessions and two carts, and
  the cookie keeps the last; reading a cart creates it.
* Two default addresses when two inserts overlap; two updates of each other's
  rows are a deadlock, one of which is aborted (`AddressBook`).

Catalogue, comparison and home page

* The subcategories of the tree show `product_count` 0 (`api/catalog/serializers/category.py:7`;
  `apps/catalog/selectors.py:52-54` counts for the roots only).
* The attribute filter does not look at `value_number` of a predefined value, which cards and
  comparisons show. Orderings by price or rating have no tiebreaker, so their pages
  may repeat or miss products without any edit; walks are modelled in the order of
  creation.
* The limit of the saved comparison can be exceeded by one for every other request in flight, and
  the unique constraint stops no duplicate because NULLs differ. `compare_services.py:28-30` takes
  the session key as it comes, although `sessions.py:9-13` says an expired key never owns a
  comparison.
* Deleting after the commit (the comment at `content/signals.py:32`) narrows the window
  in which an old page is cached; it does not close it (`Overtake`). Without
  Redis each process keeps a cache that the others' deletions do not reach.

Accounts and the gateway desk

* `verify_code` promises that the count of a wrong guess survives its error (`apps/users/services.py:115-118`);
  `verify_reset_code` wraps it in a transaction (`:201`) that takes the count back.
* A lockout never takes effect: the row that carries it is used, and used rows are not looked at.
* Two issues at once may leave two usable codes; confirming again extends
  `RESET_WINDOW`; of two resends counted at once one is lost.
* A card charge, a QR code or an invoice that is answered by something that is no JSON is
  reported as 400 although the gateway may have acted (`AnswerTellsEffect` says that
  nothing else is misreported); a charge that succeeds while the database is lost ends in 500.
* A healthy process answers 500, where every other bad request is refused, to: a body its
  parser gives up on without a `ParseError` (JSON nested deeper than it recurses), in
  any view that reads one; `qr_generate` without `merchant_trans_id` (optional
  at `operations.py:50-52`, required at `gateway.py:251`), an amount that is no
  number, or a character no URL holds, through the proxy; an expiry of digits like "²", which
  `isdigit` accepts and `int` does not (`serializers/card.py:33-36`); and an answer of the gateway
  that is JSON but a list (`views/card.py:166`), a payment id longer than its column, or what the
  shop's renderer cannot print.
* A callback ends in 500, too, and is repeated by the gateway: for a `sign_string` that is no ASCII, which
  `hmac.compare_digest` does not take (`apps/payments/services.py:115`; anyone may send it); for an amount
  such as 1e99999999999, whose digits no memory holds (`:184-188`); for a prepare with a
  `click_trans_id` longer than its column (`:216`). A body that does not parse is answered 400 by the
  framework. Line 9 of `views/callbacks.py` promises 200 always, and line 41 a
  protocol error for what is malformed.
* The digests of the callbacks join their fields without separators
  (`apps/payments/services.py:73-95`): the row of values a prepare was signed for may also be read as a
  complete's, cut elsewhere (`CallbackData`).

### Bounds

* One product, one unit per order, one unit on the shelf: the tightest shelf.
  A unit returned twice or lost shows at once, a second order can only be
  placed with a returned unit. More products only repeat `Restock` per line.
* One order with two transactions (`Everyone`, `Locking`): every interaction of
  callbacks, syncs and edits is about one order; two transactions are the least
  for a second session, a second charge or a card charge beside a session.
  Two orders (`Guests`) compete for the unit.
* One worker in `Everyone`, whose request interleaves with callbacks, gateway,
  expiry and `set-status`, all of which need no worker; two in `Locking`.
* `StaffTargets` in `Everyone` is `new`, the one status `start_payment` moves
  on; `processing`, which the callbacks write themselves, stands for the later
  ones. To include `cancelled` falsifies `ClosedGaveStockBack`, as said above.
* `MaxReturns` bounds how often one order is restocked, which a replayed
  reversal or a repeated cancellation would otherwise do for ever: 2 is one
  more than a correct system needs.

* `Checkouts`: one cart with both products sent twice, one cart for each product
  alone, stock for half of what they want, a code that may be used once. Two
  rows are the least for a cycle, the third is the code's; the fourth request
  makes a cycle that a waiting request outside it watches.
* `Carts`: two products, one with two prices; quantities up to 2; two tiers of 5 and
  50 percent, a percent code with two decimals, a minimum, a date and a limit of
  one use, a fixed code larger than many carts: the subtotals of these carts meet
  every rounding direction, tier, minimum and cap. `MaxUses` bounds
  `used_count`. Requests are symmetric.

* `Guests`: two visitors and two workers, so that two requests of one visitor
  and of two visitors meet; two sessions, two carts, one guest order, three
  numbers of which a checkout draws one that is taken or free. The staff edit zones only
  while a checkout has read its city (at other times an edit is seen as a
  whole), at most twice. Two forms and two rows for the addresses.
* `Storefront`: three categories in a row, the middle one hidden, four products
  and pages of two, so that listings span pages, and two edits, enough for one
  before and one after a page was read. Two stock rows, two transactions of up
  to a unit per row, one form, up to two units with the threshold at one, so that every
  badge occurs. Three products in two categories against a limit of two.
* `HomePage`: two processes, a lifetime of two minutes and visits of at most
  one, a watched and a silent section, two changes of each.
* `BackOffice`: two requests, two codes, limits of two guesses and one tick, so that
  each limit is reached; the desk with five of the eleven operations, at least
  one for every view and every shape of a payload. The environment takes
  all its 256 values.

`CHECK_DEADLOCK FALSE`: when the edits, codes or sessions of an instance are
used up, or every order is closed and every transaction ended, there may be
nothing left to do. `Carts` and `HomeCache` never stop and are checked for deadlock.

### Fairness

`FairSpec` (run `Locking`) assumes weak fairness of `Scan` (the beat schedule
starts the task every five minutes), strong fairness of `Release(o)` (the
task's time limit may stop one run before it reaches an order, not every run)
and weak fairness of the delivery of a confirmation with its answer (the
gateway repeats it until it is answered). Customers, staff and requests are not
assumed to do anything.

`FairSpec` of `Checkout` (run `Checkouts`) assumes weak fairness of the
statements of a transaction, strong fairness of `Granted(r)` (PostgreSQL queues
the waiters of a row, so each gets it in turn) and weak fairness of `Victim(r)`
(the deadlock detector runs after a wait of one second). Without the last,
a cycle of two checkouts would be for ever.

`FairSpec` of `HomeCache` (run `HomePage`) assumes that time passes (`Tick`) and
that a request or a task that was begun ends, by itself or by gunicorn's time
limit. Nobody is assumed to visit or to edit. Deletions may be lost for ever.

## 4. Plan and what is left

Written in this order, each with its properties, runs and mistakes:
`OrderPayments` with `Reservation`; `Checkout`, `Pricing`, `Carts`; `HomeCache`;
`Catalogue`, `Inventory`, `Comparison`; `Accounts`, `GatewayDesk`; `Visitors`, `AddressBook`.

Worth doing next: larger instances of `Storefront`; and
full-text search and suggestions, should they come to carry state.

## 5. Proofs

Every safety property of the passing runs has a theorem: the run shows it on a
small instance, the theorem for every value of the constants the stated
hypotheses allow. `PROJECT.json` pairs them. An invariant that is not inductive was first
strengthened, and the strengthening checked by TLC, before it was proved.

From the assumptions on the constants stated in `OrderPayments`, for any sets of
orders, products, transactions and workers and any bound:

* `TypeCorrect`: `Spec => []TypeOK`. `TypeOK` contains `References`: a row or a
  request beyond its call of the gateway names an open session, and that names an order. It
  is inductive.
* `MoneyIsReal`: `Spec => []MoneyBacksPaid`, and `RefundsAreReal`:
  `Spec => []RefundedMeansLetGo`. Neither is
  inductive: a sync has read the gateway's answer, and a staff edit an order's
  stamp, that a later step writes. The invariant `MoneyInv` adds
  `MoneyInFlight`: what each request is about to write agrees with the gateway
  too. The proof rests on `SessionHistory` (the gateway never forgets a charge,
  a release or the order of a session) and on `CompleteOutcomeMeaning` (only a
  confirmation makes an order paid, only a reversal a payment refunded).
* `ReplaysAreHarmless`: `Spec => []CallbacksIdempotent`, from lemmas about the
  two handlers as functions, for every order, row and callback.
* `ClosingReturnsStock`: `Spec => []ClosedGaveStockBack`, assuming that
  `StaffTargets` holds no closing status (`set-status` writes the column alone and
  returns nothing). From `ClosingRestocks`: every step that closes an order returns its
  stock, or finds it returned, as a form does that shows a closed order and is saved
  after the order came to life again (`ShownClosed`).
* `NothingLeaks`: `Spec => []NoUnitLost`, under the same assumption and for
  finitely many orders, whose units have a sum. From `StepsBalance`: a step
  either leaves statuses and stock alone or touches one order, and then the shelf
  and what the order keeps together hold no less than before; `SumChange` carries
  that to the sum. What an order keeps (`Kept`) leaves out units it once gave back: an order that
  was cancelled and lives again may be closed by a stale form, which returns nothing.
  `NamesPlaced` (no request, session or return before the checkout) makes a new order keep all of its units.

About its locking actors (`LockingSpec`), in `LockingProofs`, with any number of
sessions per order and any replays. `LockingInv` is the invariant: what a payment's row says
(succeeded, refunded) has been done to its order, what was answered with success
too, an order the expiry released is cancelled and unpaid, and no order is ever
`new`, so a saved session moves none. `SettlingKeeps` reduces a step to what it writes.

* `ConfirmedMeansPaid`: `LockingSpec => []AckedMeansPaid`, and
  `ReversedMeansReturned`: `LockingSpec => []AckedRefundMeansReturned`.
* `ReleasedIsRefused`: `LockingSpec => RefusedOnceReleased`.
* `CancelledIsFinal`: `LockingSpec => CancelledStaysClosed`. The run `SyncRevives` shows
  what an actor that does not lock does to it.
* `CancelledStaysUnrestocked`: `LockingSpec => CancelledNotRestocked`, the other
  side of the run `PaidCancelReversed`: the comment of `handle_complete` is true
  as long as nobody cancels a paid order, which is what the invariant
  `CancelledUnpaid` says of the locking actors.
* `RefundsAreFinal`: `LockingSpec => RefundIsFinal`, assuming not `LateReplays`,
  which the run `ReplayAfterReversal` shows to be needed. The invariant is
  `RefundedTogether`: a payment reads refunded only together with its order, and
  nothing moves a refunded order on.
* `OrderlyReserves`: `OrderlySpec => ReservesAndReturnsOnce`, assuming `OneSession` and
  not `LateReplays`. A reversal returns the stock only of an order that still holds it, since
  an order reads refunded exactly when the payment of its one session does, and a
  cancelled one was never paid (`OrderlyInv`). `Checkout` maps to `Reserve`; `Release` and a
  reversal map to `Return`; every other step stutters. Both
  assumptions are needed: with either dropped, TLC finds stock returned twice in a
  two-session instance (`ReplayAfterReversal` shows one way it starts).
* `ShelfBalances`: `OrderlySpec => []Balanced`, what that promise is worth: shelf
  and live orders together hold exactly the initial stock, for finitely many
  orders. It is proved from the steps of `Reservation` alone, by `WeightMoves`.

From the assumptions of `Checkout`, for any requests, products, carts and code:

* `CheckoutTypeCorrect`: `Spec => []TypeOK`. That stock stays a natural number
  is the point: it needs `JudgedStillTrue` (a judged checkout holds the locks of
  its rows and they still cover it), which is part of `ShelfInv`, with
  `CartsOnlyEmptied` (a cart is as it was or empty) and `OrdersItsCart` (what a
  request carries is its cart).
* `CheckoutReserves`: `Spec => ReservesAllOrNothing`, from `ShelfInv`: `Commit`
  maps to `Reserve`, `CommitReturn` to `Return`, every other step stutters.
* `CheckoutsBalance`: `Spec => []ShelfBalanced`, the same balance as
  `ShelfBalances`, for finitely many requests that overlap statement by statement.
* `NoVictimAfterJudging`: `Spec => []JudgedNeverVictim`, from `WaitsForItsNeed`
  (a request waits only for a row its statement needs) and `PromoTakenLast` (the
  owner of the code's row is judged and waits for nothing): a judged request
  waits at most for the code's row, so it is in no cycle.
* `CodeIsCounted`: `Spec => []PromoCounted`. The orders that carry the code are a
  finite set of `used_count` members: a commit adds one to both, nothing takes one away.

From no assumption but the ranges stated in them, about `Pricing`:

* `DiscountsStayWithin`: for every subtotal, tier, delivery and code of at most
  100 percent, discounts are never negative, together stay within the subtotal,
  and the lines add up to the total. From `MoneyIsNearest` (rounding is within
  half a cent) and `ShareWithin` (a share of at most the whole rounds to at most
  the whole).
* `LargerCostsNoLess`: within one tier and code a larger subtotal never costs
  less, from `RestMonotone` (what a rounded share leaves grows with the amount).
  Across tiers it may: a subtotal that just reaches a tier can cost less than
  one just below it, as the discount intends.
* Lemmas about sums over a finite set, which the models write with the library's
  `SumFunction`: it is a natural number, splits off a term, changes by as
  much as one term does, and grows with its terms (`SumIsNat`, `SumSplit`, `SumChange`,
  `SumGrows`, `WeightMoves`). They
  stand for the induction the provers cannot instantiate: the sets on which
  a claim fails are ordered by strict inclusion, which is well founded, so
  there would be a smallest, and it has an element to take away.

About `Carts`, for any catalogue, codes, tiers and number of requests. Amounts assume
`CodesWithinWhole` (no percentage above 100) and finitely many products:

* `ChargesAddUp`: `Spec => []DiscountsWithinSubtotal`, from `DiscountsStayWithin`
  and `TierReached` (`ActiveTier` is a tier the subtotal reaches, or none).
* `CodesAreEarned`: `Spec => []CodeEarned`, without assumptions on codes.
* `QuotesAreKept`: `Spec => []QuoteKept`: cart and checkout price equal lines equally,
  the floor at zero included.
* `AdditionsLetGo`: `Spec => RemovedStaysRemoved`. The invariant adds that only a
  request that read a row can lose it (`LostWasSeen`).

About `HomeCache`, for any processes, stores, sections and lifetimes:

* `HomeTypeCorrect`: `Spec => []TypeOK`.
* `LagIsExplained`: `Spec => []StaleOnlyIfOvertaken`. The invariant also says of
  a visit under way that what it has read of a watched section is what is
  committed, unless it was overtaken or a writer of the same cache still has to delete.
* `StaleForSoLong`: `Spec => []NeverOlderThanTTL`. The invariant bounds a lag by
  the age of what it is in: what a visit has read lags no longer than the visit
  lasts (`VisitsYoung`), a payload no longer than a visit and its own age (`PayloadsYoung`).

About `Catalogue`, for any tree (cycles included), products, filters and finitely many reviews:

* `CatalogueTypeCorrect`, `CountsAreListings` (the three ways to count are one
  set) and `WalksAreFaithful`. The last rests on the pages being intervals of positions:
  while nothing enters or leaves the listing, or only one of the two happens, positions move one way,
  so a page boundary passes over no product that was due, or none that was seen.
* `PagesAgree`: `Spec => []FiguresAgree`. Stars share the reviews out
  (`StarsShareReviews`), and an average of whole stars, rounded, stays between
  1.00 and 5.00 (`RoundedBetween`), so a card shows no rating only without reviews.

About `Inventory`, for any number of products, workers and staff:

* `BadgesAreTrue`: `InventorySpec => []StatusMatchesQuantity`. The invariant adds
  that a line a transaction has taken is covered by the row it locked, which is still there.
* `CatalogueTransactionsQueue`: `InventorySpec => []TransactionsQueue`: an ordered
  transaction has taken every row below those it still wants, so the one that wants
  the highest row of a circle waits for one that wants a higher row still. It holds
  for circles of any length; the run has two transactions. It says nothing of the live
  checkouts, which do not call that service: their deadlocks are in `Checkout`.

About `Comparison`, for any limit and number of requests:

* `RacersAreBounded`: `CompareSpec => []LimitAndRacers`: a request between its
  count and its insert takes the place it had before as one that may still count.
* `AloneTheRulesHold`: `CompareSpec => []AloneKeepsTheRules`. The invariant `CompareInv`
  adds that without a race what a request has found out is still so (`StillTrue`).

About `GatewayDesk`, for any set of called operations:

* `AnswersAreTrue`: `DeskSpec => []AnswerTellsEffect`. The invariant follows a
  request through its stages: until it is sent nothing was done, and it is
  sent with card data only past one of two gates, the card views' or the proxy's.
* `ProbesAreTrue`: `DeskSpec => ProbesTellTheTruth`. A server counted well is up
  (`WellIsUp`), and no issue in the payment check means nothing is missing (`NothingMissing`). The theorem
  exempts what is `Odd`, the list of section 3, and no other request or answer.

About `Accounts`, for any clients, limits and times:

* `WrongGuessesCount`, `CodesResetOnce` and `TokensDieWithThePassword`:
  `AccountsSpec => []GuessesCount`, `[]OneResetPerCode`, `[]OnlyRacedTokensSurvive`.
  They need one another's context and are parts of `AccountsInv`, which adds that a
  row is locked by one transaction (`RowsApart`), that a confirmed code ends
  `RESET_WINDOW` after its confirmation (`WindowsOpen`), and, of each request, that
  what it carries from a locked row is what the row still says (`CallShape`).

About `AddressBook`, for any forms and rows:

* `OneDefaultAddress`: `AddressSpec => []OneDefault`. `BookInv` follows the forms that
  are clearing: a default row that such a form neither holds nor still comes by overlapped
  it, and of two of them one still comes by the row of the other, where it waits.

About `Visitors`, for any visitors, sessions, carts and cities:

* `GuestsKeepApart`: `VisitorsSpec => []YoursAlone`. `GuestsInv` says that keys can be
  assigned to owners (`own`) so that every cookie, cart, order and request is its owner's;
  the assignment grows by the keys handed out, and a cart, a cookie and a live
  key are in step for a visitor who waits for answers.
* `ChargedAsChosen`: `VisitorsSpec => []PlacedAsChosen`, from the same invariant.

Checked by TLC only: liveness (`ExpiredIsSettled`, `LateChargeIsVoided`,
`EveryCheckoutEnds`, `EventuallyFresh`), since the prover has no rule for fairness and
ENABLED. What a theorem does not say: `BadgesAreTrue` and the others speak of the
models, and the hypotheses above (`StaffTargets`, `LateReplays`, `OneSession`, percentages)
are limits of the code that the violated runs and section 3 show.

## 6. Not modelled

* Leads (contact forms, subscriptions), profile pages, e-mail, images, full-text
  search and suggestions, the documentation schema, logging: inserts, reads and
  wording, with no state another part depends on.
* What a member of the staff types by hand into `paid_at`, a payment's status
  or the like in the Django admin, which is outside any protocol of the code.
* A promo code of more than 100 percent, which no validator refuses: outside the
  assumptions of the prices.
* `merge_guest_cart`, `refund_payment`, `has_purchased`, `PromoCode.is_valid` and
  `discount_for`: nothing calls them. The wishlist's, profile's and login's views
  are commented out, and `api/urls.py` does not include `api/auth` and `api/user`; the
  services behind them are modelled (`Accounts`) as they are written.
* Of the gateway client: the bytes of the exchange, the digest and the time stamp
  of its header, the `fintechhub_credentials` command, throttle rates. A 401 is folded into 403.
* That two random codes of six digits are equal; that a mail is not delivered.
* A stock row that is deleted and made anew while one restock is at work is
  refreshed by the code and not in `Inventory`; lines of no units, which a refresh reads
  without a lock, are left out.
* Row locks inside one transaction of the cart's own rows, written last.
