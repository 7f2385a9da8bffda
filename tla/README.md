# Formal models of the shopping API

TLA+ models of the parts of this Django service where orders, couriers, goods
and money change hands, the TLC runs that check them on small instances, and
theorems about them that TLAPS checks for every instance. The models are
translated from the code; line by line correspondence is in `PROJECT.json`
(`map`).

    tlc -workers 2 -config MCDispatchSearch.cfg MCDispatch    # one run
    tlapm DispatchProofs.tla                                  # one set of proofs

## 1. The system

PostgreSQL under READ COMMITTED, one transaction per `transaction.atomic` block
(there is no ATOMIC_REQUESTS), row locks by `select_for_update`, jobs in Redis
queues run by RQ workers, and Razorpay for online payment. Handlers of one order
can run at the same time in web workers and in queue workers; timeouts are jobs of the
queue too (`delivery/tasks.py` has them sleep first).

| Component | State | Operations | Talks to |
| --- | --- | --- | --- |
| Order lifecycle (`orders/actions/ordering`, `vendors/actions/orders.py`) | `Order.status`, courier | accept, prepare, ready, cancel, deliver; back-office override | dispatch, goods, payment, settlement |
| Dispatch (`delivery/`) | `DeliveryAssignment` (status, radius, notified and rejected couriers, `last_search_at`), `DeliveryPartner` (status, approval) | start, widen, time out, restart and cancel a search; accept, reject, cancel, reassign | queues, orders |
| Payouts (`vendors/actions/payouts.py`, `recipient_payouts.py`, `delivery/views/payout_views.py`) | payout rows, `Vendor.wallet_balance`, wallet ledger | create, edit, approve, decline, schedule, record payment, verify, override | settlement credits the wallet |
| Baskets and checkout (`orders/views/cart_views.py`, `orders/actions/ordering/create_orders.py`) | cart lines, stock of products, inventory rows of nodes, reservations, coupon and its uses, orders with an idempotency key | add, replace, reorder, refresh, submit, cancel; stores edit stock and listing; back office edits coupons | payment, dispatch |
| Online payment (`orders/views/create_order_views.py`, `payment_views.py`, `payment_actions.py`, `refund_actions.py`) | `PaymentSession`, the payment columns of `Order`; gateway orders and captures at Razorpay | initiate checkout, order with proof, open and verify payment, webhooks, refund on cancellation | Razorpay, checkout, cancellation |
| Refunds, issues, ratings (`orders/actions/refund_ledger_actions.py`, `orders/actions/ordering/issue_messages.py`, `orders/views/order_rating_views.py`) | `RefundLedger`, issues and their messages, ratings and averages | request, move on, retry; report, answer, resolve; rate | order total, delivery |
| Notices and receipts (`notifications/signals.py`, `tasks.py`, `scheduled_tasks.py`, `invoices/`) | `Notification`, customer receipts, queued jobs | tell of a placement, release scheduled orders, print and mail a receipt, delete a notice | checkout, queue, scheduler |
| Wallets, loyalty, referral, settlement (`accounts/actions`, `orders/actions/settlement.py`) | balances and their transactions, referral | top up, spend at checkout, earn, redeem, settle, adjust | checkout, cancellation, delivery |
| Accounts and sessions (`accounts/`) | users, refresh tokens, reset links, one-time codes | sign in, refresh, change and reset a password, disable, request and verify a code, register | everything, by permission |
| Onboarding, KYC, store (`vendors/actions`, `notifications/scheduled_tasks.py`) | vendor status, documents, stock review, open switch | submit, approve, review, open, close by schedule | catalog, payouts |
| Catalog (`products/actions`) | products, catalog products, submissions, proposals and items | submit, approve, reject, edit, inherit, propose | checkout (what can be ordered) |
| Fulfilment nodes (`vendors/actions/fulfillment_readiness.py`, `vendors/views/fulfillment_admin.py`) | nodes, inventory rows, reservations | pause, edit, backfill, audit; order, cancel | checkout |
| Quotes and prices (`helpers/delivery_quotes.py`, `orders/actions/checkout.py`) | settings only | preview, place at the shown amounts | checkout |
| Scheduled tasks (`notifications/scheduled_tasks.py`) | a registry of intervals | close stores, release scheduled orders, reminders, reconciliation | orders, vendors |
| Storefront (`backend/actions/customer_flow`, `products/views`, `vendors/views`, `helpers/cache_helpers.py`) | none but the cache of public pages | show home, explore, lists, search and store pages; cache, invalidate by signals | stores, products, nodes, checkout |
| Suggestions (`orders/actions/customer_recommendations.py`, `vendors/views/recommendation_views.py`) | a ranking of products and stores for each customer | rank, store; put pages into its order | storefront, a ranking service |
| Realtime (`delivery/consumers.py`, `orders/consumers.py`, `vendors/consumers.py`, `backend/consumers`, `*/signals.py`, `vendors/realtime.py`) | groups of the channel layer, inboxes of sockets | connect, join, announce, ask again, send, leave | orders, couriers, cases, accounts |
| Support, files, admin console, API v1 | own rows or none | | |

What makes it hard, component by component, is listed with source lines under
`hazards` in `PROJECT.json`. In short:

* dispatch: a search is carried on by whoever comes next (a queued job, a timeout,
  a rejection, a polling courier); the question is always whether somebody is
  left, and whether two of them act on the same request;
* payouts: the couriers' handlers read, check and save without a lock, beside
  back-office handlers that lock;
* checkout: basket requests do not lock, checkout does, and a retry looks its key
  up before it waits for the lock;
* payment: three independent paths (checkout with proof, verification, webhook)
  mark an order as paid, each with a read and a later save, while the order may
  be cancelled and refunded;
* money after the order: balances are read without a lock when a checkout is
  priced and debited under one at its end; averages and issues are saved by several
  actors;
* notices: they leave before the checkout commits, and the jobs that send them
  look first and write later, without a transaction, in as many workers as there
  are;
* accounts: rows of users are read, changed and saved whole, and one-time codes
  are counted and compared without any transaction;
* stores and catalog: a review is about what the reviewer saw, while stock,
  products and proposals go on changing;
* quotes: the same amounts are computed twice, by different code, for the screen
  and for the order, and must agree to the paisa;
* storefront: each page has a filter of its own over stores, products and nodes,
  the checkout has another, and a cache stands in front of the pages;
* suggestions: a ranking is made hours before it is used, of products that sell out and
  stores that close, with the help of a service that may answer anything;
* realtime: a socket is asked once who it is and serves for hours, and what it is
  told was announced before a commit, after it, out of order or not at all.

## 2. Modules

    OrderLifecycle ── Dispatch           DispatchProofs          MCDispatch
                         └ implements DeliveryContract
    Payouts                            ┐
       └ implements PayoutContract     │
    Wallets                            ┴ MoneyProofs             MCMoney
    Checkout                             CheckoutProofs          MCCheckout
       └ implements ShelfContract
    Payments                             PaymentsProofs          MCPayments
       └ implements PaymentContract
    Aftercare, Notices                 ┐ FollowUpProofs          MCService
    Realtime                           ┘                         MCAccounts
    Sessions, OneTimeCodes, Store        AccountsProofs          MCAccounts
    Slots ── Storefront                ┐                         MCService
    Catalog, Nodes, Quotes             │ SupplyProofs            MCSupply
    Suggestions                        ┘                         MCSupply

SumTheorems holds the lemmas about sums that MoneyProofs, CheckoutProofs, SupplyProofs
and FollowUpProofs use, and one about least numbers that AccountsProofs uses too. A
proof module extends the components it is about; those that stand together in one share
no state, and no name.

Each `*Contract` is a short specification of what the component promises to
somebody who sees only part of its state; the component defines the refinement
mapping (`Contract == INSTANCE ...`) and the property `ImplementsContract` or
`ImplementsShelf`. `MC*` modules hold only the finite instances and bounds. The
modules that stand for several put modules that share no state into one run; only
one of them leaves its initial state in a behaviour, so that the run costs the sum
of their states and not the product.

### Dispatch

`order[o]` is the order row, `assignment[o]` the assignment row, `partner[p]` the
courier's row. A handler that locks order and assignment is one action. What is
not one transaction is several: a rejection (`RejectBegins`, `RejectCommits`),
the `on_commit` hook of a started search (`StartHookEnqueues`, `StartHookFails`),
the queue (`SearchNotifies`, `SearchFindsNobody`, `SearchIgnored`,
`SearchTooLate` are the outcomes of one job), the timeout's job (`TimeoutFires`, and
`ObsoleteTimeoutFires` for one that an earlier notification has left), polling
(`PollExpires`, `PollRestarts`). Time is the age of `last_search_at`: `Fresh`
(under 55 s, when a timeout is ignored), `Grace` (to 60 s), `Expired`, `Stale`
(over two minutes, when polling restarts it). Which couriers are near enough is
any set of those online, so distances and rankings need no model.

Left out or simplified: OTP and photo checks (they refuse, and a refusal is a
step not taken), notifications, tracking rows, the cancellation window, the
`is_active` flag at reassignment, deletion of couriers, generic edits in the
Django admin site. `check_stale_assignments` reads and writes an assignment
without a lock; it is one step per assignment here. A courier who goes online
enqueues searches inside an open transaction; that only changes which couriers
a search sees, which is arbitrary anyway.

### Payouts

`payout[p]` is a row of either kind, told apart by its recipient. Back-office and
vendor handlers are one action each (they lock the row). The couriers' approval
and verification are `CourierApproveReads`/`CourierApproveSaves` and
`CourierVerifyReads`/`CourierVerifySaves`; `approving[p]` and `verifying[p]` count
requests in between. The age of `payment_sent_at` counts to the two days after
which `ForceVerify` is allowed. Commission arithmetic, audit rows and the
reminder job (it writes notifications only) are left out.

### Checkout

`cart`, `order`, `stock`, `listing`, `row` (inventory rows of nodes), `ledger`
(reservations of an order; they move together), `coupon`, and the requests.
Adding to a basket is `CheckAdd` and `FinishAdd`, because the other requests of
the customer run in between; other basket edits are one step. `FinishAdd` adds the line
and sets the basket's node at once, which are two saves in the code. Checkout is
`Submit` or `Replay` (the key is looked up), `LockCart`, and `PlaceOrder`, which
holds the locks of cart, products, rows and coupon, or `Refuse`, which may happen
for any reason, so that prices, addresses and quotes need no model. A new cart
line waits for the cart row that checkout locks (its foreign key does). Saving a
coupon in the back office is `OpenCoupon` and `SaveCoupon`; stores may set stock,
listing and inventory rows to anything at any time. Orders older than the
reservation table exist in `Init` (`LegacyRow`).

Left out: deletion of products and coupons, `reserved_stock` (no code sets it),
wallet and loyalty payment, and the reconciliation of reservations, whose
selections are empty in every reachable state: reservations are committed in the
transaction that creates them and released in the one that cancels the order.

### Payments

`gateway[g]` is a gateway order at Razorpay (external: opened for an amount,
captured at most once), and `refunds` what Razorpay has accepted. A payment is
named after its gateway order. `session[g]` is a `PaymentSession`, `order[o]` the
payment columns of an order. Checkout with a proof locks the session and is one
action (`CreatePaidOrder`, `ReplayWithPayment`), except that a mismatch of the
amount rolls back first (`Mismatch`) and marks the session later, without a lock
(`FailSession`). Opening a payment, verifying it and each webhook are a read and
a later save; a save that never comes is a crashed request. Cancelling asks the
gateway for a refund under the order's lock; its call may raise before or after
the gateway has acted (`CancelWithoutAnswer`). One customer, one order per
checkout; the authorisation of a payment and its capture are one step, as orders
are opened with automatic capture. `BeginHook` refuses every
event once the session has seen one, the code only the same one again; what another
would save is saved already.

Left out: the command `reconcile_payments`. It annotates sessions, which nothing
reads; its repair branch needs a paid session with the gateway id of an
unverified order, and no step creates one (payment opened for an order has no
session, and checkout verifies the order it attaches a session to).

### Wallets

`balance`, `points` and their rows (`moves`, `tally`), `topup`, `referral`,
`order`, and `checkout[u]`, the customer's one checkout (the cart's lock makes it
the only one). A checkout is one transaction in three steps: `CheckBalances`
reads both balances without a lock, `HoldBalances` locks and debits them at its
end, and then it commits (`PlaceOrder`, `CommitCheckout`, `CommitWithBonus`) or
does not (`RollBack`). The referral bonus is paid inside the checkout and locks
the referrer's points; two customers who referred each other deadlock, and the
code swallows the loser's bonus (`CommitAfterDeadlock`). `Deliver` earns points,
`Cancel` gives the wallet amount back and keeps the points. Amounts are in quarters
of a rupee, the value of one point. Points pay up to a fifth of the price, of which the
code takes the items' part only (`Redeemable`); deadlocks of more than two customers are
left out. `LongTypesFit` tells a database that takes the
back office's row types from PostgreSQL, which does not (section 4).

### Aftercare

Three small parts of an order's afterlife. The refund `ledger` runs under the
order's lock (`RequestRefund`, `MoveRefund`). Issues:
a customer's message reads the case and saves its status later
(`MessageReads`, `MessageSaves`) while the back office resolves it (`UpdateCase`).
Ratings: a rating and its review are two writes, and the store's average is
counted and saved without a lock (`SubmitRating`, `CountReviews`, `SaveAverage`).

### Notices

What goes out about an order, and how often. A placement sends its notices inside
the checkout's transaction (`AnnounceBooking`), which then commits or does not
(`CommitBooking`, `RollBackBooking`); `told` are the orders whose notice to the
store was written there. A scheduled order has a `window`, the tick at which it
enters the store's buffer, and is left to the release job: `StartRun` reads the
orders that are due, `LookForNotice` asks for each whether its notice is there,
`WriteNotice` writes it. Each is a statement of its own without a transaction,
runs overlap, and a worker may die between two of them (`WorkerDies`). `most` is the
number of runs that were under way together, `releases` and `kept` the notices ever
written and those the back office has not deleted (`EraseNotice`). A receipt is
made by requests, which lock the order (`PrintReceipt`, `ReceiptPrinted`), and by
the job that the placement queued, which does not (`JobLooks`, `JobCreates`,
`JobEnds`); `crossed` are the orders where both had looked before either wrote.

Left out: the other kinds of notice (each is one insert that nothing reads back),
who may read or mark them, wording, e-mail and push transports, and the broadcast
over websockets, which reaches the store at placement even when the written notice
waits for the window.

### Sessions

A password is its hash, and hashes are numbered as they are made. `token[t]`
carries the hash of the password it was issued for, `link[l]` is a reset link.
Sign-in, refresh and profile changes are a read and a save (`Authenticate` and
`IssueToken`, `RefreshReads` and `RotateToken`, `ProfileReads` and
`ProfileSaves`, `StatusReads` and `StatusSaves`); password changes and the
administrators' console lock the row. `overtaken` is the set of accounts over
which a whole row read earlier was saved. The token library is external: it
lists what it issued and keeps the blacklist.

### OneTimeCodes

Nothing here runs in a transaction, so every query is a step: a request for a
code looks at the limits (`RequestCode`) and creates it (`CreateCode`); a
verification reads the latest unused code (`ReadCode`), compares and counts
(`GuessWrong`, `GuessRight`), looks for an account by number and then by address
(`FindNumberFree`, `FindAddressFree`, `RefuseTaken`) and creates one (`CreateCustomer`).
The customer's profile is read, checked and saved whole (`ReadProfile`, `GiveAddress`,
`GiveNumber`, `SaveProfile`), and a customer who is created is saved once more in the
same way. The back office edits numbers and addresses too, but compares them with
administrators' only (`OfficeEdits`), and deletes customers (`OfficeDeletes`); a row
that a request had read before comes back when it is saved. `overlapped` are the codes
that two requests had read at once, `rivals` the numbers and addresses that two requests
were about to write for different accounts at once, and `given` those the back office
gave to an account while another had them. Numbers become usable, old and forgotten as
`CodeAges`.

### Store

`store` is the vendor row (status and switches), `shelf` its stock as a version
with the time of the last saved change, `screen` what the owner was shown,
`review` the recorded review. A stock change is saved (`SaveStock`) and committed
(`CommitStock`) apart: its timestamp is of the save, but others see it from the
commit. `straddled` marks a review with such a change around it. The closing job
reads open stores and closes them one by one (`ClosingJobReads`,
`ClosingJobCloses`). The platform's side is `UpdateVendorStatus`,
`VerifyVendorDocument` and `UpdateAdminVendorProfile`.

### Catalog

What a customer can read on a product is a version, new with every change;
`seen` is the version its reviewer looked at. Vendors' actions lock the product
and are one step each; the back office's list (`ShowPending`, then `Approve` or
`Reject`) and editor (`EditorReads`, `EditorSaves`) are not. The catalog item has a
version too (`offer.content`), since customers see its pictures with the product by
default (`products/data/product_repository.py:15`): `ChangeItem` changes it under all
its products, `beside` is the version that the reviewer's list showed, and `restyled`
says that it has changed since. A proposal's
decision reads the item, writes it and commits the proposal's status
(`DecideReads`, `DecideWrites`, `DecideCommits`). `overtaken` and `twice` mark
the overlaps nothing in the code refuses.

### Nodes

One node, one product, its inventory `row` and orders (`sale`). The back office may give
the node to another vendor or to nobody, change its type (`SaveNode`), and put another
vendor's product there (`foreign`, `SetForeign`). Orders lock the
row (`TakeUnits`, `ReturnUnits`); the editor (`EditReads`, `EditSaves`) and the
backfill (`BackfillReads`, `BackfillCommits`, `BackfillRollsBack`) read it
without a lock and save what they computed. `counted` remembers what the last
count wrote, and whether the numbers behind it had changed meanwhile.
`AuditReady` is the readiness audit of the store, with its four critical counts
(`MissingNode`, `MissingInventory`, `OverReserved`, `Mismatched`). A node keeps the code
that a backfill gives it, an edit of a row leaves its node and product alone, and
archived products, which a backfill skips, are left out.

### Quotes

The amounts of one store's basket, computed by the checkout screen
(`PreviewCharges`) and by the order (`OrderCharges`), with each rounding where
the code has it. `shown` is the last quote the customer saw; an order placed with
it is accepted or answered with `quote_changed` and the order's own amounts
(`RefuseAsChanged`). Settings, basket, coupon, address and store may change in
between, and so may the wallet and the points (`funds`, `ChangeFunds`), at which only the
order looks (`Funded`). Amounts are in paise, distances in hundredths of a kilometre, taxes
in hundredths of a per cent; a coupon's percentage is a whole number, though its column
has two decimals (`orders/models/coupon.py:22`). An order that is paid at the door carries
the confirmation that only the order asks for; dates and uses of coupons, delivery slots
and the basket's node, which both codes look at, are one switch of the store.

### Storefront

Read-only pages, so the state is what they read: `has[x]` are the checks that a
store or a product passes (approved, open, taking orders, in its hours, no holiday;
on sale, in stock, in a visible category), `on` the nodes that accept orders,
`onHand[n][g]` a product's row at a node, and `site` which stores and nodes reach
the customer's address (distances and areas are abstracted to that). `Home`,
`Explore`, `List`, `Search` and `StorePage` are the products that each page shows
for a node or without one, `StoreList` and `NearbyStores` the stores; `Refusals` is
why basket and checkout would refuse one unit. `PagesAgree` compares them in both
directions, and `Overlooked` lists, page by page, what the page does not ask.
`Picks`, `BuyAgain` and `Shelved` are the picks on a store's page, what a customer
bought before, and the products on whose account a category is listed.

`Slots` is the pure part: the delivery slots that are offered (`AvailableSlots`) and
those that an order may have (`SlotAccepted`), in half minutes, so that the seconds
that rounding cuts off are there. `SlotsHonoured`, a conjunct of `PagesAgree`, says
that what is offered is accepted at that moment, and that a day with a half hour left
is offered something, with the exceptions named there.

The cache holds one answer. `SaveInTransaction` signals before `EndTransaction`
commits, `SaveAlone` commits before its `Signal`, which may be lost; restored units,
nodes, rows and time signal nothing (`RestoreUnit`, `SetNode`, `SetOnHand`,
`TimePasses`). A request that misses computes (`ReadPage`) and stores later
(`KeepPage`). `behind` says that the answer is known to be old for one of these
reasons; `CacheFollows` says that there is no other.

Left out: matching of words, categories and prices a customer filters by, ranking
(Suggestions has it), paging, hubs that are linked to a store, requests without an
address.

### Suggestions

The job asks a service for products and stores, fills up with what the customer
ordered and what is popular (`RefreshRanks`, `RefreshSaves`, `MergeUniqueIds`), sorts
the most popular products of each store (120, `Sizes.pool`) by a score (`Score`, `Shelf`)
and stores the ranking, while
products and stores change (`SetSold`, `SetOpen`, `Order`). The pages put what they
show anyway into its order: the home page (`HomeWares`, `HomeDeals`, `HomeShops`), the
stores nearby (`RankedCards`) and the picks in a store (`Selected`). The home page shows
twelve stores (`Sizes.home`), cut off after they are ranked, so that with more of them
the ranking decides which these are, as it does for products; the list of stores nearby
is not cut. The service is
external: `Answers` may name what is gone, or one product twice. The many orders in
which queries list products are one (`ByRank`); popularity is that order and not part
of the score. Nodes, distances and opening hours are left out here (Storefront has
them), and so is the reason shown beside a pick.

### Realtime

One `room` of any kind: the tracking of an order, the chat of a case, a store's
board, the administrators' figures. A socket connects, and asks whether its user may
see the room (`Connect`), joins the group (`Join`), is sent the courier's position or
the figures at once (`SendPosition`, `AskForFigures`), and then handles
its `inbox` one announcement after another: it asks again (`Handle`), except for a
board (`AsksAgain`), and sends what was announced (`SendAnnounced`), or the figures of then.
These come from a cache (`SendCached`) as long as they are there; otherwise the socket
counts them (`CountFigures`), and leaves them there when it sends them (`SendFigures`).
Dashboards do the same (`CountForDashboard`, `KeepForDashboard`), and nothing but time
empties the cache (`ExpireFigures`): no signal does, so what follows a change within
fifteen seconds may stay unseen until the next announcement. That is `missed`. Each
`await` between two of these is a place where others act.

Changes are numbered; `stored` are those committed, `shown[s]` those on a screen.
Writers announce after their change (`SavePosition`, `ChangeOrder`, `SaveAlone`, then
`Broadcast`), inside its transaction (`ChangeInTransaction`, `EndTransaction`: orders
changed by the courier or the back office, messages, rows that figures are made of),
or never (`UpdateLocation`, `CancelOrder`). An order's row is locked while it is
changed, the others are not. The channel layer may fail, and drops what a full inbox
cannot hold. If it fails inside a transaction, that is rolled back: a step not taken.

Left out: the second announcement with the estimated time, the expiry of group
memberships after a day, and what the customer's application does on its own.

## 3. Runs

| Run | Instance and bounds | Shows |
| --- | --- | --- |
| `dispatch_search` | 1 order, 1 courier, radius 2, 2 queued jobs, 1 overtaken timeout, enqueue at start may fail | a live search always has something scheduled that moves it on (`SearchHasWakeup`), and ends (`SearchResolves`) |
| `dispatch_two_orders` | 2 orders, 1 courier, radius 1, 1 job; `SearchesStandStill` | one order per courier, order and assignment agree, a courier is free when the last order ends (`FreedWhenDone`), `DeliveryContract` |
| `dispatch_faults` | 1 order, 1 courier, every fault: hooks and enqueues that raise, workers that die | polling couriers bring every search to an end (`PollingRescues`) |
| `checkout_retry` | 1 customer, 2 stores' products, 2 requests with one key or none | `OneOrderPerKey`, `ShelfContract` |
| `checkout_node` | 1 node, stock 2, 1 order older than the reservations | `NodeStockConserved` |
| `checkout_coupon` | 2 customers, limits 1, a stale back-office edit; one add at a time | `UsageLimitKept`, `PerUserLimitKept` |
| `payments` | 2 orders, 2 gateway orders, 1 key, 2 amounts | `PaidByCapture`, `SecondOrderAfterFailure`, `PaymentContract` |
| `payments_lost` | 1 order, 2 gateway orders | violated: a capture of an overwritten gateway order is recorded nowhere |
| `money` | Payouts: vendor and courier, 2 payouts, 2 days, 2 references, 2 concurrent requests per payout, amounts 0..1, 2 credits. Wallets: 2 customers who may refer each other, 2 orders, 1 top-up, prices 4 and 12, spends 0 and 2 | a payout is debited once and on evidence (`DebitedOnce`, `WalletMatchesLedger`, `EvidenceOfPayment`, `PayoutContract`); money and points come from somewhere and are spent once (`BalancesSourced`), a referral pays once (`BonusOnce`) |
| `service` | Aftercare: 2 refunds against a total of 2, 1 issue, 2 rated orders. Notices: 2 scheduled orders or 1 that is not, 2 workers, 1 death, 1 deleted notice, 2 printers, time to 3. Storefront: 2 stores with a product each, a store's node and a hub, 5 places, 2 failing checks | refunds stay within the total (`RefundsWithinTotal`), resolutions and averages are not lost to unlocked saves (`RecordsKept`), nobody is told twice but for overlaps (`ToldOnce`), a store hears of every order that is due (`StoreHears`), pages show what can be ordered and what can be ordered is found (`PagesAgree`), a cached page is old only for known reasons (`CacheFollows`) |
| `accounts` | Sessions: a customer and 2 administrators, 2 tokens, 2 links, hashes to 2. OneTimeCodes: 2 numbers, 1 address, 2 requests, 2 codes, 1 try, 2 customers, edits once both codes are used. Store: 1 stock edit, 1 document, 4 statuses, time to 4. Realtime: 1 socket, each kind of room, 2 writers, inbox of 2, 3 changes, 1 dashboard at a time | old passwords buy nothing (`StaleSessionsDie`), one reset link is usable (`OneUsableLink`), a superuser remains (`SuperuserRemains`), `OneCustomerPerEntry`, `GuessesBounded`, a store opens on a current review (`OpensReviewed`), screens come to show what is stored, but for named reasons (`ScreensFollow`), who may no longer see a room is sent nothing newer (`SentWhileEntitled`) |
| `supply` | Catalog: 2 products, 2 reviewers, 2 proposed items, 3 versions. Nodes: 2 orders of 1 unit, stocks to 2, 3 owners of the node. Quotes: 2 settings, 4 baskets, 5 coupons, 4 addresses, wallet and points enough or too little. Suggestions: 4 products of 2 stores, 1 product ordered, 2 answers of the service, lists of 1 to 3 | customers see what was reviewed (`CatalogReviewed`), a node's counts follow its orders (`NodeCountsKept`), the backfill makes what the audit asks for (`BackfillMakesReady`), an order is accepted at the amounts the screen showed (`QuoteStands`), a ranking of any age decides the order of a page, and what is shown where there is no room for more, only (`SuggestionsSound`) |

The type invariants of Dispatch, Payouts, Checkout, Payments, Wallets, Sessions and
Catalog are proved (section 5) and not checked again; those of the other modules hold
on their instances (`ServiceTypeOK` and its like in the MC modules) and are no run's
question.

Why the bounds are enough. A race here is between two requests, orders,
references, gateway orders, reviewers or couriers' claims, so there are two of
each; a third repeats one of the two. Radius 2 gives a search one widening and a
last step; two queued jobs are the notified search and the one that a rejection
or a restart adds. `SearchesStandStill` keeps the ageing of searches, which the
one-order runs cover, out of the two-order run. `StoresKeepListing` keeps stores
from hiding products where they already compete for units. Stock 1 makes every
unit the last; stock 2 with quantity 2 tells "some" from "all". Two amounts tell
a right payment from a wrong one. Races of two couriers for one order are not in
a run: with two couriers and two orders the instance is out of reach, and the
theorems of `DispatchProofs` hold for any number.

In `money`, a price of 12 leaves something to pay after wallet and points and a
price of 4 does not; points stop at 6, above a bonus and its opposite. In
`service` a run of the release job finds two orders, so that it can die between
them; two workers overlap, and the third tick lets a late run meet an order that
was due before. Of the two orders the store moves one on at most and one at most is
cancelled or rolled back: the job only asks whether an order still waits. Only one
scheduled order is taken when the back office deletes its notice, and receipts, which ask nothing of the window, are made of one order that
is not scheduled. A store and a product, or a store and a node, tell each filter of
Storefront from the others, so that two failing checks at a time are enough; its five
places differ in what covers and reaches the customer. The cache is used at one of
them for the list, the one page whose filter has both branches, with one failing
check and with the hub's rows left alone: what matters there is when an answer was
computed, stored and emptied, which is the same for every row. Slots are computed for
five opening hours (one past midnight, one of no length), thirteen moments around
opening, closing, full and half hours with and without seconds, four preparation times
and four spans of days. In `accounts` one socket is enough, since sockets share only
what is announced to all; two writers overlap, and the third change finds an inbox
full. Either the administrators or everybody else acts, since neither reads
the other's rows, and codes do not expire: an expired code only refuses. Customers are
edited and deleted once both codes are used, since codes and edits meet only in the
accounts that are there; requests that register still overlap edits. An edit gives a
number and may clear the address, and one number or address may be shared, or one account
deleted, at a time: the property asks nothing more of those. One
dashboard at a time counts figures, and while figures are in the cache nobody loses
a right and the third change is not made: what matters there is which of two changes the
cache has. Two
hashes are a password and its successor, and a third password stands in the same
relation to both. Time to 4 in Store is one save each for a stock edit, the
screen, the review and a later change. `supply` restricts its parts as
`CatalogSmall`, `NodesSmall` and `QuotesSmall` say: decisions on a proposal are
made before the first product exists, one product is edited a third time, the catalog
item is changed before there is a second product or a proposal, a node
has both switches on or off, a store that is closed and not approved has no orders and
edits, a node that is not the store's alone has no orders, edits or reservations (the
audit asks whose it is, and counts are kept in the same way whoever has it), the editor and the backfill are not under way
together, a wallet amount is spent with one basket only, and a quote that is out of
date is tried only at a store that is open and has the goods, since no other accepts
an order. The customer is short of money or points only while a quote is current or
nothing is in the basket, since an order that is short is refused before anything is
compared. The settings, baskets and coupons of Quotes are chosen where the code branches: thresholds just met and
just missed, half paise, the heaviest band, an address inside the instant radius,
outside it, and out of range with and without a state border. The lists of Suggestions
are shorter than what there is to list, so that each is both cut off and filled up; one
store has more products than fit its shelf and the other has one, outside the city of
the address, so that it gets a shelf only if the service names it.

`payments`, `payments_lost`, `money`, `service`, `accounts` and `supply` do not
check deadlock: their rows and caps get used up, and then nothing is left to do.

Fairness. `FairSpec` of Dispatch assumes that queue workers run queued searches,
that they run timeouts, that committed transactions run their hooks and that
time passes (weak fairness of `RunSearch`, `TimeoutFires`, `HookRuns`, `Ages`).
RQ workers justify that as long as nothing fails, which is what that
run assumes after the start of the search. `FaultySpec` lets all of these fail
and assumes only that couriers' applications keep polling (strong fairness of
the polls that enqueue and of workers, since a fault may take any one job away
but not all of them for ever). Nothing is assumed of people: no courier, vendor
or customer is ever obliged to act. `NoticesSpec` assumes that the release job is
started again and again and that a run that does not die goes on (`StartRun`,
`RunStep`): the deployment runs an RQ scheduler and worker that restart by
themselves (`docker-compose.prod.yml`), and the job is there once an administrator
has scheduled it. Nothing is assumed of the queued receipt jobs, which are tried
once. The other modules state safety only: nothing in their code is bound to finish
without somebody asking for it.

Some properties name an overlap that the code does not exclude (`overtaken`,
`overlapped`, `rivals`, `straddled`, `twice`, `unreliable`), or a step of the back office that
nothing in the code compares with what there is (`given`, `restyled`). They say that this
overlap is the only way to the bad state; where the overlap itself contradicts
what the code promises, section 4 lists it.

## 4. Disagreements

One has a run, `payments_lost`: see `findings` in `PROJECT.json`. The others were
met while modelling. Paths and lines are those of the code, and the promise is
quoted or named after "against".

Dispatch, payouts, checkout, payment:

* `delivery/tasks.py:238`: the timeout of an earlier notification withdraws a
  request that was renewed up to 55 s before, against the docstring (217-218).
* `delivery/views/payout_views.py:60`: a courier's unlocked approval can take a
  paid payout back to approved, against `vendors/actions/payouts.py:27`.
* `vendors/actions/payouts.py:65`: editing the period of an unapproved payout is
  not compared with the recipient's other payouts, while creating one is (line
  98, "A payout already covers this recipient and period.").
* `notifications/scheduled_tasks.py:63`: the reminder job selects payouts whose
  status is `pending_verify`, which is not a status (`vendors/models/
  vendor_payout.py:6-13`); its docstring promises a "24h reminder to
  vendor/partner who hasn't verified credit". The job is not in the registry of
  scheduled tasks either.
* `orders/actions/ordering/create_orders.py:80`: a retry that overlaps the first
  submission is told that the cart is empty, against the replay that
  `orders/redesign_regression_checks.py:104` expects. Line 84: two checkouts may lock
  the same products in opposite orders; PostgreSQL aborts one.
* `orders/views/coupon_views.py:134`: saving a coupon in the back office writes
  back the `used_count` it read, over checkouts in between, although the
  serializer declares it read-only (`orders/serializers/coupon_serializers.py:33`).
  `UsageLimitKept` therefore holds only while the count is that of the uses.
* `orders/views/cart_views.py:203`: overlapping additions can mix two stores in
  one basket; orders are per store all the same (`SingleStore`).
* `orders/views/payment_views.py:289`: a payment that arrives after the
  cancellation marks the cancelled order as paid, and nothing refunds it.
  `orders/actions/cancellation_effects.py:45`: an order placed with a proof of
  payment, but with method cod, is not refunded on cancellation.
  `orders/management/commands/reconcile_payments.py:38`: a failed session over a
  captured payment is never looked at.

Wallets and what follows an order:

* `accounts/views/admin_customers.py:109` writes "admin_credit" and
  "admin_debit" into a column of ten characters; PostgreSQL refuses the row.
* a captured top-up is credited only when the customer's application asks for its
  verification; no webhook does it.
* the requests for a refund into the wallet are never processed by any code; the
  ledger does not count the automatic refunds of cancelled orders.
* points redeemed on an order stay spent when it is cancelled.
* a rating whose review fails to be written answers "already rated" for ever; the
  store's number of ratings may miss one (`VendorReview.save` counts unlocked).
* `orders/actions/ordering/issue_messages.py:35`: a late message of the customer takes a
  resolved case back to open, with its resolver still on it.

Notices:

* `notifications/scheduled_tasks.py:222-269`: two overlapping runs of the release
  job notify a store twice (`most` in `ToldOnce`), a deleted notice is sent again at
  the next run, and a run that has found no notice writes it even if the order was
  cancelled meanwhile.
* `orders/actions/ordering/create_orders.py:483`: the notices of a placement leave
  before its commit. If it then rolls back (a paid amount that does not match), the
  pushes and e-mails stay; and a worker that is quick finds no order, fails, and
  nobody mails the receipt.
* `notifications/tasks.py:44`: the job's `get_or_create` has no unique constraint
  behind it, so that an order may have two receipts when a request makes one at
  the same time (`crossed`).

Quotes and catalog:

* a coupon for free delivery is shown with the delivery fee as its discount,
  although the fee is already zero, and the order computes the discount from the
  subtotal: the order is always refused once with `quote_changed`.
* `orders/actions/checkout.py:303`: the preview takes any wallet amount without looking at
  the balance; the order is refused if the wallet is short (`create_orders.py:160`).
* the screen is never told the points to spend, and its sum may differ from the
  order's by two paise (`QuoteStands` says how far, and when it does not).
* `orders/actions/checkout.py:388`: a slot offered within a minute after the half
  hour starts before the preparation time is over (seconds are cut off), one may start
  this very moment, and slots of a later span lie beyond the seven days that an order
  accepts: all of these are refused. In the minute after a full hour the half hour is
  skipped. A store that closes after midnight is offered no slot, and one whose opening and
  closing hour are the same is always open.
* two overlapping decisions leave a proposal "partially approved" though all of its
  items are approved; approving one item twice makes two catalog products; the
  approval of a product does not look at its status.
* `products/views/catalog_views.py:131`: the pictures of a catalog item change under all
  products that show them, which are not reviewed again, while a vendor's own pictures
  send a product back to review (`products/actions/inventory.py:64`).
* `customer_visible_filter` ignores whether the catalog product is active,
  although `visibility_blockers` lists that as a blocker.

Nodes and stores:

* a backfill overwrites a node in maintenance, and makes rows available that the back
  office had withdrawn; the audit accepts inventory at any node of the store.
* `vendors/actions/fulfillment_backfill.py:73`: a backfill finds the store's node by its
  code also when it has become another vendor's or nobody's, and `_sync_node` leaves it
  so; and it never removes another vendor's product that the back office has put at the
  node (`vendors/views/fulfillment_admin.py:181`). The audit stays blocked in each case.
* `FulfillmentServiceAreaRepository.model` is a tuple, and using it raises.
* a stock change saved before a review and committed after it is invisible to
  the review (`straddled`); suspending a vendor does not close the store, and
  approving it again makes it receive orders at once; the closing job closes
  stores that are open past midnight.

Storefront:

* `backend/actions/customer_flow/home.py:153`: when no store is left after filtering
  by the promised node, products are not filtered at all, so home shows the products
  of every store; this happens when the node's store does not itself reach the
  customer. Rows of a store's own node are not asked.
* `backend/actions/customer_flow/location.py:90`: without nodes the promise carries
  the store's id as its `fulfillment_node_id`, which the basket refuses as an unknown
  node, and by which home looks up its categories and finds none.
* `backend/actions/customer_flow/fulfillment_filters.py:40`: exploring takes the
  first node of an unordered query, while the promise is of the nearest.
* with a node, the list of products does not ask whether the store is open, takes
  orders, is in its hours or reaches the customer; search does not ask whether it is
  open or in its hours; the store page asks none of open, taking orders and hours,
  and forgets a node that is off; and only the checkout asks for holidays.
* `vendors/views/discovery_views.py:230`: the stores nearby are those within their
  instant radius, whether or not they deliver to the address (it may lie in another
  state), are open or take orders.
* `helpers/cache_helpers.py:49`: signals empty the cache inside the transaction of the
  save, so a request before the commit caches the old page; restored units, inventory
  rows and nodes send no signal, and a signal that fails is swallowed. A page may be
  old for as long as it is kept (one to two minutes).

* a category is listed on account of a row at a store's node of another store's
  product (`products/data/category_repository.py:50`), and the picks of a store's page
  are shown wherever it delivers; what was bought before is listed whatever the node.

Suggestions:

* `vendors/views/recommendation_views.py:82`: a store without a shelf in the ranking is
  shown the recommended products and then the deals; one that is both comes twice,
  while `_merge_unique_ids` and `used_ids` keep every other list free of repetitions.
* `orders/actions/customer_recommendations.py:97`: the query asks for distinct products
  but is sorted by the time of the order, so that a product ordered often fills the
  list alone before repetitions are removed.
* `orders/actions/customer_recommendations.py:155`: the stores that get a shelf are as
  many as there are in the city; those the service names come first and, in a city of
  more than 24, crowd others out.
* `backend/services/recommendations.py:52`: an answer's ids are not looked at. One that
  is not a UUID ends the job for all customers (a store's) or every later home page of
  that customer (a product's).

Realtime:

* `vendors/consumers.py:27`: a board never asks again, so a store that is suspended
  or an account that is disabled is sent orders for as long as the socket lives.
* `orders/actions/ordering/cancel_order.py:45`: when a customer cancels, the board is
  not told; it shows the order as it was until another change is announced.
* `delivery/actions/partner_actions.py:33`: positions sent by request are saved and
  announced to nobody who tracks; the next one to join is sent them, and may then be
  sent an older one that was still in its inbox.
* `orders/actions/ordering/admin_status.py:41` and `delivery/actions/delivery_actions.py:111`
  announce before the commit: a settlement that fails after it leaves the board with
  an order that is not delivered. Figures are read for such an announcement while the
  change is not committed, and nothing is announced afterwards (`accounts/signals.py:29`).
* `delivery/consumers.py:155`: whoever once accepted an order may publish their
  position to its room, also after the delivery, while who joins is sent the position
  only of an order under way (`delivery/data/partner_repo.py:66`).
* `accounts/actions/admin_actions.py:24`: the figures are answered from a cache that no
  signal empties, also when a socket was told that they have changed; a change within
  fifteen seconds after somebody was answered stays unseen until another is announced.
* `accounts/signals.py:16` does not catch a channel layer that is down, unlike
  `vendors/realtime.py:27`: the request that saved the row fails, after its commit
  where it was not in a transaction.

Accounts:

* a refresh that overlaps a logout leaves its rotated token usable.
* `ProfileView.put` and `UpdateAccountStatusAction` save a whole row and may
  undo a change of password (`overtaken`).
* the set-up of the first superuser is unlocked; two can be made at once.
* `accounts/serializers/user_serializers.py:151`: when the back office edits a customer, number
  and address are compared with administrators' only, so two customers may have the same;
  signing in by a code then takes the account that was created last
  (`accounts/data/user_repository.py:67`).
* `ProfileView.put` saves the whole row as it was read, so that a number or an address
  changed meanwhile comes back, and so does an account that was deleted.
* two verifications of one code both pass if they overlap, each writing back the
  number of tries it read; a code sent earlier stays usable after a later one
  was used, and a code is spent even if the registration is then refused.

Scheduled tasks:

* a repeating job that has run once is shown as finished and cannot be cancelled.

## 5. Proofs

| Module | Theorem | Establishes |
| --- | --- | --- |
| DispatchProofs | `TypeCorrect`, `CourierExclusive`, `RowsAgree`, `CouriersFreed`, `SearchesWakeUp`, `ContractImplemented` | types; one order per courier; order and assignment rows agree; the step that ends a courier's last order frees the courier; no waiting order is forgotten; `DeliveryContract` |
| MoneyProofs (Payouts) | `TypeCorrect`, `VendorDebitedOnce`, `LedgerBalances`, `SettledOnEvidence`, `ContractImplemented` | types (a wallet is never negative); one debit per settled payout; wallet and ledger add up; a reference on what is settled and on nothing that can still be approved; `PayoutContract` |
| MoneyProofs (Wallets) | `WalletsTypeCorrect`, `BonusPaidOnce`, `NothingFromNowhere` | types (no balance is ever negative, though checkouts read balances unlocked); a referral pays once; every balance has its sources |
| CheckoutProofs | `TypeCorrect`, `KeysUnique`, `SingleStore`, `LimitKept`, `UsesLimited`, `NodeUnitsConserved`, `ShelfImplemented` | types (stock is never negative); one order per key and store; one store per order; the limit per customer, and the one of the coupon unless its count was put back; units at a node are conserved; `ShelfContract` |
| PaymentsProofs | `TypeCorrect`, `CaptureBehindPaid`, `OneOrderPerPayment`, `ContractImplemented` | types; a captured payment of the total behind every paid order; a payment goes to a second order only after its session failed; `PaymentContract` |
| AccountsProofs (Sessions) | `SessionsTypes`, `OneLink`, `StaleSessions`, `SomebodyRemains` | types; one usable reset link; old passwords buy nothing; a superuser remains |
| AccountsProofs (OneTimeCodes) | `CodesTypes`, `GuessesLimited`, `EntriesUnique` | types; a code that was not compared twice at once bears so many guesses and no more; one customer per number or address, but for overlaps and what the back office gave away |
| AccountsProofs (Store) | `StoreTypes`, `OpensWithReview` | types (versions and moments are ones that have been); a store opens on a review of the stock there is |
| FollowUpProofs (Realtime) | `RealtimeBoundsKept`, `ScreensAreCurrent`, `SentToTheEntitled` | types (an inbox keeps within its capacity); a quiet screen shows what is stored, but for named reasons; nobody is sent what they were barred from |
| FollowUpProofs (Notices) | `NoticesTypes`, `NobodyToldTwice` | types; as many notices as runs overlapped, and one receipt |
| FollowUpProofs (Aftercare) | `AftercareTypes`, `RefundsCovered`, `RecordsSurvive` | types; refunds stay within the total; resolutions and ratings survive other writers |
| SupplyProofs (Catalog) | `CatalogTypes`, `Reviewed` | types; customers see what was reviewed, of the product and of the item beside it, but for named cases; proposals agree with their items |
| SupplyProofs (Nodes) | `NodesTypes`, `NodeCounts`, `BackfillSuffices` | types (no count is negative); counts and sales agree; after a backfill the audit is content, but for the cases that it cannot repair |
| SupplyProofs (Quotes) | `QuotesTypes`, `QuotesStand` | types (no charge is negative); the screen and the order name the same amounts, and the order is accepted if wallet and points suffice |
| SupplyProofs (Storefront, Slots) | `StorefrontTypes`, `CacheIsCurrent`, `ShownIsOrderable` | types; the cache answers with the page as it is; pages, checkout and slots agree |
| SupplyProofs (Suggestions) | `SuggestionsStand` | a ranking of any age, of any answers, decides the order of a page, and what is shown where there is no room for more, only |

SumTheorems holds what four of these need of `SumFunction` and `SumFunctionOnSet`:
the sum of a finite set is a number, changes by what one summand changes, and splits
off any one of them. The operator is defined by a recursion that chooses its order, so
the lemmas first identify it with the solution of that recursion on the subsets of the
set (`SumIsSolution`, `SolutionExists`) and show that the choice does not matter
(`SumRemove`). They are proved by first-order induction: among the numbers of elements
for which a statement fails there would be a least one (`LeastElement`, `Induction`).

They hold for every value of the constants that the assumptions of the modules
(`DispatchAssumption`, `PayoutsAssumption`, and one for each of the others) allow: any
number of orders, couriers, requests and so on. What the assumptions ask for beyond
distinct names and non-negative bounds:

* finite sets of couriers, of payouts, of orders (Checkout, Wallets, Nodes,
  Aftercare), of top-ups, of refunds, of workers and of stock transactions (Store), where they are counted or summed:
  they are the rows of a table, or processes;
* `QuotesAssumption`: fees and thresholds are not negative and taxes at most 100 %,
  which is what `AdminPlatformSettingsSerializer` validates
  (`backend/serializers/admin_console_serializers.py`); what is in a basket has a price;
* `StorefrontAssumption`: a product has one store, and a node that covers an address
  is one of those of the rollout area (`fulfillment_repo.py`);
* `SlotsAssumption`: times of a day, and ranges of up to 14 days;
* `SuggestionsAssumption`: the three orders in which queries list products and stores are
  complete and without a repetition, so that there are finitely many of both; answers and
  orders are sequences, of which an answer may name anything; a page that fills up with
  popular products is at least as long as their list (12 and 16 in
  `vendors/views/recommendation_views.py`).

`SearchesWakeUp` has a hypothesis of its own, that of the run which checks the
property: only the enqueueing of a started search fails. With the other faults a search can
be lost until somebody polls, which is what `PollingRescues` is about. `QuotesTypes`
has one too: no coupon is worth less than nothing. The column has no validator
(`orders/models/coupon.py`), and a negative discount would be added to the total;
`QuotesStand` needs no such hypothesis.

Each component has an inductive invariant. The proofs are `Init => IInv`,
`IInv /\ [Next]_vars => IInv'` with one lemma per action or group of actions, and the
theorems from it. The invariants strengthen what is stated:

* Dispatch: that a courier has one order follows only if no accepted assignment
  is left behind by an order that has ended or lost its courier, so the invariant
  relates both rows of every order, and the two orders of a courier through them.
  `WakeInv` adds that an order has no assignment before it was ready once: otherwise
  a forgotten search could become one that counts when the vendor moves the order on.
* Payouts: a wallet that covers each payment is not enough; the invariant says
  that it never exceeds what was credited, that recipients never change once a
  payout exists, and that a courier's payout has no debit, so that the couriers'
  unlocked saves cannot disturb the vendor's side. Of references it says (`EInv`) that
  a verification under way has read one that stays, since it saves its status
  over whatever has become of the row. That the ledger adds up follows from one debit per
  payout and a sum that changes in one place.
* Wallets: what a checkout holds is covered by the balance until it commits
  (`HeldCovered`), whatever it had read before; the bonus is paid exactly if the
  referral is marked, and then for an order that was placed (`BonusBook`,
  `Placed`). For the sums, what the transactions say is true of the orders and top-ups
  they name (`MovesTell`): an open order has not been credited yet.
* Checkout: `KeysUnique` rests on the unique constraint, `SingleStore` on the
  check under the cart's lock and not on the one in the basket; `LimitKept` on
  the uses counted under the coupon's lock. `UsesLimited` also needs that the
  number an editor has read is within the limit (`CountsWithin`), and
  `NodeUnitsConserved` that only placed orders have a reservation and that orders from
  before there were any have no node (`LedgerFits`, `NoneOlderAtNode`).
* Payments: what a request remembers between its read and its save must still
  be true when it saves, whatever happened in between (`Remembered`): totals and
  amounts never change, captures are not undone, and a gateway order that was
  ever opened for an order is for that order's total. `Traced` follows a payment to the
  orders it may yet pay for: without a session there is one (`OneOwner`); with one,
  verifications and webhooks keep off (`SessionsApart`), and an order is never paid
  without a mark on the session (`SessionsMarked`).
* Sessions: no request and no token carries a later hash than the account has,
  unless a stale row was saved over it (`HashesOrdered`), and the rows that
  requests have read of administrators are those of active superusers
  (`StaffSuper`). That one more superuser is left is a fact about cardinalities,
  proved as a lemma of its own.
* OneTimeCodes: a request about to compare a guess has read the number of guesses as it
  still is, and is alone, unless it overlapped another (`GuessesCounted`); what a
  request is about to write for an account no other account has, but for what another was
  about to write at the same time and what the back office gave away (`FoundFree`).
* Store: times are used once, so a review that no saved and uncommitted change
  straddles is either of the version there is or older than the shelf's
  timestamp (`InOrder`, `ScreenTells`, `ReviewTells`).
* Realtime: a screen that misses nothing shows what there is or has it in its inbox,
  where of positions and orders the last one is what was announced last (`Follows`); as
  long as nothing disturbed them, one writer at a time announces, and the latest change
  (`InTurn`); figures that a socket has counted are those there are, unless it misses
  something or is about to be told (`Draws`); `StagesFit` and `InPlace` say which stages a kind of room has, and that what
  a socket is about to send came about while its user could see the room.
* Notices: runs that are about to write count already (`FindersCounted`): when the first
  of them looked there was no notice, so that there are no more of them than runs under
  way. `ReceiptInv` counts those about to add a receipt in the same way.
* Aftercare: a store's count that is under way is of reviews there were by then, and its
  own (`CountsSound`). Refunds need only the sum under the order's lock.
* Catalog: what a reviewer's list holds of a product is what the product still is,
  as long as it is pending and nobody overtook the list (`ReviewInv`), and of the item
  what the item still is unless it was changed (`ItemInv`); and the status of a
  proposal follows the items written in the same transaction.
* Nodes: what left the row since the last count belongs to orders that still refer to the
  node, and what came back to orders that were returned (`SalesFit`); what the editor and
  the backfill have read is still so unless something moved (`ReadingsCurrent`).
* Quotes: a current quote is what one of the two codes computes from what there is
  (`Quoted`), so that what remains is arithmetic: rounding to the even neighbour moves a
  number by half a unit at most, commutes with whole amounts and keeps the order, so
  the two ways to round differ by no more than the exceptions of `QuoteStands` allow.
  With coupons that are worth something, every summand of a total, rounded or not, is a
  number that is not negative (`FeesNat`, `TaxNat`, `DiscountNat`).
* Storefront: a request that nothing has overtaken has computed the page as it is
  (`Following`). `PagesAgree` is about one state: why the checkout refuses a
  product (`RefusedFor`) is compared with what each page asks, page by page; the slots'
  part is arithmetic on half minutes.
* Suggestions: nothing that is stored, or read by a job under way, is in a list twice
  (`Unique`). The rest is about one state and about lists: what `Only`, `MergeUniqueIds`
  and `Shelf` make of any sequence. `Only` is a recursive
  function and `MergeUniqueIds` a fold; a function that solves each of them exists by
  `Recursion`, on the numbers up to the length of the list, and gives it one step at a
  time (`OnlySteps`, `MergeSteps`). A shelf is read off the places of its products,
  which in a total order number them without a gap (`Numbered`). A page is then as long
  as it may be because each of its parts takes what the parts before left over
  (`LengthIs`, `OthersAre`, `LastPart`).

Types are part of these invariants, but for bounds that nothing else needs: that a store's
version counts the changes that were committed (`StoreBounds`), and that an inbox grows
below its capacity only (`RealtimeBounds`).

Only model-checked: the liveness properties (`SearchResolves`, `PollingRescues`,
`StoreHears`), since liveness and `ENABLED` are out of the prover's reach. The library's
induction theorems, which take an operator, are out of it too; where a proof is about all
sums or all sequences, it uses first-order induction, for one property at a time.

## 6. Not modelled, and what is left

* Notifications other than those of Notices, the recommendation service, files, the
  admin console, the API v1 facade and configuration: they read the other parts' rows,
  or write rows that nothing reads back.
* Support tickets: an administrator's handler writes what was sent, whatever the
  ticket's state, and there is no other step to interleave with.
* Node selection by distance, service areas and the expiry of promises: read-only.
  The promise of a basket is recomputed at checkout (`Refuse` in Checkout).
* Bank details and the onboarding form; e-mail verification codes (the same
  pattern as OneTimeCodes, with two valid codes at a time); grants of
  permissions; categories, signatures and the copying of inherited texts.
* The administration of scheduled jobs: what a job does next is up to the queue
  library. `reconcile_payments` and the reconciliation of reservations: their
  selections are empty or only annotated, see Payments and Checkout.

Serializers, query builders, routes, settings, migrations and templates make up
most of the repository's lines. They keep no state and take no decisions that a
step of the models does not already stand for.

What is left to prove: every safety property and action property that a run checks is a
theorem, and so are the type invariants, but for that of Suggestions, which is a part of
its invariant. That leaves the three liveness properties.
