# A verification development of bomboli-server

bomboli-server is the NestJS back end of a marketplace: sellers list items,
buyers fill a cart, turn it into an order and pay for it, deliverers bring it.
State lives in Postgres (through Prisma), in Redis and at the payment providers;
the process itself keeps almost none. What is hard about it is therefore not
what one request does but what several do at once: nearly every handler reads
rows, awaits something and writes back a decision made on what it read.

The modules here model those handlers, split at the awaits where another
request can run, and state what must hold whatever overlaps. TLC checks them on
small instances; TLAPS proves the safety properties for every instance.

## 1. Inventory

| component | state | operations | interacts with | what makes it correct |
|---|---|---|---|---|
| Orders (`modules/orders`) | `orders`, `order_items`, row locks on `listings` | createFromCart, transition, cancel, cancelBySystem | locks and writes listings, empties the cart, is cancelled by the payment listener | no overselling, no lost stock write, an order contains only what was on sale, statuses follow the table, a cancellation restocks once |
| Listings (`modules/listings`) | `listings`: stock, status, currency, soft deletion | update, publish, archive, softDelete | written by Orders | a seller's edit never slips between a checkout's check and its write |
| Cart (`modules/cart`) | `carts`, `cart_items` | addItem, updateItem, removeItem, replace | read and emptied by Orders | one seller and currency per cart |
| Payments (`modules/payments`) | `payments` (one per order), `orders.paymentId` | createForOrder, confirm, applyWebhookEvent, manualConfirm, refund | provider API and webhooks; emits `payment.failed` | at most one charge per order, the row agrees with the provider, webhooks are not lost, what is marked is followed up |
| Payment listener (`orders.payment-listener.ts`) | none | onPaymentFailed | cancels orders | exactly the orders of declined payments are cancelled |
| Providers (`payments/providers`) | charges, outside; PayPal's access token, cached in the process | createIntent, captureOrder, refund, verification and translation of webhooks | Payments | a call the provider makes is read as what it means; a token that is no longer accepted delays, but loses nothing |
| Idempotency (`common/interceptors`) | one Redis entry per user, route and key | SET NX, GET, SET | wraps POST /orders and POST /orders/:id/payment | one effect per key, the right answer on replay, no retry blocked for nothing |
| Timeout (`common/interceptors`) | none | answers 408 after 30 s | the handler keeps running | a timed-out request is not executed twice |
| Listing photos (`listings/photos`) | `listings.photos` (one JSON column), a bucket, a BullMQ queue | initUpload, commit, delete; the image worker | worker and requests write the same column; the worker is retried | no photo resurrected, at most MAX_PHOTOS, what is shown as ready has its files, a committed photo gets processed |
| Addresses (`users/addresses`) | `addresses.isDefault` | create, update, remove, setDefault | copied into orders | at most one default per user, lost only with its address |
| Deliverers (`modules/deliverers`) | `deliverers`, `orders.delivererId` | createByAdmin, assignToOrder, setMyAvailable | writes orders, decides who may transition | the one who carries an order is the one it names |
| Users, Auth (`modules/users`, `modules/auth`) | `users`, the mirror of Supabase's accounts | signup, the sessions, JIT provisioning of the JWT strategy, the auth webhook | Supabase | every account gets its row, newer knowledge is kept |
| Sellers (`modules/sellers`) | `seller_profiles`, `seller_stats` | upsertMyProfile | a user must exist | a profile comes with its statistics |
| Discovery (`modules/discovery`) | none: reads `listings` | search, home feed | what sellers, checkouts and cancellations write | a search misses and repeats nothing while it is undisturbed, the queries agree, paging ends |
| Devices, recently viewed, Mail, Health, infrastructure, common, config | - | single upserts, I/O, plumbing | - | see section 7 |

The hard behaviours: interleaved requests over shared rows (all components),
checks made on rows that have changed by the time of the write (order
transitions, cancellation, payment marks), row locks and who waits for whom
(checkout against cancellation and sellers), webhooks that are repeated,
overlap or arrive early (Payments), process deaths and failed calls between two
writes (markSucceeded, the listener, the idempotency marker), timeouts whose
handler goes on, entries that expire, retried jobs (photos), calls that are lost
or overtaken (Accounts), pages cut from a list that changes (Discovery).
`PROJECT.json` lists them line by line under "hazards" with the properties aimed
at each.

## 2. Modules

| module | models |
|---|---|
| `Orders` | checkout, fulfilment and cancellation over listings and carts, with row locks |
| `OrderLedger` | what Orders promises: atomic sale, move and cancellation over a stock count; and what is left of it when requests overlap |
| `OrdersRefinement` | Orders read as an OrderLedger: the refinement mapping |
| `OrdersProofs` | theorems about Orders, and that it implements OrderLedger |
| `MCOrders` | Orders for TLC: two listings of two sellers, contents of carts |
| `Payments` | the payment of an order, its provider, its webhooks and the listener |
| `PaymentsProofs` | theorems about Payments |
| `MCPayments` | Payments for TLC |
| `Cart` | the cart of a user under concurrent requests, a checkout and sellers' edits |
| `CartProofs` | theorems about Cart |
| `MCCart` | Cart for TLC: three listings of two sellers |
| `Idempotency` | the Idempotency-Key protocol over Redis, with the timeout inside it |
| `IdempotencyProofs` | theorems about Idempotency |
| `MCIdempotency` | Idempotency for TLC |
| `ListingPhotos` | the photos column of one listing, its files, its requests and the image worker |
| `ListingPhotosProofs` | theorems about ListingPhotos |
| `MCListingPhotos` | ListingPhotos for TLC: three photos, two jobs |
| `Addresses` | the default among one user's addresses, statement by statement |
| `MCAddresses` | Addresses for TLC: four addresses, three requests, symmetry |
| `Delivery` | deliverers and one order's assignment beside its transitions |
| `MCDelivery` | Delivery for TLC: two people, three requests, symmetry |
| `FulfilmentProofs` | theorems about Addresses and Delivery |
| `Accounts` | the users table under signup, sessions, tokens and the auth webhook |
| `AccountsProofs` | theorems about Accounts |
| `MCAccounts` | Accounts for TLC: an account with an email and one without |
| `Discovery` | a client that pages through a search, and the rails of the feed |
| `DiscoveryProofs` | theorems about Discovery |
| `MCDiscovery` | Discovery for TLC: four listings of two sellers |

Every property is stated at the end of the module it is about. Definitions whose
comment begins with "Mutant:" are variants of the definition that follows them,
wrong the way a plausible slip in the code would be; nothing uses them. They
show that the property they belong to can fail.

### Orders

A request is an element of `Request`; `pc[r]` says what it is in the middle of,
and `basket`, `target`, `goal`, `seen` are its local variables. Database rows are
`listing`, `cart`, `status` and `placed` (what an order was created from).

* `createFromCart` is `StartCheckout` (reads the cart, without a lock),
  `LockListing` once per line (SELECT ... FOR UPDATE grants one row after the
  other, in an order the query does not fix), and `CommitCheckout` or
  `RejectCheckout` (the loop over the lines, the inserts, the emptying of the
  cart; the writes become visible at commit). Every line is checked on the row
  that came with its lock. `AfterSale` is the absolute write of `newQty`.
* `cancel` and `cancelBySystem` are `StartCancel` (reads and checks the status),
  `LockListing` (each UPDATE takes its row) and `CommitCancel`. A deleted listing
  is skipped (`WHERE "deletedAt" IS NULL`). The status is not checked again,
  exactly as in the code.
* `transition` is `StartTransition` and `CommitTransition`, again without a
  second look at the status.
* the seller's `UpdateListing`, `SoftDelete`, `StartSetStatus`/`CommitSetStatus`
  are single UPDATE statements that wait for the row lock. publish and archive
  check the status first and write it later.
* `Abort` is every way a transaction ends without effect: Prisma's timeout, a
  deadlock victim, a dead process.

`supplied`, `sold` and `returned` are history: units put on sale by sellers, in
committed orders, and put back by cancellations; `restocks` counts the
cancellations of each order that committed. `contested` are the orders that two
requests were about to move or cancel at the same time, `doubled` the fillings of a
cart that two checkouts had read at the same time. `fill` counts the edits of a
cart, so that two orders made from the same filling can be told apart.

The contents of a cart (`CartContents`) are an input: one unit or two of a line,
lines of two sellers at once and a line without seller, the last two being what
overlapping cart requests can produce.

### Payments

No method of the payments service runs in a transaction, so each is a chain of
steps: `StartPayment`, `InsertPayment` (which settles on a configured provider),
`CreateIntent`, `StoreRef`, `FailIntent` for `createForOrder`; `StartConfirm`,
`Capture`; `StartRefund`, `CallRefund`; `ReceiveWebhook` / `IgnoreWebhook` /
`RefuseWebhook`; all ending in `Mark` (and `Link` for `markSucceeded`). `Mark`
writes whatever was decided on the status read at the start. The listener is
`Listen` (cancelBySystem reads the order) and `AutoCancel` (cancelInternal writes);
`transition` and `cancel` by people are `StartMove`, which checks the status, and
`CommitMove`, which writes the new one over whatever is there by then.

`confirm` captures the PayPal order its body names, or else the stored one, and
`providerRef` is not unique. References are therefore seen from one order: its
`"own"` charge or some `"other"` PayPal order. `StartConfirm` takes either, also
while nothing is stored; `CaptureOther` captures the other one and marks this
payment, `ReceiveWebhookOfOther` is a webhook that finds this payment by the other's
reference, and `CaptureForAnother` is the confirm of another payment that names this
order's charge. Nobody knows a charge's reference before `createForOrder` has
answered with it.

The four providers differ as their code does. Stripe lets a buyer try again after
a decline. PayPal collects only when `confirm` has asked it to (`Capture`, whose
answer may also be "pending"), may reverse a capture, and its refunds always
fail: `refund` names the order id where the API wants a capture id. PawaPay asks
the buyer's phone at once, before `StoreRef`, and carries out a refund later or
fails to; its report of a failed refund has the status of a failed deposit, and
is translated as one (event "voided" or "refundFailed"). MANUAL has no provider.

`charge` is the provider's side, `issued` the calls it has made of its webhook,
`unanswered` those no 2xx answer has stopped yet; a call may always be delivered
once more. `createIntent`, `captureOrder` and `refund` may throw with or without
having had their effect. `token` is PayPal's cached access token (none, good, or
stale: cached but no longer accepted); webhooks are verified with it, so that a
stale one has them refused until the local clock expires it.

`Crash` loses requests, listener invocations, in-process events and the token;
`Throw` is a failed database call in one task; `RevokeToken` makes the cached
token stale. All three are bounded by `MaxFaults`; a refund fails at most once
per order. The order is reduced to its status; Orders has its stock.

Five sets of orders are history: `elsewhere` (confirm has captured another PayPal
order for this payment), `shared` (another payment may have been given this one's
reference), `reopened` (a transition was written over a closed order), `lostEvents`
(a fault took away `payment.failed` or the cancellation under way) and `halfLinked`
(a fault between the two updates of `markSucceeded`).

### Cart

One user's cart: `row` is the cart's seller and currency (`Null` before the cart
exists), `line` the cart item of each listing. Requests run in transactions at
READ COMMITTED, so what is modelled is where each reads, where it waits for a
row another one has written (`rowLock`, `lineLock`), and its commit, when its
writes become visible.

* `addItem` is `ReadListing` (outside the transaction), `ReadCartToAdd` (the
  check of seller and currency), `WriteCart` and `CommitAdd`; `existing` is what
  the read found, so a cart created meanwhile makes `cart.create` fail.
* `replace` is `ReadListing`, `ReadCartToReplace`, `DeleteLines`,
  `CommitReplace`. A checkout clears the cart by `StartClear`, `DeleteLines`,
  `CommitClear`: the deletion takes the lines that are committed by then.
* `removeItem` is `FindLine`, `DeleteLine`, `CountLines`, `ReleaseCart`;
  `updateItem` is `FindLine`, `UpdateLine`. Lines are named by id: one that is
  removed and added again is another line.
* `OpenCart` is the empty cart that any read creates; `ChangeCurrency` is a
  seller's edit between two additions.

`crossed` is history: a request committed a change of the cart between the moment
another one had read it (`HasRead`) and that one's own commit. Until then
`LinesMatchCart` holds, although requests overlap, wait for each other's rows and
fail, and sellers edit currencies in between. Once it has happened the code keeps
not even one seller per cart (`cart_one_seller`).

### Idempotency

Each Redis command is a step: `Acquire` / `FindEntry` (SET NX), `Get`, `Store`.
The handler's effect happens in `Succeed`, or in `Fail` (it may throw before or
after). `TimeOut` answers 408 and leaves the handler running, whose later result
is discarded and not stored, because the response stream has been unsubscribed.
`Expire` is the TTL, `Crash` the death of the process. Redis survives.

### ListingPhotos

`photos` is the JSON column; every writer has read it into a copy (`req[r].copy`,
`job[j].copy`), changes one entry and writes the whole copy back (`SetPhotos`).

* `initUpload` is `InitUpload` (the limit, on the row read; the id) and `AddEntry`;
  then the client may `Upload` the file to the signed URL at any time.
* `commit` is `Commit`, `MarkUploaded` and `Enqueue`; `delete` is `Delete`,
  `EraseFiles` (an error of the storage is ignored, as in the code) and
  `RemoveEntry`. `Fail` ends a request at any await.
* a job is `Download`, one `UploadVariant` per size, `ReRead`, `Patch` (the write of
  the column) and `Complete` (BullMQ takes note). The processor is a provider of
  ListingsModule, which the API process (`main.ts`) and the worker process
  (`worker.ts`) both boot: any number of jobs run at once, of one photo too, each in
  one consumer at a time. `WorkFails` is a step that throws, `Stall` the death of a
  worker, after `Patch` too; BullMQ's attempts and stalls decide between another run
  and the failed set.

`intended` is history: the column as the same operations would have left it had
each been atomic. `overwritten` are the photos whose entry a writer has put back as
it was before somebody else's write, the lost update the code permits;
`PhotosAsIntended` holds of every other entry, those that share a write with it
included. `erased` are the photos whose files a delete has removed, `committed`
those whose commit was answered.

### Addresses

`create` and `setDefault` are transactions at READ COMMITTED. `Clear` takes the
snapshot of their UPDATE of the other addresses, `ClearRow` locks one row of it
after the other, `SetRow` is the second UPDATE of `setDefault`, and `Commit` makes
the writes visible. `Create` decides whether a first address is the default by a
read before the transaction. The unique index `addresses_user_default_unique` (one
row with `isDefault` per user) is `claim`: `EnterDefault` puts the new default into
it, waits for a transaction that has entered or is about to drop another, and
`Refuse` is the violation when that one stays. `Remove` is one DELETE. `Abort` rolls
back (an error, a deadlock, a dead process).

### Delivery

`CreateByAdmin` / `CreateProfile`, `SetMyAvailable`, `AssignToOrder` /
`FindDeliverer` / `Assign`, `Transition` / `Move` and `Cancel` / `CancelOrder` read
an order or a profile, check, and write by id some awaits later. `mover` is who
moved the order last, `stale` that a request wrote after the order had changed
under it. The status table here is that of Orders, which has the stock. Requests
are calls and their steps stages here (`Call`, `stage`, `call`), so that
`FulfilmentProofs` can extend Addresses and Delivery together.

### Accounts

`auth` is Supabase's record of an account, `users` the row that mirrors it. A
change of the record calls the webhook (`hooks`), which arrives in any order
(`Deliver`) or never (`LoseHook`): the code answers errors and nobody repeats the
call. Meanwhile `Signup`, `VerifyEmailOtp`, `LoginWithPassword`, `ResetPassword`,
`ExchangeOAuthIdToken`, `Refresh` and `Validate` (the JWT strategy, which knows only
the claims of a token) carry a copy of the record to `DoProvision`; the reset takes
its copy when the code is verified and then changes the record once more
(`SetPassword`, with a webhook call of its own). `Upserted` is
the one INSERT ... ON CONFLICT of `provisionFromSupabase`: the phone is written
always, the verification only when the caller knows it. `Taken` are its unique
columns. A seller's profile and its statistics are `UpsertProfile` and
`InsertProfile`. `late`, `lost` and `conflict` are history.

### Discovery

`StartSearch`, `ReadRows`, `CountRows` and `NextPage` are a client following
`hasMore`; rows and count are two queries, in either order (Promise.all). `Ordered`
is any order the ORDER BY allows, so that equal keys may come differently each
time. `CatalogueStep` is what sellers, checkouts, cancellations and time do to
listings meanwhile; `seen` records what that meant for the search under way.
`Feed` is the rails of the home feed, `ListBySeller` and `FindPublished` the two
lists of the listings module: seven queries that each repeat the rule of what is
visible.

## 3. Runs

| run | instance | shows |
|---|---|---|
| orders_concurrent | 2 listings of 2 sellers, 1 buyer, 2 orders, 2 requests at a time, quantities 1 and 2, one filling of the cart, symmetry | type correctness, no overselling, no lost stock write, orders are sold as listed, dispatch is not skipped; restocked once unless contested, one order per filling unless doubled; Orders implements OrderLedger |
| orders_double_restock | the same in one currency | violation: two cancellations return the units twice |
| payments | 1 order, 2 requests, 1 listener, all providers, one kind of transition, 1 fault, fairness | books match the provider unless confirm captured elsewhere, charged once, auto-cancel justified, failures and successes are followed up; declined orders get cancelled, captured charges are noticed |
| payments_early_callback | PawaPay alone, no faults, fairness | violation: a failure reported before the reference is stored cancels nothing |
| cart | 1 user, 3 listings (2 of one seller), 2 requests at a time, at most 2 lines created, quantities up to 2, symmetry | lines match the cart's seller and currency and an empty cart is free, until a request changes a cart another has read |
| cart_one_seller | the same | violation: a cart holds lines of two sellers |
| idempotency | 2 users, 1 key, 3 requests, 1 expiry | one effect per entry life, own answers |
| listing_photos | 3 photos, 1 of them there at first, limit 2, 3 requests and 2 at a time, 2 jobs, 2 variants, 2 attempts, 1 stall, fairness | the entries are as intended but for those put back by an old copy, the limit holds regardless, ready photos have their files, committed photos get processed |
| addresses | 4 addresses, 3 requests, symmetry | at most one default; it is lost only with its address |
| delivery | 2 people, 3 requests, symmetry | the carrier of an order is the one it names, until a request writes on a stale check |
| accounts | 1 account with an email, 1 without, 1 number, 2 requests, 3 versions of a record, fairness | the mirror settles, a verification is not cleared by those who do not know it, accounts with an email get their row |
| discovery | 4 listings of 2 sellers in 2 categories, pages of 1, offsets up to 2, 2 changes, fairness | nothing missed or repeated while undisturbed, the rails agree with the search, paging ends |

The violation runs are disagreements between the code and a line of the repository
that says otherwise; `PROJECT.json` quotes the line under "findings", section 4 the
rest of them.

**Why the bounds are enough.** Two requests at a time are what every race of
this code needs: each conflict is between one read and one write. Two listings
let row locks be taken in different orders and give a cart lines of two sellers;
stock 1 or 2 with quantities 1 and 2 meets the exact, the short and the
sold-out case. The cart is filled once in the run: a second filling, and an edit
between the read of the cart and its checkout, are too many states for it and are
covered by the theorem (`OrderedOnce`) alone. Payments of different orders touch
only where one is confirmed with the reference of the other, which one order sees
as `"other"` and `CaptureForAnother`; so one order covers them. Two requests give
every pair of overlapping webhooks, confirm, refund, transition and createForOrder,
and the listener has an invocation of its own. One transition, to ON_THE_WAY, is the
one that can reopen an order; with all three the safety properties hold as well
(910,475 states). One fault is what separates two writes. Two cart requests are the two sides of
each of its races; two lines are the first and one more, of the same or another
seller, and quantity 2 is an increment. Three requests under one key are the one at work, its
duplicate and the retry after an expiry. A listing with one photo and a limit of
two is full after one upload; two requests and two jobs are four holders of a copy,
and two attempts and one stall are the first run of a job and its repetition of
either kind. Three requests on addresses are a creation, a choice and whoever
comes between them. An order that passes through three requests meets assignment,
move and cancellation at once. Three versions of a record are signup,
confirmation and the new password after a reset, so that a copy can be two behind; the account without
an email is in the same run because only then can two rows want one phone. Two
changes and pages of one listing put a change between any two queries of a
search; a third would only repeat what `seen` records. The runs with symmetry
(orders_concurrent, cart and cart_one_seller, addresses, delivery) check safety only,
and the elements permuted are told apart by nothing. Deadlock checking is off where the bounded counters
(fillings of a cart, orders, faults, requests, drawn ids, versions, changes) let
the system come to rest.

**Fairness.** Payments: every await is eventually answered (weak fairness of
`Continue` per task), Node's event loop delivers an emitted event (weak fairness
of `Listen`), the clock expires a cached token (`ExpireToken`), and a provider
repeats a webhook call until it gets a 2xx answer (strong fairness of delivery
while a call is unanswered: a task has to be free, which comes and goes). Nobody
is assumed to pay, ship, confirm or refund. ListingPhotos: the worker process keeps
running, so that a job that can go on does (weak fairness of `Work`); that nothing
fails for ever follows from the bound on attempts and is not assumed. Accounts: a
webhook call that is not lost arrives (weak fairness of `Deliver`). Discovery: a
query is answered and the client goes on (weak fairness of `SearchStep`). Orders,
Cart, Idempotency, Addresses and Delivery state safety only.

## 4. What overlapping requests keep and what they break

The row locks do their work: `NoOversell`, `StockLedger`, `SoldAsListed` hold for
any overlap because every check of a checkout is made on a row that stays locked
until the write (`LockedRowsAreCurrent`). To whoever looks at stock and orders,
checkouts and cancellations are even atomic (`ImplementsLedger`): only the
status an order is moved from may be an old one, and only where two requests were
about to move the same order. The unique columns do their work too: one charge per
order, one row per account, one default per user. `NoSkippedDispatch` is what
survives of the transition table under stale reads. What nothing protects is broken
by overlap, and the history variables say exactly when, each of them narrowed to the
row, the filling or the entry that was hit: `contested` and `doubled` (Orders),
`elsewhere`, `shared`, `reopened`, `lostEvents` and `halfLinked` (Payments),
`crossed` (Cart), `overwritten` (ListingPhotos), `stale` (Delivery), `late`
(Accounts). A property that excuses such a case does not catch the hazard itself; it
shows that nothing else causes it.

* **Orders.** Two checkouts that read the cart before either clears it turn one
  filling into two orders. Two cancellations restock twice
  (`orders_double_restock`), although `cancelBySystem` is said to be "Idempotent on
  already-cancelled orders" (`orders.service.ts:375-376`). A transition or a publish may be written over a
  status that has changed.
* **Cart.** "a cart contains items from exactly one seller at a time"
  (`docs/api-reference.md:1148-1149`) is not kept: two `addItem` calls on an empty cart
  leave lines of two sellers (`cart_one_seller`). "Removing the last item resets
  `sellerId` and `currency`" (lines 1154-1155) neither: two `removeItem` calls leave an
  empty cart locked to a seller. No order is made of such lines (`SoldAsListed`).
* **Payments.** A second webhook that also read PENDING overwrites the first's
  status. `confirm` captures whatever PayPal order its body names
  (`payments.service.ts:225`, `:244`) and marks this payment SUCCEEDED (`:255`), with its
  own charge untouched: the exception `elsewhere` in `BooksMatchProvider`. A transition
  that read the order before the listener cancelled it is written over the
  cancellation (`orders.service.ts:303`, `:317`): the exception `reopened`. A PawaPay
  callback that comes before `StoreRef` finds no payment, is answered with success and
  not repeated, so that the declined order stays open (`payments_early_callback`),
  although "When a provider reports payment failure, the backend automatically cancels
  the order and restocks inventory" (`docs/api-reference.md:1430-1431`). If the second
  update of `markSucceeded` fails, no later call links the order, because the payment is
  no longer PENDING. `payment.failed` is an in-process event and dies with the
  process. After a failed intent the order can neither be paid (one payment per
  order) nor is it cancelled.
* **Providers.** PawaPay reports a failed refund as a failed payment
  (`pawapay.provider.ts:159`); coming before the capture is recorded it cancels a
  paid order, which is the exception in `AutoCancelJustified`. PayPal refunds give
  the order id where `paypal.provider.ts:204-206` says a capture id is needed.
* **Idempotency.** After an error or a timeout the in-flight marker stays until it
  expires, so that a retry under the same key is refused meanwhile.
* **Photos.** Whoever writes back an old copy takes back what others wrote since:
  request against job, and one job against another of the second consumer.
  The limit holds even so: a writer adds one entry to the copy it has counted.
* **Addresses.** "Exactly one is the default at any time; this is enforced at the DB
  level" (`docs/api-reference.md:552-553`): what the unique index enforces is at most
  one. The UPDATE of the others misses a row inserted meanwhile, and the index then
  refuses the second default. A user may well have none: after the default is removed,
  which promotes no other, or when the first address is created with
  `isDefault: false`, with no overlap at all. `setDefault` of an address removed
  meanwhile answers 404, having cleared the others.
* **Deliverers.** An assignment that was checked in PREPARING may be written after
  the order left, so that the carrier and the one named differ. Unavailable
  deliverers may be assigned; the code says so on purpose
  (`deliverers.service.ts:75-78`).
* **Accounts.** "The actual user provisioning into the local DB happens via the auth
  webhook" (`phone-otp.controller.ts:30-31`), but the webhook answers 400 to a record
  without an email (`supabase-webhook.controller.ts:49-51`), which every account made by
  SMS code is; such an account gets its row from a session or its first token. A delayed webhook call or session overwrites a newer row. The
  phone typed in at signup is erased by the first session or call, whose record
  has none. The JWT strategy stores the empty string of a token's phone claim,
  and `refresh` the empty email of an account without one: a second such account
  collides with it.
* **Discovery.** A page and its count may disagree, and pages cut by OFFSET skip or
  repeat listings that move. `hasMore` promises pages beyond the largest offset
  the API accepts. `vendeursProches` shows sellers all of whose listings have
  expired or are beyond the radius of their category, and the quartile of
  `bonsPlans` counts expired listings.

## 5. Proofs

Every theorem holds for all values of the constants that the named assumptions of
its module allow: any number of requests, rows and jobs, not the two or three of
the runs. Each component's proof has the same shape: an inductive invariant made
of named parts (`IInv`; Delivery's is `CarrierInv`), one lemma per action, the
theorem that it is invariant (`Invariance`, `CarrierInvariance`), and the
properties as consequences.
Type correctness is proved for each of them.

| module | theorems | what the invariant adds, and why it is needed |
|---|---|---|
| `OrdersProofs` | `NeverOversold`, `StockAccounted`, `LocksHold`, `OrdersAreSoldAsListed`, `DispatchNeverSkipped` | `NoOversell` and the absolute write of `newQty` need the row a checkout checked to be the row it writes (`LockedRowsAreCurrent`), and that needs every writer of a listing to respect `lock`. `RequestInv`: whoever is about to write DELIVERED saw an order that had left PREPARING, and no order returns there |
| `OrdersProofs` | `LedgerImplemented` | `RequestsKnow`: a checkout remembers at least one line, a cancellation remembers the order's own lines, because no order is ever given others, and has locked no deleted row. `AloneInv`: the first request about to move an order knows its status for as long as no second one has begun, and from then on the order is contested |
| `OrdersProofs` | `OrderedOnce` | `FillingsInv`: a cart that still has lines has not been ordered (`CartsInv`), and a checkout whose filling is not doubled is the only one of it and is going to make its first order (`CheckoutInv`) |
| `OrdersProofs`, for finitely many orders | `SoldUnitsAreOrdered`, `CancelledOrdersGaveBackOnce` | the units taken from a listing are the sum over the orders that exist, those given back the sum over the cancellations that committed (`GotBack`), one for each cancelled order that is not contested (`RestocksKnown`). `SumOfChange`: a sum moves by what its one changed term moves |
| `PaymentsProofs` | `BooksAreRight`, `OneCharge`, `CancelsAreJustified`, `NothingIsTakenBack` | `TaskInv`: what each task between two awaits has decided on justifies the write it is going to make. It stays true under the steps of all others because what it speaks of only moves forward; that is `NothingIsTakenBack`, a theorem of its own. `GivenOk`: a foreign reference comes only with a confirm that has captured elsewhere or is about to |
| `PaymentsProofs` | `FailuresAreFollowedUp`, `SuccessesAreFollowedUp` | `FollowUpInv`: no payment that a webhook can find has its `createForOrder` still at work (`AnsweredInv`), nor has one that a task is about to fail (`InformedInv`); so a payment that is FAILED was marked, with its event, and not refused |
| `IdempotencyProofs` | `EffectOncePerKey`, `AnswersAreOwn` | `PermitsInv` counts the handlers at work and the one an empty entry has room for together with the effects: `OncePerKey` alone is kept by no step that starts a handler. `HeldInv`: what Redis and the requests hold are responses of runs that took effect |
| `CartProofs` | `LinesMatch` | `ReadsInv`: as long as no request has changed the cart under another, the lines match the row and `Stage` says of every request in flight, however many there are, that what it has read, deleted and locked is still so. Sellers' edits and rollbacks come between those steps |
| `ListingPhotosProofs` | `ColumnIsAsIntended`, `LimitHolds`, `ReadyIsFetchable` | whatever is written to the column was once a copy of it, so `RequestsInv` and `JobsInv` say of every copy in flight, stale or not, of any number of requests and jobs, what is to hold of the column: not over the limit, below it where an entry is to be added, and ready only where the files are |
| `FulfilmentProofs` | `OneDefault`, `DefaultStays` (Addresses) | `ClaimInv`: the transaction that has entered its default in the index has written every committed one. `FreshIds`: an address found and then removed never comes back |
| `FulfilmentProofs` | `CarrierStaysAssigned` (Delivery) | `CallsInv`: an assignment whose check is fresh finds the order not yet moved, a transition the deliverer it was checked against; `NotMovedYet` joins the two |
| `AccountsProofs` | `MirrorHolds`, `VerificationStays` | `CopiesInv`: a copy of a record that says "confirmed" is newer than every one that says "unconfirmed", wherever it is; `MirrorInv`: the row agrees with the record unless the call about its last change is on its way |
| `DiscoveryProofs` | `PagingIsExact`, `RailsAgree` | `Rank`: how many results come before a listing. `CompleteInv`: a result still to come ranks beyond the rows read, because nothing before it has left; `UniqueInv`: what was received ranks below them, because nothing has entered. `RankIsPlace` joins ranks and pages: without ties the row at place j has rank j - 1 |

**Assumptions.** Beside the types of the constants: stock and quantities are
natural numbers and each listing has one seller (Orders, Cart); requests and
listeners are different tasks (Payments); the set of photos is finite, at first
there are no more than the limit, and a job is attempted at least once
(ListingPhotos); a record has at least one version (Accounts); the catalogue is
finite, every listing's category has a radius and one radius is the largest
(Discovery). The two theorems that sum over orders take it as a hypothesis that
the set of orders is finite: over infinitely many a sum means nothing. Everywhere
`Null` is none of the values it stands beside, records included: in Accounts and
Cart that is said of the sets of records
(`NullAssumption`, `CartAssumption`), because untyped set theory does not tell a
constant from a record. Nothing is assumed of how many requests there are, and
the bounds on faults, versions, requests and fillings are arbitrary numbers.

**The refinement.** OrderLedger is the promise, `PromisedNext`: placing, moving and
cancelling in one indivisible step each, checked against the status of that moment.
`LedgerNext` allows in addition that a contested order is overwritten or returned
again. `LedgerImplemented` assumes nothing of the requests: the commit of a checkout
is `Place`, that of a cancellation `CancelAndRestock` and that of a transition
`Advance`, or for a contested order `Return` and `Overwrite`; a seller's write is
`Restate` or `Withdraw`, and every other step a stutter. That a checkout which waited
for its locks takes exactly what it ordered, out of stock that is there, follows from
`LockedRowsAreCurrent`. That a cancellation reaches exactly the listings which still
exist comes from the locks too: a row it has visited cannot be deleted before it
commits, one it skipped is deleted and stays so. What `Overwrite` may write is what
`RequestInv` allows. Without the exception the theorem is false:
`orders_double_restock` is a behaviour that takes one order through two
cancellations. The exception, a guard on the status, is thus all that the missing
second look at the status costs.

**Sums and ranks.** What a fold computes is an induction over data, and the
library's induction theorems take an operator, which the installed provers cannot
instantiate. They can be given a set instead: `SubsetInduction` says that a
collection of subsets of a finite set which has the empty one, and with each subset
those of one element more, has them all. It follows from Nat being well founded
(`NatSetInduction`), and from it that `SumFunction` is additive (`PartialExists`,
`PartialSteps`, `SumOfChange`). Pages need no induction: a page is counted with
the bijection between ranks and places (`RankIsPlace`).

**Paging.** `PagedOnce` names the changes that excuse a loss or a repetition, and
`PagingIsExact` shows that no others are needed: when nothing left, moved, tied or
tore, every row ahead of a result still to come stays ahead, so an offset never
jumps over it; when nothing entered, moved or tied, nothing is pushed back over an
offset. That the last page is the last rests on rows and count being of the same
catalogue, which is what "torn" stands for. `RailsAgree` needs no induction
either: it holds of every catalogue, because each of the seven filters implies,
or is implied by, the one of the search once the global radius is the largest.

**Only model-checked.** All liveness (Payments, ListingPhotos, Accounts,
Discovery): the proof system does not reason about fairness. And the three
counterexamples of `orders_double_restock`, `cart_one_seller` and
`payments_early_callback`, which are behaviours. What `QuartileTimes4` computes is proved of no catalogue: no property
depends on it beyond `BonsPlans` being a part of the listings in reach.

## 6. Plan

Done: Orders with OrderLedger, OrdersRefinement and the refinement as a theorem;
Payments with the differences between its providers; Idempotency; Cart;
ListingPhotos; Addresses; Delivery; Accounts; Discovery; proofs of every safety
property the passing runs check. Next, in this order:

1. Cart composed with Orders, so that the contents it can reach replace the input
   `CartContents`, and a line added after the checkout has read the cart can be
   followed.
2. `Checkout`: Orders, Payments and the listener composed, with Idempotency in
   front: a declined payment restocks once, a paid order is not cancelled.
3. An abstract mirror for Accounts and an abstract album for ListingPhotos, with
   the refinement under the exceptions the history variables name.

## 7. Not modelled

* Devices and recently viewed: single statements on rows nothing else reads.
  `updateProfile`, the texts and images of a seller's profile, the texts of an
  address, a deliverer's position and the phone number `createByAdmin` copies to
  the user after the row is made (it may fail and leave the row without): fields
  no other write depends on.
* Of a listing: its creation, texts, price and location, beside what Discovery
  reads of them. Of discovery: text search and relevance, the 30-day window of
  `bonsPlans`, the LIMIT of a rail, recently viewed listings, PostGIS itself.
* Mail, storage, audit, logging, metrics, health: I/O. Filters, guards, pipes,
  formatting, configuration and start-up: stateless.
* logout, the mails and the rate limits of auth change nothing the server keeps;
  passwords and codes are checked by Supabase.
* A job that BullMQ starts a second time while its first worker still lives, because
  the lock on the job ran out: a worker of ListingPhotos that loses its job is dead.
* Amounts, prices, photo snapshots, webhook signatures, provider payloads and the
  audit rows of `logAttempt`: no property is about them.
* Postgres, Redis, BullMQ, Supabase and the providers are assumed: READ COMMITTED
  with row locks held to the end of the transaction, atomic single commands, jobs
  that are retried as configured, webhook calls of the payment providers that are
  repeated until answered, and of Supabase that are not.
