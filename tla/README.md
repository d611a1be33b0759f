# SOPET backend: a TLA+ model

SOPET is a NestJS monolith for a multi-vendor shop: customers fill carts, check
out and pay through Omise, by cash on delivery or by bank transfer; vendors keep
a catalog, acknowledge and ship; stores are paid out; admins, schedulers and the
suspension of stores change the same rows.  Every piece of that is a handler in a
Node process (several instances may run) that loads TypeORM entities from
PostgreSQL, awaits other calls, and saves the entities back.  `save()` writes every
loaded column that differs from the row, so **a handler that loaded a row before
somebody else committed writes the old values back**, and a check made before an
await may be stale after it.  Few handlers take a row lock.  That, and what happens
when a call in the middle fails, is what these modules are about.

## 1. Inventory

| Component | State | Operations | What is hard |
| --- | --- | --- | --- |
| payments | `payments` rows, `orders.paymentReference`, charges at Omise | createCharge, charge webhook, QR expiry, 24h sweep, bank transfer confirmation | read-await-write on the order, HTTP under a row lock, events late / repeated / lost, money captured for a superseded charge |
| order fulfillment, suspension hold | `orders.status`, `order_items.fulfillmentStatus`, held lines and their snapshot | mark paid, acknowledge, ship, tracking, deliver, cancel; apply, restore, 30-day SLA | per-store writers of one header, unlocked; totals of unpaid orders change |
| orders, inventory | orders, lines, variant stock, RETURN transactions, promotion usages | create, updateStatus, restore | checks before and under the locks; idempotence looked up before the lock |
| cart | carts and lines of a visitor and of a customer | add, update, remove, merge at login | the line is read before the variant is locked; stock and sale change under the lines |
| products | products, variants, images | draft to published, archive, delete; variants added, synchronised, removed, retired; thumbnail | whole-row saves beside checkouts, two checklists, unique slugs and SKUs |
| promotions, sale campaigns | rows with counters, windows, items | validate, preview, stack; create, edit, toggle | rounding, boundaries of windows, one fee shared by several discounts |
| reviews | reviews, replies, product statistics | create, import, moderate one by one and in batches, delete, pages | statistics recomputed after the save, the last moment of the window |
| taxonomy | categories, tags, pet types, brands, copies of names on products | propose, decide, rename, delete with a replacement, assign | names and slugs that collide, deletion beside assignment |
| payouts, recipients | payout rows, Omise transfers and recipients, the commission ledger | request, trigger, schedule, manual rail, orphan retry, transfer and recipient webhooks | balance computed before the insert, three steps per transfer, events late / repeated |
| auth, customers and users | codes, sessions, token versions, reset and verification links, addresses, cards | sign in, change phone, delete and reactivate; passwords; wallet | two statements for one fact, cards at Omise and in the table |
| stores, teams, shipping | stores, members, requests, invitations, options, carriers | open, suspend, reactivate, change owner; invite, accept, revoke | look-up before insert, roles and status in separate saves |
| notifications, email, vendor webhooks, search jobs | notifications, templates and their cache, delivery and index queues | tell, mail, deliver, index | output after the commit that fails half way, retries, a cache filled with what was just changed |
| platform settings and showcase | one row per setting and its copy in Redis; banners, sponsors, ads | read through the copy, change, reopen when the time is over; reorder, switch on | a reader that writes, copies behind the row, locks taken in the order of a list |
| rate limiting | a counter in Redis, a bucket per process | count, refuse, fall back | two calls for one count, processes that die, Redis coming and going |
| API keys, public API | keys, imported customers, addresses and orders | create, revoke, authenticate, import | look-up before save and before insert, customers who sign up meanwhile |
| analytics, audit logs, dashboard events, storage, SMS, health | rows nobody decides on, or none | reads, appends | little |

What makes it correct: no order has two open payments; nothing is marked paid
without money; what was captured and heard of is recorded, for the right
amount, and paid out once; closed orders stay closed and their stock is returned once; nothing is sold at
an old price, twice, or beyond a limit; what the page shows is what the checkout
does; secrets, codes and links work once and for the right person; what was started
ends.

## 2. Modules

| Module | Models |
| --- | --- |
| `OrderStatusRules`, `OrderState`, `PaymentHandlers`, `FulfillmentHandlers`, `OrderSystem` | one order: `payments.service.ts`, `order-fulfillment.service.ts`, `store-suspension-hold.service.ts`, `updateStatus`, Omise's charges, handlers that die |
| `OrderContract`, `OrderRefinement` | what an order promises, and that the order system keeps it |
| `OrderInvariant`, `OrderSystemProofs`, `MCOrderSystem` | the inductive invariants, the theorems for any number of handlers and for one at a time, the constants for TLC |
| `PlaceOrder` | `OrdersService.create`, cancellation, `inventory.service.ts`, edits beside them |
| `Cart` | `cart.service.ts` |
| `ProductCatalog`, `ProductVariants`, `ProductImages` | `products.service.ts`, `product-publish.validation.ts` |
| `PromotionRules`, `Promotions` | evaluation and stacking; the rows, lists and usages of `promotions.service.ts` |
| `SaleCampaigns` | `sale-campaigns.service.ts` and the price functions |
| `Reviews`, `Taxonomy` | `reviews.service.ts`, `taxonomy.service.ts` |
| `PayoutLedger`, `Payouts`, `PayoutRecipients` | `payout-commission.calculator.ts` and its queries; `payouts.service.ts` with scheduler and webhook; a store's bank account at Omise |
| `CustomerAccounts`, `CustomerWallet`, `StaffAccounts` | `auth.service.ts`, `users.service.ts`, `customers.service.ts`, the guards |
| `StoreLifecycle`, `TeamInvitations`, `ShippingOptions` | `stores.service.ts`, store requests and reactivations; store, admin and vendor invitations; options and carriers |
| `Notifications`, `EmailCms`, `VendorWebhooks`, `SearchEmbeddings` | the services of those names, with their queues |
| `PlatformSettings`, `PlatformShowcase` | the three settings services of `platform/`, `search-settings.service.ts`, `search-synonym.service.ts`; `platform.service.ts` |
| `RateLimiter` | the two rate limit guards and `RedisService.incr` |
| `PublicApi` | `api-keys.service.ts`, its guard, `import-data.service.ts` |
| `Shop`, `Platform`, `Progress` | the components instantiated and composed, with the properties of the whole; progress under fairness |
| `CheckoutProofs` | theorems about `PlaceOrder`, `ProductVariants` (there `Shelf`) and `Cart` (there `Carts`); `Shop` says what they mean for the whole |
| `PublicApiProofs`, `StaffAccountsProofs`, `EmailCmsProofs`, `PayoutsProofs`, `PlatformProofs` | theorems about the components of those names (`PublicApiProofs` also about `RateLimiter`, `EmailCmsProofs` also about `Notifications`, there `Notices`), and what they say of `Platform` |

**The shape of a component.**  A table is a function from small sets of ids to
records of the columns a decision depends on; histories that a property needs
(`want`, `peak`, `spent`, `proved`, ...) are marked as such.  `job[r]` is the request
in slot `r`: where it stands (`at`), and what it has loaded.  A handler is called
(`Start`, `Call`), goes through one action per await that reads or writes shared
state, named after the source function, and returns.  A database transaction is one
step; a save outside one is a step of its own and writes the columns the code writes,
those it merely loaded included.  A unique index is a condition of the insert.  What
fails (Omise, SMTP, the queue, a process) is an alternative of the step that calls it,
switched on by a constant.  Names, texts, pictures and addresses are members of small
sets; a window that has elapsed is a flag or a clock of a few ticks.

**The order.**  `order` is the row with its lines and hold snapshots, `returned` the
stores whose lines have a RETURN transaction, `pay`/`payMethod`/`amount` one payment
row per attempt, numbered in creation order, `charge` what Omise says of the
attempt's charge, `lock` the holders of `FOR UPDATE`; `pc`/`loc` are the requests in
flight.  `createCharge`'s transaction calls Omise in the middle, so it is two steps:
`PostOmiseCharge` takes the lock and creates the charge, `CommitOmiseCharge` writes
and releases.  `OmiseSettles` lets Omise settle a pending charge at any time, the
events of a charge may be delivered any number of times, and `HandlerDies` aborts a
handler between two steps.  Elapsed time is not a variable: a QR window, the 24h
cutoff or the 30-day SLA may have elapsed whenever a sweep looks.  A store's lines
move together (`assertVendorItemsUniform`) and cost one unit.

**Composition.**  Where a component's rows are written by another service too, its
module has that writer as an action: `PlaceOrder` has the vendor's edits of product and
variants, retirements, campaign and promotion edits and suspensions beside checkout and cancellation,
`ProductVariants` has carts and orders, `StoreLifecycle` the hold hooks,
`CustomerAccounts` the guest orders, `PayoutRecipients` the payout that refreshes a
recipient.  With the writers inside, the components no longer share a row, every
interleaving of two of them projects to behaviours of each, and a property of one is
checked on that one alone.  `Shop` and `Platform` are therefore disjoint sums:
`part` names the component a behaviour is about, `x1, x2, ...` are its variables, and
every component is instantiated several times, usually once with all handlers and one
slot and once with two slots and the handlers that race.  Where a component has theorems,
`Shop` and `Platform` instantiate the module that proves them, which extends the
component's or has it as an instance of its own (`CartOne!Carts`, `Variants!Shelf`): its
lemmas then hold of the instance and can be cited there.  `CheckoutProofs` has the
variables of three components; an instance that is about one of them gets constants in
place of the variables of the others, on which nothing it says depends.

## 3. Runs

| Run | Module | Configuration | Shows |
| --- | --- | --- | --- |
| `serial` | `MCOrderSystem` | one slot, all 15 order handlers, 2 stores, 2 attempts, 1 death | `ImplementsContract`, `PaidIsFunded`, `PendingChargeIsReferenced`, `PaidMatchesTotal`, `ReturnedStockIsNotOwed`: with no two handlers overlapping, but Omise acting, events late and handlers dying, money and stock stay right |
| `concurrent` | `MCOrderSystem` | two slots, payment handlers and vendor cancel | `PendingIsLatest`, `PaidHasEvidence`, `TypeOK`, `IndInv` survive every interleaving |
| `checkout` | `MCOrderSystem` | two checkouts, three attempts, fair | `PendingChargeIsReferenced`; `HandlersEnd`: the lock held across the HTTP call blocks nobody for good, even when its holder dies |
| `liveness` | `MCOrderSystem` | one slot, all handlers, a fault, fair | `UnpaidOrderEnds`, `HeardIsRecorded` |
| `fulfillment_race` | `MCOrderSystem` | two slots, fulfillment, admin and hold handlers, 2 stores | `HeldLineHasSnapshot`, `PaidOrderHasPaidAt` |
| `shop` | `Shop` | the instances of `Shop`: catalog, carts, checkout, fulfillment, reviews, discounts, ledger | 11 invariants and 2 action properties over them, 2.1 million states |
| `platform` | `Platform` | accounts, teams, stores, payouts, mail, webhooks, index jobs, settings, rate limits, partners | 10 invariants and 1 action property, 1.1 million states |
| `progress` | `Progress` | eight components of `Platform` with faults, fair | `WorkEnds` |
| `late_webhook` | `MCOrderSystem` | two slots: createCharge, webhook, sweep | **violates** `NeverInventedPaid` |
| `stale_expiry` | `MCOrderSystem` | two slots: createCharge, webhook, expiry | **violates** `ExpiryFailsPaymentOnly` |
| `blocked_delivery` | `MCOrderSystem` | one slot, 2 stores, fair | **violates** `ShippedGetsDelivered` |
| `double_transfer` | `Payouts` | two slots: vendor's request, admin's trigger | **violates** `OneTransferPerPayout` |

**Bounds.**  Two attempts give a superseded and an open payment, three a superseded
one between them; two stores give siblings on a header; two slots give every pairwise
race.  In the components two ids of each kind give a winner and a loser, a third
(images, variant rows, ledger orders, cart ids) an element that is neither first nor
last; a product's price, a variant's
addition to it and a campaign's discount take two values each, in whole Baht, so that every
one of the three can change alone; a synchronisation takes up to as many items as there are
options, with or without an id, with a price of its own or an addition.  Two or three ticks put a moment before, at and after a window; a stock or limit
of one or two is exhausted within the run; one death or fault falls into every gap
between two steps.  The instances in `Shop` and `Platform` are the smallest in which
every action and every alternative of it happens; larger ones (a second variant,
promotion or product, a third order, more ids) were run for the components on their
own and showed nothing else.

The admin sets only `cancelled` and `refunded` in the order's runs.  Other targets let
an admin revive an order whose stock went back on sale, and set `processing`,
`shipped` or `delivered` without `paidAt`: a manual override by design, so the
properties state that assumption (`AdminTargets`).

**Deadlock** is not checked: an order that is delivered or cancelled, or a component
whose bounds are used up, with no handler in flight is the normal end.

**Fairness.**  *Orders* (`OrderSystem!FairSpec`): a handler in flight goes on (weak
fairness: Node runs its continuations).  The sweeps are started for ever by
`PaymentExpiryScheduler`'s interval, whatever the slots are otherwise used for: strong
fairness of `StaleRead` and `ExpireRead`.  Customers, vendors and admins owe nothing,
and neither does Omise: its events may come or not, because the controllers answer 200
whatever became of an event (`payments-webhook.controller.ts:21`, `44`), so that a
dropped one need not be repeated.  `HeardIsRecorded` therefore starts from an event that
has found its order.  `DeliverySpec` grants a customer who keeps confirming and an SLA job
that keeps running, and the order still is not delivered.  *Progress*: requests in flight
go on, BullMQ's workers take every waiting job, Omise comes to a verdict on a recipient
(weak); the vendor of a pending recipient opens the store's page again, which asks Omise,
who was invited keeps trying the link, visitors keep coming, PostgreSQL hands a row lock to
those who wait in turn, and the index workers, which share the slots with requests in the
model, have a pool of their own in the code (strong).  Redis drops what has outlived its
time to live, and PostgreSQL ends one of two transactions that wait for each other (weak).
Payouts are not in `Progress`: their events are dropped like those of charges, and
nothing else fetches a transfer (section 7).

## 4. What the properties say

`Shop` (each is a conjunction over the instances it names):

* `HeaderFollowsItems`: one handler at a time, the order's status is the one its lines derive.
* `PlacedOrdersAddUp`: stock taken is stock held by live orders, also with two checkouts; limits, counters, and each cart line bought once.
* `OffersAreReal`: an order has nothing of a suspended store (one request at a time) and nothing retired, whatever the vendor saves between the steps of the transaction; while only variants are edited its prices are those of the commit; the cart answered can be bought as it stands.
* `CartLosesNothing`: what was put in is there or was capped, removed or withdrawn; two requests leave whole lines.
* `VariantsStayReferenced`, `ShelvesAreConsistent`, `TermsAreFound`, `ReviewsAddUp`: references, unique slugs and SKUs, the two publish checklists, the public views, thumbnails, labels, statistics and pages.
* `DiscountsAreFair`, `SalePricesAreFair`, `LedgerPaysOnce`: the arithmetic, checked against direct definitions over all bounded inputs: preview against checkout, cheapest pieces free, pooled fees, rounding, the winner of overlapping campaigns; the greatest product a payout can pay for, and nothing paid out twice.
* `ShopKeepsItsWord`: steps no handler takes, and what a synchronisation of variants that succeeds has done.

`Platform`: `AccountsAreSafe`, `StaffAccessIsCurrent`, `StoresAreAccounted`,
`PayoutsAreBacked`, `MailIsFilledIn`, `NoticesArrive`, `DeliveriesAreFaithful`,
`SettingsAreCurrent`, `PartnersAreServed`, and `RecordsStand` for steps; the comment
above each says what it is about, the component's own module why.  `Progress`:
`WorkEnds`: an invited person gets in though a process died half way, a pending
recipient is not pending for ever, events, deliveries and index jobs end, a closing whose time is over ends, two reorderings in opposite order both
end, and a caller who used up a window is let in again as long as no
process dies while it counts (section 7).

**The contract.**  `OrderContract` knows an order as unpaid, bought or over, the set
of open attempts, the paid ones and whose stock was released; it lets an attempt open
only when no other is, an order be bought by its open attempt and once, and leaves it
over once it is over, with all of its stock released.  `OrderRefinement` reads these off
the rows, and every step of every order handler, of Omise and of a dying process is a
step of the contract or none, as long as handlers do not overlap.  (With two slots it is
not: see `late_webhook` and `stale_expiry`.)

## 5. What the violations show

* `late_webhook`: the webhook's guard reads the status, then two awaits pass
  (payment, re-fetched charge), then `markOrderPaid` saves PAID over CANCELLED;
  the stock is already back on sale.  The code's comment calls the guard
  defence in depth for exactly this.
* `stale_expiry`: the mirror image: expiry writes `pending_payment` and `failed`
  over a payment that was just recorded.
* `blocked_delivery`: `confirmOrderDelivered` counts cancelled lines, the rule that
  put the order into `shipped` does not.
* `double_transfer`: `createOmisePayout` commits its row before it posts the transfer and
  does not claim it.  A second request in between finds a pending row without a
  reference, wins the claim and posts a transfer of its own.  The claim keeps two retries
  apart (`ClaimIsExclusive`), not a retry and the first attempt.

## 6. Proofs

Every theorem holds for any constants that satisfy the assumption of its module
(`OrderStateAssumption`, `PlaceOrderAssumption`, `CartAssumption`, `LimiterAssumption`,
`ApiAssumption`, `StaffAssumption`, `EmailAssumption`, `PayoutsAssumption`: bounds are naturals, sets are of their types,
stores and containers finitely many, "none" is not one of them).  Some theorems restrict
who runs.  `Serial` and `OneRequest` say that one handler runs at a time; `NoLateWebhook`
(payouts) that any number do, if no webhook is among them, and `NoRetries` that moreover
no request or admin trigger is, the handlers that retry a payout without a transfer.
`StockAlone` (checkout) says that one request runs at a time, or any number of checkouts
but no cancellation, edit or retirement, `CountAlone` the same of the edit of the
promotion, `PricesAlone` that neither the product nor a campaign is edited;
`LinesAreApart`, that an order has one line of a variant where cancellations
are among the handlers.  The code does not enforce that.  They are what section 7 leaves: without them TLC refutes the
property, or a neighbour of it.  Two theorems exclude faults: a process that dies between
two statements loses the default container, and a merge of carts that
breaks off is merged again.

| Module | Theorem | States |
| --- | --- | --- |
| `OrderSystemProofs` | `InvariantHolds`, `TypeCorrect` | `[]IndInv`, `[]TypeOK` |
| | `OneOpenPayment`, `PaidOnEvidence`, `PaidIsStamped` | `[]PendingIsLatest`, `[]PaidHasEvidence`, `[]PaidOrderHasPaidAt` |
| | `HeldLinesCanBeRestored` | `[]HeldLineHasSnapshot` |
| under `Serial` | `SerialInvariant` | `[]SerialInv` |
| | `PaidOnOwnCharge`, `WebhookFindsOrder`, `PaidInFull`, `StockIsNotSoldTwice` | `[]PaidIsFunded`, `[]PendingChargeIsReferenced`, `[]PaidMatchesTotal`, `[]ReturnedStockIsNotOwed` |
| | `RefinesContract` | `Spec => Contract!Spec` (`ImplementsContract`) |
| under `Serial`, without the webhook | `HeaderFollows` | `[]HeaderFollowsItems` |
| `CheckoutProofs` | `NoRetiredVariantIsSold` | `[][RetiredIsNotSold]_vars` |
| under `PricesAlone` | `PlacedAtLockedPrices` | `[][PricesAreCurrent]_vars` |
| under `StockAlone`, `LinesAreApart` | `StockAddsUp` | `[]StockAccounted` |
| under `CountAlone` | `UsesAreCounted` | `[]UsageCountIsTrue` |
| under `OneRequest` | `CheckoutKeepsLimits` | `[](UsageWithinLimits /\ CartLineBoughtOnce)`, `[][SuspendedSellsNothing]_vars` |
| | `SkusStayUnique` | `[]Shelf!SkusAreUnique` |
| under `OneRequest` | `NamedVariantsStay` | `[](Shelf!SoldVariantIsKept /\ Shelf!CartHoldsKeptVariants)` |
| | `LinesStayWhole` | `[]Carts!LinesAreWhole` |
| under `OneRequest`, no crash | `CartsAreKept` | `[]Carts!NothingLost`, `[][Carts!AnswerIsBuyable]_(Carts!vars)` |
| `PublicApiProofs` | `LimitHolds` | `[]Limiter!WindowIsBounded` |
| | `RevocationLasts`, `ImportedOnce`, `SignUpLasts` | `[]RevokedKeysStayOut`, `[]OneOrderPerNumber`, `[][SignedUpStays]_vars` |
| `StaffAccountsProofs` | `VerifiedIsProved` | `[]VerifiedEmailWasProved` |
| under `OneRequest` | `AccessIsCurrent` | passwords, sessions and reset links (`StaffAccess` in `Platform`) |
| `EmailCmsProofs` | `MailIsWhole` | `[]NoLiteralPlaceholder` |
| under `OneRequest` | `CacheFollowsEdits` | the cache is the database, disabled templates are not used |
| and no process that dies | `DefaultIsOne` | one container is the default |
| | `EventsArrive` | `[](Notices!HoldReachesVendor /\ Notices!PaidIsMailed /\ Notices!EveryoneIsTold)` |
| under `OneRequest` | `NobodyIsToldTwice` | `[]Notices!NoDuplicates` |
| `PayoutsProofs` | `SettlesOnEvidence` | `[]SettledOnEvidence` |
| under `NoLateWebhook` | `PayoutsWithinEarned` | `[]NoOverdraft` |
| under `NoRetries` | `OnePayoutUnderWay` | `[]OnePendingPayout`, `[][SettledIsFinal]_vars` |
| any handlers, with faults | `OneCallerRetries` | `[]ClaimIsExclusive` |
| `PlatformProofs` | `ServesPartners`, `StaffAccess`, `MailsAreFilledIn`, `PayoutsBacked`, `NoticesReachAll` | `[]PartnersAreServed`, `[]StaffAccessIsCurrent`, `[]MailIsFilledIn`, `[]PayoutsAreBacked`, `[]NoticesArrive` of `Platform` |
| `Shop` | `OrderHeaderFollows`, `PlacedOrdersHold`, `VariantsAreKept`, `CartsLoseNothing`, `OffersHold` | `[]HeaderFollowsItems`, `[]PlacedOrdersAddUp`, `[]VariantsStayReferenced`, `[]CartLosesNothing`, `OffersAreReal` of `Shop` |

**Orders, any number of handlers.**  `PendingIsLatest` and its neighbours are not
inductive: the next step may be the commit of a handler that loaded its data long ago.
`IndInv` therefore says of every copy in flight why writing it is harmless (`GoodCopy`:
what it references exists, its row is stamped, a handler about to mark paid holds a
captured charge not newer than the payment) and of the lock holder why its insert is the
only one (`GoodCreate`: the lock is held exactly between POST /charges and the commit, its
attempt is the last and has no row).  `FreshAttempts` and `LockExclusive` close the
induction.  Most steps only read, or move existing payments to failed, or to paid on
evidence, while Omise keeps what it captured (`SettlingRows`): `SettlingStep` shows once
that such a step keeps `IndInv`; `ReadStep`, `StartStep`, `ReturnSettles` specialise it.
The three steps of `createCharge` under the lock and the death of a handler are proved one
by one, on `KeptCopies`.  For holds, `SnapshotInv` says the same of the row, and of every
loaded row, that `HeldLineHasSnapshot` says of the stored one: a line becomes `on_hold`
only together with its snapshot, and no handler drops one without the other.

**Orders, one handler at a time.**  `SerialInv` adds to `IndInv` that the copy of the one
handler is the row (`HasOrder`), what each handler learnt on its way to its commit (the
charge's outcome, the payment's state, the amount), and how rows and charges relate
(`OverIsReleased`, `PaidIsLatest`, `ReferenceIsLatest`, `TransferStaysOpen`): Omise alone
moves between two steps.  There are more than thirty actions and few things they do to the
rows, so the step is proved in two halves: `StepHasEffect` shows that every step has one of
seven effects (charges settle; an attempt opens, pays or fails; the order closes; lines
move; held lines expire), and `EffectKeepsRows` and `EffectImplements` argue about effects.
The second is the refinement: every effect is a step of `OrderContract` or none.  The
admin only cancels and refunds (`Serial` says so), as in the runs.

`HeaderFollows` needs `HeaderInv`: the lines of an unpaid order wait (`UnpaidLinesWait`),
a charge is committed only for an order without held lines, and what the vendor saves is
derived.  It assumes that `"webhook"` is not among the handlers because with it the
property is false (section 7).

**Payouts.**  `PayInv` says of every copy in flight what `SettledOnEvidence` says of the
rows: a loaded row keeps rail and amount of the stored one, one about to be saved as
completed names a paid transfer, and what a webhook heard is what Omise decided.  It is
enough for evidence, whoever runs.  For the rest a step of a handler is one of five
kinds (`StepActs`): it goes on without touching a payout, hears of a transfer, inserts a
payout, claims a pending one, or saves the row it holds.  `OpsOK` says which handler can be
where, so that `NoLateWebhook` and `NoRetries` rule kinds out.  `MoneyInv` adds to
`NoOverdraft` that a payout somebody holds has not failed: a save then never makes one count
again, and only an insert, in the transaction that computed the balance under the lock of
the store's row, raises the total.  `PendingInv`: who holds a payout holds a pending one, and alone.
`ClaimInv`, with any handlers and faults: a claimed payout is no longer pending, and has one
claimer.  That a payout has one transfer does not follow, and is false (`double_transfer`).

`NoOverdraft` is about a sum over the payouts of a rail.  The prover knows nothing of sums,
and an induction rule that takes an operator is out of its reach, so the lemmas before it
(`SumExists`, `SumUnique`, `SumUnfolds`, `SumWithout`, `SumOfPart`, `Totals`) argue by least
counterexample, on sets of numbers and subsets of a finite set, about the recursive function
that `MapThenSumSet` folds with: it exists, it is one, and leaving out an element leaves
out its summand.

**Checkout.**  `CheckoutInv` holds with any number of requests: orders are numbered
without gaps, what a request carries exists, and a draft on its way into the transaction is
of lines that were checked.  The transaction goes line by line: lock the variant, read the
product beside it, compare.  `LocksInv`: a variant is locked by one checkout, and what was
compared behind the lock (not retired, pieces for the lines so far) stays so, because nobody
saves a locked row (`RowsSaved`).  That gives `NoRetiredVariantIsSold`, whatever is edited
meanwhile.  `PricesInv` says the same of prices: what was compared is the price now.  The
lock covers a variant's own part of the price only, so it needs `PricesAlone`, and without it
is false (section 7).  `StockInv` adds to `StockAccounted` which
RETURN rows there are (those of cancelled orders, one for every variant in them) and that a
variant about to be saved has the stock that is stored; the stock of live orders is the
number of their lines, so that an order placed, or cancelled, changes it by the lines of a
variant (`HeldIsFinite`, `HeldStays` and what follows them, with the cardinality facts of
`FiniteSetTheorems`).  `CountInv` and
`LimitsInv` are of the same form: the counter a handler has loaded is the stored one; what
was checked before the transaction still holds in it (`Ready`).

**Variants.**  `ShelfInv` says that rows which are not deleted differ in their SKU: the
unique index is a condition of every insert and save that could break it.  `NamedAreKept` says that
what carts and orders name is not deleted, and of a removal in flight that it has seen every
order and cleared every cart of what it is about to delete.

**Carts.**  `CartInv`, for any requests and crashes: every line stored, or loaded by
somebody, has an id and pieces or neither.  `OneCartInv`, with one request at a time: what a
request has loaded is what is stored, or what it has changed since (`Loaded`), a cart that is
not there has no lines, and `want`, the pieces somebody asked for, is what the lines of both
carts hold.  While two carts are merged, line by line, the pieces of a line that has been moved
are in both: `Merging` says which lines those are, and that only the customer's counts.

**Notifications.**  An event in flight is a list of steps and a position in it.
`NoticesInv`, for any number of requests, says that what lies before the position was done
or failed, and of an event that ended that it ended with its last step or with one that
failed uncaught.  Notifications and mails are never taken back (`RowsKept`), so this stays.
What each event consists of (`PaidIsEvent`, `HoldIsEvent`, ...) gives the promises: every
step of a hold is caught, and so is what precedes the mail of a payment, hence these events
come to their last step.  `LookedFirst`, one request at a time: what is about to be inserted
is not there; of two requests that look before either inserts, both insert.

**Others.**  `LimiterInv`: only the request that made the key gives it a time to live, the
window cannot end before, and until it is let through one counted call is missing from what
passed; a process lets through what its bucket counts.  `ApiInv`: a request carries only
what exists, an order about to be inserted has the sender's own products, and the loaded
row of a customer has the origin of the stored one.  `StaffInv` and
`OneAtATimeInv`: a row about to be saved is the current one, links are ordered, and a link
older than the newest is invalid or used.  `EmailInv`: every text saved, cached or about to
be was validated; `FreshInv`: the cache holds what the database does except for the keys
the edit under way will invalidate; `DefaultInv`: between clearing the old default and
saving the new one no container has the mark, and the request there will set it.  The two
are separate statements without a transaction (`email-cms.service.ts:85`, `130`, `153`), so
a process that dies between them leaves no default, and the theorem says "no crash" among
its hypotheses.

**Lifting.**  A step of `Platform` or `Shop` is a step of the component that `part` names
or leaves everything alone (`StepOfPart`), and the constants of the
instances satisfy the assumptions (`InstancesAreLegal`, `InstancesAreSound`,
`PayoutsAreSound`, `NoticesAreSound`, `FulfillmentIsSerial`), so the
components' lemmas give the invariants of the whole.

**Checked before proved.**  Besides the runs, TLC checked the inductive invariants on
their own: `SerialInv` with the constants of `serial` (1.0 million states), `SnapshotInv`
there and with those of `fulfillment_race`, `HeaderInv` with the constants of `serial` less
the webhook (735 000), `StaffInv` and `OneAtATimeInv` (5.7 and 13.9 million), `EmailInv`,
`FreshInv` and `DefaultInv` (55 000, 84 000, 2.9 million); `PayInv`, `MoneyInv`,
`PendingInv` with all handlers in one slot (65 000), `PayInv` and `ClaimInv` with all of
them in two slots and a fault (3.0 million), `MoneyInv` in two slots without the webhook
(850 000), `PendingInv` in two slots with the manual handlers and the schedule (354 000); the
invariants of the checkout with all handlers in one slot (41 000), and with checkouts and
suspensions in two; `CartInv` in two slots with merges, sales and crashes (6.9 million),
`OneCartInv` with all handlers in one (148 000); `NoticesInv` in two slots with events that
fail (149 000), and with `LookedFirst` in one (177 000).  `HeardIsRecorded`, which `liveness`
checks with one handler at a time, also holds beside another one (two slots with
createCharge, webhook, expiry and sweep).

**What the proofs changed in the model.**  `deriveOrderStatusFromFulfillment` was a CASE
whose arms overlapped: TLC takes the first, the language leaves the choice open, and the
proof did not go through.  It is now an IF chain in the order of the source.  Assumptions
that `"none"` is no store, key, phone, number or address, and that there is a template key,
were implicit and are stated, as are that
there is a buyer and a variant, and that stores and admins are finitely many.  The types and
keys of notifications, any strings before, are the sets they are taken from.  The rows that an idle request of the model holds are taken
from these sets.

**Only model-checked.**  Liveness (fairness and ENABLED are beyond the prover): `HandlersEnd`,
`UnpaidOrderEnds`, `HeardIsRecorded`, `WorkEnds`.  What needs induction over sequences:
the ledger's walk over the settled orders and the stack of promotions (`LedgerPaysOnce`,
`DiscountsAreFair`).  Within reach of the sum lemmas, and not tried: `ReviewsAddUp`.
Not tried either: `ShelvesAreConsistent`, `TermsAreFound`, `SalePricesAreFair`,
`ShopKeepsItsWord` and `TypeOK` of `Shop`; `AccountsAreSafe`, `StoresAreAccounted`,
`DeliveriesAreFaithful`, `SettingsAreCurrent` and `RecordsStand` of `Platform` (its conjunct
about payouts is in `OnePayoutUnderWay`).

## 7. What two overlapping requests can do

These came out of instances with two slots, or with a fault, in which the property
named fails.  `Shop` and `Platform` ask for these properties where they hold, which is
with one request at a time unless said otherwise; the races that the code does win are
in the runs.

* Payments: a charge event that comes before the order has its reference, or whose charge
  cannot be fetched again, is answered 200 and dropped; nobody asks Omise a second time, so
  the captured money stays unrecorded (`payments.service.ts:1263, 1307`).
* Orders: two cancellations of one order look for the RETURN row before they lock the
  variant and return the stock twice, and two lines of one variant count as one return
  (`StockAccounted`, `inventory.service.ts:61`); a vendor's save of a loaded variant
  writes a sold piece back (`products.service.ts:1415`); two checkouts exceed a
  promotion's limit, a cart submitted twice is bought twice, a store suspended between the
  checks and the transaction still sells (`orders.service.ts:610, 303, 351`).
  A product's price or a campaign saved between the comparison of a line and the commit is
  not noticed, although the comment at `orders.service.ts:512` says it is: the transaction
  locks the variant's row and reads the rest beside it, and the save of a product waits for
  nobody (`PricesAreCurrent` with `updateProduct` among the handlers;
  `orders.service.ts:501, 517`, `products.service.ts:1285`).  Of three ways to pay, the
  webhook alone does not derive the header from the lines: an order whose only line is held
  becomes paid (`HeaderFollowsItems` with hold and webhook among the handlers, even one at a
  time; `payments.service.ts:1363`).
* Cart: of two additions the second saves its own sum; a merge that breaks off is merged
  again at the next login (`cart.service.ts:142, 283`).
* Payouts: a request between the insert and the saved reference takes the row for an
  orphan and transfers again, and so does one after the answer to POST /transfers was lost
  (run `double_transfer`; `payouts.service.ts:543`); two overlapping events of one transfer
  save the rows they loaded, and the later save reopens a payout the other settled
  (`payouts.service.ts:612`); an event that finds no payout, or whose transfer cannot be
  fetched, is answered 200 and dropped, and the payout stays unsettled
  (`payouts.service.ts:607, 620`); an order that leaves and re-enters
  the eligible statuses makes shipping of a younger one payable twice
  (`payout-commission.calculator.ts:69`; `Ledger` keeps orders settled, `LedgerMoving`
  lets them move); two first links make two recipients; a failed link, or a payout after
  a change of account, turns a store active with the previous account
  (`stores.service.ts:613, 717`, `payouts.service.ts:781`).
* Accounts: a wrong answer saved after a new code was sent makes the old code work again;
  sign-in saves the loaded account over a password change; two reset requests leave two
  links; two saves leave two default addresses (`auth.service.ts:199, 325, 808`,
  `users.service.ts:243`); reactivating an account whose deletion is pending lifts a
  suspension (`users.service.ts:688`).
* Stores and teams: two approvals make two stores, two submissions two pending requests;
  a settings save undoes a suspension; suspended, pending, approved leaves lines on hold;
  two requests switch off the last two shipping options; a revocation overwrites an
  acceptance (`store-request.service.ts:148, 64`, `stores.service.ts:558, 970`,
  `shipping-options.service.ts:82`, `store-team.service.ts:389`).
* Catalog: a synchronisation in which one item names a variant by its id and another by its
  options saves the second over the first and succeeds, without what the first asked for;
  one whose item moves a variant to the options of another may leave that one on sale
  unsaved (`products.service.ts:1717, 1784`; so `SyncDelivers` asks for the last item saved
  to a row, and for the whole list only if no item moves options); an order placed between the look for orders and the removal names a deleted
  variant; `update` checks the product before it assigns the fields; the checklists count
  retired variants; a category is deleted while a product takes it; approving a rejected
  term whose name was taken ends in a raw error (`products.service.ts:1878, 1258`,
  `taxonomy.service.ts:1064, 500`).
* Reviews, promotions, campaigns: two requests make two reviews of one order, or turn a
  decision round; a line delivered later is listed but not reviewable; one code given
  twice is used twice; a toggle writes the loaded counter back; two edits blend a
  campaign's items, and a refused one has changed the row (`reviews.service.ts:449, 842,
  438`, `promotions.service.ts:803, 322`, `sale-campaigns.service.ts:205, 124`).
* Platform and partners: two ads switched on at once are both on; a banner saved while a
  reordering commits keeps its loaded position; a setting read before a change and copied
  to Redis after it is served for a minute, and a change of one weight then saves the old
  others; a call that looked a key up before it was revoked saves it back as not revoked;
  an import that read a customer before they gave a name writes the imported one over it
  (`platform.service.ts:194, 138`, `search-settings.service.ts:39`,
  `api-keys.service.ts:105`, `import-data.service.ts:136`).  One at a time, two external
  order numbers that agree in what fits into 50 characters count as one
  (`import-data.service.ts:87`).  The first visitor after a closing's time saves the open
  storefront on the strength of what it read, and so ends a closing that an administrator
  has saved since (`storefront-maintenance-settings.service.ts:126`; `ReopensInTime` is
  asked of one request at a time).  The rate limiter's INCR and EXPIRE are two calls: a
  process that dies, or loses Redis, between them leaves a counter without a time to
  live, and over the limit it refuses that caller for good (`redis.service.ts:84`).
* Output: a template disabled while it is loaded stays in the cache, the default mark of
  containers is lost or doubled; two equal events notify twice; a mail that fails after a
  status change keeps the vendors from hearing of it, and an owner of two stores of an
  order is told once; an edit that read a webhook before a rotation puts the old secret
  back; a job that cannot be added ends the dispatch to the other stores
  (`email-template-renderer.service.ts:211`, `email-cms.service.ts:136`,
  `notifications.service.ts:186, 421`, `order-fulfillment.service.ts:162`,
  `vendor-webhooks.service.ts:96, 127`).

## 8. Plan

1. done: the order core, its runs, the invariant and five theorems.
2. done: payouts, inventory and checkout, carts, catalog, discounts, reviews, taxonomy,
   accounts, stores and teams, output, settings, rate limits, the partners' API; the
   contract and its refinement; progress.
3. done: the order properties for any number of handlers and for one at a time, the
   refinement of the contract, rate limits, partners, staff accounts, mail and payouts, and
   what they say of `Shop` and `Platform`.
4. done: checkout, variants and carts, and what they say of `Shop`; notifications, and
   what they say of `Platform`.
5. done: prices, locks and commit of a checkout line by line; items of a synchronisation that
   name an id; events that are dropped; the transfers of a payout with several callers.
6. Open: `StoresAreAccounted` (`StoreLifecycle`), `SettingsAreCurrent`, `TermsAreFound`; `ReviewsAddUp` with the sum lemmas.

## 9. Not modelled

Ranking, suggestions and the search queries, analytics, insights and lists (reads);
audit logs and dashboard events (appended, never read by a decision); the texts of mails
and of validation messages; signature and token cryptography; whom the rate limiter takes
for one caller; favorites; the shipping address of an open order; storage, SMS and health
clients.  GraphQL object types,
inputs and migrations are covered where a definition stands for the columns or fields they
declare, and left out where they only name what is returned.  `PROJECT.json` lists every
component with the reason, the hazards with their lines, and the source lines of every
definition.
