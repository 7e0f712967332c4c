# Formal verification of pay-service

TLA+ models of the payment service, the TLC runs that check them on small instances, and
TLAPS proofs of the results that matter most. The service sits between a customer's panel
(a VPN shop and the like) and the payment provider Robokassa: the panel sends the customer's
browser over with a signed link, the service opens an order, Robokassa collects the money
and reports it, the service tells the panel with a webhook.

`PROJECT.json` lists the runs, the mutants that show each property can fail, the source lines
each definition models, the findings, the hazards and the theorems.

## 1. The system

| Component | Source | State | Operations |
|---|---|---|---|
| payment store | `models/payment.go`, `database/db.go` | table `payments` in PostgreSQL | Create (INSERT, then UPDATE of `inv_id`), FindPending, GetByInvID, MarkPaid, MarkFailed, CancelPending, CleanupExpiredPending, ListPendingWebhooks, MarkWebhookDelivered, MarkWebhookFailed, lists and statistics |
| order handlers | `handlers/payment.go` | none but the cookie in the browser | Checkout, OrderPage, SuccessURL, FailURL, CancelOrder |
| Robokassa callback | `handlers/payment.go`, `payment/robokassa.go` | none | ResultURL: MarkPaid, start `sendWebhook`, answer `OK<InvId>` |
| webhook sender | `payment/webhook.go` | none | Send: four requests with pauses of 0, 2, 5 and 10 s, 10 s each at most |
| reconciler | `reconciler/reconciler.go` | ticker | every 5 minutes: send up to 50 undelivered webhooks one by one, then fail pending orders older than 30 minutes |
| admin panel | `handlers/admin.go` | none | list, detail, RetryWebhook |
| admin login | `handlers/auth.go`, `auth/`, `middleware/session.go` | login limiter in memory, session in a cookie | LoginPage, LoginSubmit, Logout, RequireSession |
| configuration, wiring, pages | `config/`, `cmd/server/main.go`, `templates/`, `static/` | none | start, SIGTERM |

**How they interact.** Everything meets in the table. There are no transactions: each method of
the store is one SQL statement (Create is two), and correctness rests on the `WHERE status =
'pending'` of every UPDATE of the status. HTTP handlers run concurrently with each other, with
the goroutine `sendWebhook` that ResultURL leaves behind, and with the reconciler. Nothing waits
for the goroutines when the process ends.

**What is hard.** Overlapping Checkouts of one link; a row that has no `inv_id` yet; Robokassa's
results arriving late, twice, or racing a cancellation or the clean-up; a statement whose error
says nothing about its commit, and handlers that ignore or answer over such errors; a crash between
MarkPaid and the goroutine; three senders of the same webhook that do not know of each other; a batch
read long before it is used; marks lost because a context ended first.

**What makes each part correct.**

* store and handlers: an order is opened once and settled once; paid only with its own money; never
  re-priced; its cookie opens this order and no other; whoever was told an outcome does not see
  the contrary happen later; no order stays pending.
* callback: every payment collected is answered; an answered order is settled.
* delivery: only paid orders are announced; only announced orders are recorded as delivered; a
  record is never undone; every paid order with a callback is delivered in the end.
* admin list: a filter selects what it says, its pages share out the matching payments, the tiles
  agree with the lists they link to, and paging misses no more payments than leave the list meanwhile
  or come too late for its count.
* reconciler's schedule: an order is pending for a bounded time, a due webhook is tried again within
  a bounded time, however slow the panels are.
* admin login: no more than the permitted failures per window although passwords are checked outside
  the limiter's lock; a lock ends, and not before its time but in known ways; redirects end, where
  the user wanted to go.

## 2. Modules

```
PaymentStore ── Robokassa ──┬── Orders ──┬── MCOrders       PaymentLedger  (Orders and PayService implement it)
      │                     │            ├── PayService ── MCPayService
      │                     └── Webhooks ┘                  Outbox         (Webhooks and PayService implement it)
      │                            └── MCWebhooks
      └── AdminQuery ── MCAdminQuery
ReconcilerSchedule ── MCReconcilerSchedule
AdminLogin ── MCAdminLogin

PaymentStoreProofs ──┬── OrdersProofs ── NumberingProofs ── PayServiceProofs
                     ├── WebhooksProofs
                     └── AdminQueryProofs
ReconcilerScheduleProofs, AdminLoginProofs
```

**PaymentStore** is the table, with one operator per statement that gives the table the statement
leaves behind; an action of a caller says `payments' = MarkPaid(inv)`. A row keeps the link it was
placed for (all the columns the INSERT copies and nothing updates), `inv_id` or NULL, the status,
and the ages of `created_at`, `paid_at` and `webhook_last_attempt_at`. `Faulty(table)` is a
statement that reports an error, executed or not. `FindPending` has the NULL problem of the code:
`scanPayment` cannot put a NULL `inv_id` into an int, so a newest row without number is an error.

**Robokassa** adds the provider (external: it charges an InvId and repeats its result) and ResultURL
in two steps, since a crash can fall between MarkPaid's commit and `go sendWebhook`.

**Orders** adds the browsers. Checkout is a process with a step per statement
(`BeginCheckout` = the checks and FindPending, `InsertPayment`/`InsertFails`, `NumberPayment`,
`RespondCheckout`); `OrderPage`, `FailURL`, `CancelOrder` are one step each, because what they
read before their UPDATE (`access_token`, `return_url`) never changes; `CleanupExpired` is the
reconciler's clean-up, at any time; `Restart` is a crash and a start.

**Webhooks** starts from pending numbered orders, as Checkout leaves them, and adds the senders: the
goroutine of each order, the reconciler (`Tick`, `RetryNext`, `FinishTick`) and the admins'
`RetryWebhook`. Each runs `Send` request by request and then marks the row. `RequestFails` covers the
request that the panel acted on without confirming it. `Mark` may not be executed: the context may be
over when Send returns (60 s for the goroutine, which starts before Send; 30 s for the admin),
and PostgreSQL refuses an error text that was cut within a character. RetryWebhook may also be
sent for a payment that was delivered, as the button of the panel allows.

**PayService** composes the two over one table, the way `main` wires them up. A step is a step of one part
(`Checkout`, `Browse`, `PayOnline`, `Send`, `SendWebhook`, `RetryWebhook`, `Reconcile`, `PanelChanges`), or
one they take together: `Answer` (ResultURL, which Orders sees as its callback and Webhooks as the
source of goroutines), `Later` (the clock) and `Reboot` (the death of handlers, goroutines and reconciler
at once). The clean-up of Orders is here the end of the reconciler's tick, which has to come
to its end first. Fairness and liveness belong to this module.

**PaymentLedger** is what Orders promises, without handlers, time or faults: open, collect, settle,
void. **Outbox** is what Webhooks promises: due, announced, recorded, in this order, for ever.

**ReconcilerSchedule** is the reconciler with durations: the warm-up of 30 s, the ticker whose channel
holds one tick and drops the others, the sends of a batch one after the other, each up to
`SendMax`, the pause after a delivery, the clean-up at the end. Of an order it keeps whether it is
pending, due or closed, an age, and of a due order how long ago it was paid: the list leaves out what
is older than `MaxAge` (`Owed`, `Retriable`). What the same steps do to the table is in Webhooks.

**AdminLogin** is the login with its limiter, the session cookie, RequireSession and the redirects.
`LoginAllowed` and `LoginFails`/`LoginSucceeds` are separate steps, as `Allowed` and
`RegisterFailure`/`Reset` are separate critical sections; in between, `key` is the limiter's key that `ClientIP`
took from the request, with the proxy's headers or without them. The tabs of a browser share its
cookie. A tab is at a path, or shows a page or the form, which its user may load again (`Reload`); `wanted`
remembers what the user went for, and `overtaken` the tabs during whose login another tab of the browser has
logged in, so that LoginPage sends them to the payments. Both are read by properties only.

**AdminQuery** is the admin's list: `BuildWhere` with its numbered placeholders and their evaluation
(`Selected`), a page of ListFiltered, the tiles of StatsFor, and an admin who follows the links.
A request is three statements (`CountPayments`, `ListPage`, `ShowPage`) without a transaction, while
the others execute the statements of PaymentStore, the clean-up among them. A search for a number finds
no row whose `inv_id` is NULL, as `NULL = n` is not true. A row without `inv_id` on the page is an error
of the whole list; a lost connection is not, and cuts the page short. Three history variables count for
`SkipsAccounted`: `unseen`, the rows that have been in the list since the admin opened it and were not seen;
`gone`, how many rows have left the list; `late`, how many came between the COUNT and the SELECT of the page.

The modules ending in **Proofs** hold the theorems, those beginning with **MC** the constants of the runs.

### Abstractions

* Ids have no gaps: a serial number burnt by a failed INSERT is not modelled, nothing depends on it.
* The access token is the identity of its row: 32 random bytes do not collide. Rows of the time
  before tokens existed (empty token, no access) are left out.
* `webhook_attempts`, `webhook_last_error` and `updated_at` are only displayed.
* Signatures: a link is one the panel signed for this browser, a result is one of a payment that was
  collected. The ten-minute limit on a link is left out; the panel may sign it anew at any time.
* Amounts are part of an opaque key and are assumed to have two decimals.
* A timestamp is an age that stops growing at `AgeCap`, above the limits it is compared with. In Orders, Webhooks
  and PayService the ticker's period and the first 30 s are left out: a tick may start at any time.
* In ReconcilerSchedule time is discrete: what is ready to run runs before time passes, and statements
  take no time and do not fail. A failed list or clean-up is made up for by the next tick, one
  Interval later, and is not in the bounds.
* In AdminLogin an age of n units means that more than n units have passed, which is what the code's
  `>` on nanoseconds amounts to. A session token is known by the time it has left, a password check succeeds or
  fails. `checkOrigin` is left out: browsers post from the site's own pages. Going back to the form after
  the login has succeeded, or to another page, is opening it anew.
* Requests that only yield a 4xx answer, SuccessURL and the admin's page of one payment change nothing.
* A period of the admin's list begins at a moment of some age; "today" moves no differently. Texts match
  (`ILIKE`) as the relation `Like` says. The sum of paid amounts is left out.
* "The panel is up" is a state of each callback address; a request to an address that is down fails.

## 3. Runs

| Run | Instance | What it shows |
|---|---|---|
| `orders_faults` | 2 browsers, 3 links (2 of one key, one of them without callback), 2 orders, 1 Checkout at a time, database errors and crashes | types; `PaidWasCharged`, `CookieOpensOwnOrder`, `JobsArePaid`, `HistoryKept`, and that Orders implements PaymentLedger |
| `orders_settling` | 1 browser, 1 link, 3 orders, crashes, no database errors | `AnsweredIsSettled`, `ToldIsSettled`; without overlap a second order only after the first's 30 minutes (`NoEarlyDuplicate`) |
| `orders_races` | 2 overlapping Checkouts, 2 links of one key | each unnumbered row is in the hands of exactly one Checkout (`NumberedByOne`) |
| `webhooks_safety` | 2 orders, batches of 1, an admin, database errors, any number of crashes | types, `SendersCarryDueOrders`, Webhooks implements Outbox |
| `service_delivery` | the whole service: 1 browser, 1 order, 2 requests per Send, 2 crashes, fairness | `AnnouncedIsPaidFor`; PayService implements PaymentLedger and Outbox; `ServiceSettlesOrders`, `ServiceAnswersCharges`, `ChargedIsServed` |
| `reconciler_schedule` | 3 orders, batches of 2, restarts | `PendingAgeBounded`, `AttemptedInTime` |
| `login_guard` | 2 tabs of one browser, 2 keys of the limiter, locked at 2 failures, restarts, fairness | `FailuresPerWindow`, `LockedWhileOverThreshold`, `LocksLast`, `LoginReturns`, `LockEnds`, `RedirectsEnd` |
| `admin_pages` | 3 orders, pages of 2, 3 filters that use every condition, failing statements | `PagesShareOutMatches`, `TilesMatchLists`, `SkipsAccounted` |
| `orders_duplicate` | 2 overlapping Checkouts of one link | finding: two open orders |
| `orders_reuse` | 2 links of one key | finding: an order with another link's callback is reused |
| `orders_late_payment` | 1 browser, 1 link | finding: collected, answered OK, never paid |
| `webhooks_twice` | 1 order | finding: reconciler and goroutine send at once |

**Bounds and why they are enough.**

* `MaxId`: two orders are what an interaction between orders needs (a reused and a new one, a newest row
  that hides an older one, two that compete for a batch of one); three where a crash leaves a row without
  number, a second order replaces it and a third would be the duplicate. `service_delivery` has one: what
  its liveness properties say is said of each order, and no order waits for another one but in a batch,
  which `reconciler_schedule` covers.
* `PendingTTL = 1, AgeCap = 2`: an age can be below, at and above the limit. `CookieTTL = 2` outlives the
  pending limit by one, as one hour does thirty minutes. `orders_settling` has `PendingTTL = 2, AgeCap = 3`, so
  that two orders of one key can also be one unit apart, which `NoEarlyDuplicate` forbids while both are payable.
* `Attempts`: in `webhooks_safety` one failed request stands for four; in `service_delivery` two, so that
  Send also continues after a failure.
* `MaxAge` of `service_delivery` is beyond `AgeCap`: seven days are two thousand ticks, and `ChargedIsServed` is
  about an outage that ends within them. Orders older than `MaxAge` are in `reconciler_schedule` and in the proofs.
* `service_delivery` is the only run that bounds crashes (`MaxCrashes`), because restarts without end would let
  nothing be delivered; two leave one for the recovery from the first. It has no admin, who could only
  help; RetryWebhook is in `webhooks_safety` and in the proofs.
* `reconciler_schedule`: the bounds are 4 for a pending order and 6 for a due one; `MaxAge = 8` and `Horizon = 8`
  are above them, so that a bound is exceeded visibly and by an order the reconciler still owes a delivery.
  Three orders exceed the batch of two, and a tick can last 2, twice the `Interval`. The pause of 0.2 s is 0 here, and
  any number in the proofs. With the program's constants the bound for a due order is 105 minutes, far below
  the seven days of `MaxAge`.
* `login_guard`: `Window = 2` leaves room for a lock that begins late in a window and outlasts it, and for a check
  that ends after the window and before the lock. Two tabs of one browser are what an overtaken login needs; one
  of them also reaches the server past the proxy and so has a second key.
* `admin_pages`: three orders on pages of two make a full and a partial page; an order that is placed pushes one
  from the first page to the second, and one that is settled, delivered or ages out of the period pulls one
  back. TLC finds `SkipsAccounted` violated when `gone` or `late` is left out, or when rows that a lost
  connection cut off count as unseen: each of the three is a way to miss a payment, and there is no fourth.

What the small instances leave open, the proofs of section 5 close for the safety properties: they hold for
every value of the constants.

**Mutants.** Every property of a passing run has a mutant, an operator next to the definition it
replaces that carries a plausible bug (a `WHERE` that lost a condition, an answer before the
work is done, an attempt too many), under which TLC finds the property violated.

## 4. Fairness

* PayService: `WF(Answer(inv))`: Robokassa repeats a result until it has read OK, and a handler that runs
  comes to its end. `WF(Send(s))`: a goroutine or request that runs goes on (each request has a 10 s
  time-out). `WF(SendWebhook(inv))`: a started goroutine is scheduled. `WF(Reconcile)`: the ticker, in each process.
  `WF(Later)`: the clock. Nothing is assumed of customers, who may never come back, of admins or of the
  panel; that the panel can be reached from some time on is a premise of `ChargedIsServed` itself.
* AdminLogin: `WF(Follow(t))`: a tab follows a redirect. `WF(TimePasses)`: the clock. Nobody has to log in,
  to fail, or to stop trying. `RedirectsEnd` has a premise of its own: other tabs do not change the session of the browser for ever.
* Orders, Webhooks, ReconcilerSchedule and AdminQuery are checked for safety and state no fairness; the bounds of
  ReconcilerSchedule say of time what liveness would leave open.

## 5. Proofs

All theorems hold for every number of browsers, links, requests, orders and admins, for all limits that
satisfy the named ASSUMEs (`StoreAssumption`, `OrdersAssumption`, `WebhooksAssumption`,
`ServiceAssumption`, `ScheduleAssumption`, `LoginAssumption`, `AdminAssumption`), and with every fault unless said otherwise.

**OrdersProofs.** `PaidWasCharged`, `CookieOpensOwnOrder` and `JobsArePaid` are not inductive. They rest on

* `NumberIsId`: a row's `inv_id` is NULL or its own id. An UPDATE `WHERE inv_id = n` then reaches at
  most row n;
* `ShownWereNumbered`: only an order whose page was shown is charged, and it has its number;
* `RequestsOwnRows`: a Checkout past its INSERT or FindPending holds a row of its own key,
  numbered when it is about to answer.

`IInv` is their conjunction with the type invariant. The steps are first reduced to the statement they
execute (`StepForms`: at most one of insert, number, pay, fail a set of pending rows, age), then
`FormsStep` shows once what each does to the rows, from the lemmas of PaymentStoreProofs; the
other variables follow action by action. From `IInvHolds` come `TypeCorrect`, `PaidOnlyIfCharged`,
`CookieSafe`, `JobsSafe`, the action property `HistorySafe` and the refinement `ImplementsLedger`
(each statement is a step of the ledger or a stutter). Under `~DbFaults`, with the strengthening
`SettledInv`, come `AnswersSafe` and `TellsSafe`; with database errors both are false, since ResultURL
answers OK and FailURL redirects whatever the statement did.

**NumberingProofs.** `NumberingSafe` is NumberedByOne for any number of overlapping Checkouts, without
crashes and failing statements: a row without number has a Checkout that holds it and no other
(`Numbering`; the INSERT takes an id nobody has). `OrdersApart` is NoEarlyDuplicate for Checkouts that
do not overlap, crashes included. FindPending looks at rows younger than `PendingTTL` only, while an order can
be paid until the clean-up fails it, so two orders of one key may be payable at once; the theorem says
that they are then at least `PendingTTL` apart. They stay apart since ages
grow together (`Apart`), and from FindPending, which found nothing, to the INSERT every payable order of the key
is already `PendingTTL` old. A row that a crash left without number makes FindPending an error, and
Checkout places a new order; `Apart` covers such a row too: it was itself placed only when the payable orders of its
key were `PendingTTL` old.

**WebhooksProofs.** `SendersCarryDueOrders` needs that due orders stay due (statuses are final), that
every order has its number (so a mark reaches the row that was sent), that goroutines are started
for due orders only, and that recorded orders were received. `DeliveryInv` collects them; it gives
`WebhooksTypeCorrect`, `SendersSafe` and `ImplementsOutbox`.

**PayServiceProofs.** A step of the service is a step of Orders, or one that Orders does not see
because it changes ages and deliveries of rows only (`StepKinds`). So `IInv` of Orders holds in the
service, and everything that follows from it. The senders' part of `ServiceInv` (senders carry due orders with
their numbers, what is recorded was received) survives Checkouts and clean-ups because statuses are final
and a due order is numbered. `ServiceInvHolds` gives `AnnouncedSafe`, `ServiceImplementsLedger`
and `ServiceImplementsOutbox`. What the runs check of the parts alone is proved of the whole as
well: `ServiceTypeCorrect`, `ServiceSendersSafe`, `ServiceOrdersSafe`, `ServiceHistorySafe`, and under the same
conditions as for the parts `ServiceSettledSafe`, `ServiceNumberingSafe` and `ServiceApart`. For these it
matters that a mark of the senders changes no `created_at` of a pending row and no number, so FindPending
sees the same rows before and after it (`UnseenIsQuiet`). "The service implements OrdersSpec" itself is not a theorem:
the goroutines that wait in `jobs` leave it one by one when SendWebhook starts, which Orders has only at a restart.

**ReconcilerScheduleProofs.** The invariant is a budget: wherever Run is, the time since the ticker fired
plus what is left of the tick is bounded, and the rest of a tick fits `BatchLimit` items (`ItemMax` each) less
those already sent. An order's age is then bounded by what it may be when the next clean-up, or the next
list that cannot leave it out, comes. `PendingBound` and `AttemptBound` follow for any number of orders and any
durations, the second for orders younger than `MaxAge`: once an order is older, nothing bounds its age, and
nothing is claimed of it.

**AdminLoginProofs.** Independent invariants. `LockInv`: a lock that begins at the threshold outlasts
the window of the first failure, whatever ends in between. `CheckingInv`: failures of the current window and
checks under way of one key together are below `Threshold + Cardinality(Tabs)`, as `Allowed` lets nobody in
once the threshold is reached; `KeyInv` says that a tab has a key while its password is checked. `ReturnInv`: forms
and redirects carry the user's goal in `next`, unless the tab was overtaken; then LoginPage may have dropped it, and
the tab goes to the payments. `LocksEndEarly` follows step by step (`LockStep`): what may shorten a lock.

**AdminQueryProofs.** While buildWhere adds conditions, the next placeholder is the next argument's and no
condition refers to an argument that is not there yet (`WellFormed`), so what was said before does not change
its meaning (`OneMore`). Condition by condition, `SelectsMatches` follows: the WHERE selects what the
filter means (`Matches`), for every filter, whatever its texts, and every table. `TilesAgree` applies it to
the lists behind the tiles.

The rest is about pages. The rank of a payment is the number of matching ones that are not older. Ranks
of different payments differ, so they are exactly 1 to the number of matches: the order of ListFiltered
exists and puts each payment at its rank (`NewestFirstSorted`, `NewestFirstRanks`), and a page holds the
ranks that LIMIT and OFFSET cut out (`PageMeans`). `PagesShare` follows, and `AdminTypeCorrect` from the
arithmetic of `TotalPages`. `SkipsBounded` is about an admin who reads page after page while the table
changes. `PagingInv` counts the unseen rows that the pages read so far should have held (`Before`): never more than
`gone`. A new payment only pushes the others back. When rows leave, some of those that stay move up to pages
that were read already; `MoveUp` shows that these are no more than have left: the oldest of them had a page
full of newer ones before and has fewer now, although the others that moved up are still before it. On the last page, what is
still behind it came after the COUNT (`BehindLast`), which is `late`.

**Only model-checked.** Liveness (`ServiceSettlesOrders`, `ServiceAnswersCharges`, `ChargedIsServed`, `LockEnds`,
`RedirectsEnd`): fairness and ENABLED are beyond the prover. Every invariant, every action property and every
refinement that a passing run checks is also a theorem.

## 6. Findings

1. Overlapping Checkouts of one link create two open orders (`orders_duplicate`).
2. FindPending's "same parameters" are three of them; an order with another callback, return address or
   metadata is reused (`orders_reuse`).
3. A payment after a cancellation or the clean-up is answered OK and never recorded as paid, nor is a
   webhook sent (`orders_late_payment`).
4. `RetryAfter` does not hold back the reconciler from a webhook that is being sent
   (`webhooks_twice`), since the attempt's time is written only when Send has ended.

Disagreements with comments that a passing run or a proof shows, without a violation run of their own:

* auth/ratelimit.go:9-10, "После Threshold попыток … блокирует на Window" (after Threshold attempts it locks for
  Window): a password check that was let in before a lock can end it. RegisterFailure starts a new count once
  the window since the first failure is over, although `lockedUntil` is later. `LocksLast` states this as
  one of the three ways a lock ends early; without it TLC finds `LocksLast` violated.
* handlers/payment.go:23-24, the access cookie lives "Чуть больше TTL pending-платежа" (a little longer than a pending
  payment): with the program's constants (four requests of 10 s, pauses of 0, 2, 5 and 10 s, a batch of 50, 0.2 s
  after a delivery) a tick lasts up to 47.7 minutes, so an order can be pending for 30 + 5 + 47.7, about 83
  minutes (`PendingAgeBounded`), longer than the hour of its cookie.

Observations that contradict no statement of the repository:

* An order is payable until the clean-up fails it, while FindPending stops seeing it after 30 minutes. In between a
  customer who follows the link again gets a second order, and can pay both (`NoEarlyDuplicate` allows it).
* A crash, or a client that closes the connection, between Create's statements leaves a row without
  `inv_id`. The clean-up fails it later (`ServiceSettlesOrders`) but does not number it: every page of the
  admin's list that holds the row is an error, before and after, until the row is outside the period
  (`ListPage` in AdminQuery).
* A due webhook is tried again within 5 + 5 + 2 * 47.7, about 105 minutes, as long as at most 50 are due
  (`AttemptedInTime`), until it is 7 days old.
* After RetryWebhook without a valid session the login leads to a path that is only served for POST, a
  404; and a tab at the login form whose browser was logged in by another tab is sent to the payments when it is
  loaded again, wherever its user wanted to go (both are exceptions that `LoginReturns` states).
* Without the proxy's headers the limiter's key holds the port of the connection (`ClientIP`), so that
  `FailuresPerWindow` holds for each connection and not for the client.
* MarkWebhookFailed cuts its text at 500 bytes; a cut within a character is an error of the UPDATE, and
  this order's attempts are not recorded, so that `RetryAfter` does not hold for it.
* A payment that leaves the admin's list while it is read can hide another one that stays (`SkipsAccounted`).

## 7. Not modelled

* **Configuration** reads environment variables once; **pages and landing site** are presentation. Neither
  has behaviour to check.
* **Process lifecycle** beyond what PayService composes: errors that end the start, the demo link, the
  logging middleware, the file server.
* **Hashes and texts**: HMACs of links and webhooks, Robokassa's signatures, bcrypt, URLs, formatting of
  sums. Properties of them are about strings and strength of functions, not about steps.
* **Amounts as decimals.** Keys are opaque, which is right for prices of whole cents, the only ones a panel
  signs. A third decimal would be rounded by DECIMAL(10,2) and then not found by FindPending.
* **Displayed columns**: `webhook_attempts`, `webhook_last_error`, `updated_at`, the sum of paid amounts.
