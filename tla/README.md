# Ownstall: specifications and proofs

Ownstall is a marketplace: creators open stalls, shoppers buy from them through
Stripe, paid orders go through an in-house production line, and around that
core run transactional and campaign mail, hired creators, a support desk, the
moderation of stalls and texts written by a language model.
The backend is a Go API (`backend/cmd/api`), possibly in several instances, a
Go mail worker (`backend/cmd/worker`), Postgres and Redis. Nothing in the code
locks a row across two statements, and little of it uses a transaction; much
of the work runs in goroutines that outlive the request that started them. So
the questions worth a model checker are the same in every part: what two
executions do between each other's statements, what a crash leaves behind, and
what a retry does again.

This directory holds TLA+ modules for those parts, the TLC configurations that
check them on small instances, and proofs of every safety property the runs
check. Run a check with `tlc -config <run>.cfg <module>.tla`, the proofs of a
component with `tlapm <name>Proofs.tla` (section 5 has the names).
`PROJECT.json` maps every definition to the lines it models and lists the runs,
hazards, findings and theorems.

Paths below are relative to `src/backend/`.

## 1. Inventory

| Component | Where | State it keeps | Module |
|---|---|---|---|
| Checkout and Stripe webhook | `internal/handlers/checkout.go` | `orders`, `product_variants.stock_quantity`, detached goroutines | `Checkout`, `OrderLedger` |
| Production queue and simulator | `internal/services/manufacturing_service.go` | `production_queue`, `production_events`, `orders.status`, sleeping goroutines | `ProductionLine` |
| Production capacity | same file, `EnqueueOrder`, `calculateEstimatedCompletion` | `production_capacity`, `estimated_completion_at` | `ProductionSchedule` |
| Redis job queue | `pkg/queue/queue.go` | list, sorted set, dead-letter list, the popped job | `JobQueue` |
| Mail worker, delivery tracking | `cmd/worker/main.go`, `internal/handlers/email_tracking.go`, `internal/services/email_service.go` | `email_logs`, `email_suppressions` | `EmailWorker` |
| Campaigns | `internal/services/campaign_service.go` | `email_campaigns`, one dispatch per instance | `Campaigns` |
| Bookings and payouts | `internal/services/booking_service.go`, `stripe_connect.go` | `bookings`, `reviews`, the profile's counters, Stripe's intents and transfers | `Bookings`, `EscrowLedger` |
| Support desk | `internal/services/ticket_service.go`, `auto_reply_service.go`, `sla_service.go`, `internal/handlers/inbound_email.go` | `tickets`, `ticket_messages`, per-process drafters and checkers | `Support` |
| Stall moderation | `graph/marketplace.resolvers.go`, `marketplace_resolver.go` | `tenants.status`, restrictions, `tenant_moderation_events` | `StallReview` |
| Migrations, operator bootstrap | `pkg/database/migrations.go`, `EnsureBootstrapAdmin` | `schema_migrations`, the schema, `platform_admins` | `Rollout` |
| AI client and budget | `pkg/ai/client.go` | `ai_logs`, a counter and a mutex per process | `AIClient` |
| Catalogue, generated copy, recommendations | `internal/services/product_service.go`, `copy_generator.go`, `recommendation_service.go` | `products`, `product_embeddings`, the drafts a request holds | `Studio` |
| Sign-in and tokens | `internal/handlers/auth.go`, `buyer_auth.go`, `admin_auth.go`, `internal/auth`, `internal/middleware/auth.go` | `refresh_tokens`, the tokens clients hold | `Sessions` |
| Rate limiter | `internal/middleware/ratelimit.go` | a Redis counter per key and its time to live | `RateLimiter` |
| Image QA, audit log, push, upload, telemetry, GraphQL runtime, web and mobile clients | see `PROJECT.json` | | not modelled, see section 8 |

### How the parts interact

* The shopper's browser calls the checkout handler; Stripe calls its webhook.
  A `checkout.session.completed` event starts three detached goroutines:
  decrement the stock, `EnqueueOrder` (production) and
  `SendOrderConfirmation` (mail), beside a push to the merchant.
* `EnqueueOrder` promises a date from the capacity table and writes the queue
  row; `AdvanceStatus(shipped)` writes back to `orders.status`. This is the
  only way production changes an order.
* `SendTransactional` and the campaign scheduler write `email_logs` and push
  jobs on the Redis queue; the worker pops them and calls Resend; Resend and
  the tracking pixel report back through HTTP.
* Moderation decides whether a stall's carts are accepted; the checkout reads
  it once, when a cart is resolved.
* Every process migrates the database before it listens, and the platform
  restarts one that failed three times (`railway.toml`). Migration 010 decides
  stalls itself: it approves those that are there when it runs.
* Redis is looked for once, at boot: an API that does not find it serves without
  a rate limiter, publishes no mail and leaves due campaigns where they are.
* The copy desk, the drafter of the support desk and the image check ask the
  language model through one client per process, which admits a call by its
  month's spending.
* Every request but webhooks and health checks passes the rate limiter; tokens
  are then checked by signature and expiry alone.
* `CompleteBooking` calls Stripe through `ReleaseEscrow`; no webhook reports a
  booking's payment, so the payment is looked up when the booking is approved.
* Each API instance runs its own campaign scheduler, SLA checker and
  auto-reply loop. `src/docs/runbooks/INCIDENTS.md:280` speaks of two API
  instances and a worker, so the models allow more than one.

### What is hard in each part, and what makes it correct

* **Checkout**: order row before session, session before money, webhook
  redelivered or late, process restarts after the acknowledgement. Correct
  when money and order never contradict each other and nothing unpaid is made.
* **Production**: two calls about one item between read, write and event; a
  simulator goroutine asleep for seconds. Correct when the audit trail reports
  what happened and shipping reaches the order.
* **Capacity**: read now, booked two statements later. Correct when bookings
  count promises, each once.
* **Queue and worker**: a popped job exists in one process only; a retried
  send may send twice; reports arrive in any order. Correct when copies are
  accounted for, attempts bound the mails and suppression is respected.
* **Campaigns**: several schedulers, errors in the middle of a dispatch.
  Correct when each recipient is queued once and the row tells the truth.
  An instance that booted without Redis decides none.
* **Bookings**: approvals that overlap, Stripe calls that fail after they
  succeeded. Correct when a payout follows a charge and counters count once.
* **Support**: the language model answers a thread as it was a minute ago.
  Correct when the SLA clock stops at the first public answer, a customer's
  reply reopens the ticket and a waiting ticket is reported.
* **Moderation**: a status tested by one statement and overwritten by another;
  migrations that two processes apply at once. Correct when every status is
  explained by a recorded decision and a suspension holds.
* **AI budget**: compared before a call, charged after it, in memory, beside a
  log in the database with a clock of its own. Correct when counter and log
  stay together, the overshoot has a bound and no path keeps the lock.
* **Copy**: ratings are by number, drafts may be missing, the vector of a text
  is stored by another request. Correct when only what was rated well is
  published and the vector belongs to the text.
* **Sign-in**: a request that found its row or its account goes on after a
  sign-out or a closing, for as long as a request may take; tokens of one second
  are the same token. Correct when a sign-out ends access within a request and
  an access token's life and ends nobody else's.
* **Rate limiter**: counted by one command and given a time to live by another,
  either of which may be applied without a reply. Correct when a window admits
  no more than its limit and comes to an end.

The 40 hazards in `PROJECT.json` give the line where each bites and the
properties that watch it.

## 2. Modules

Every module takes one database statement, Redis command or call of an outside
service as one step, because that is what interleaves. Outside services
(Stripe, Resend, Slack, the language model) are modelled from how the code
uses them and from nothing else. Variables marked *ghost* in a module record
history for a property and are never read by an action that models code.
Definitions marked *Seeded fault* are plausible bugs (a dropped guard, a
swapped order); `PROJECT.json` pairs each property of a passing run with one
that breaks it. No specification uses them.

**OrderLedger** is the abstract promise: place, settle, record, produce, ship.
It has no handlers, events or retries.

**Checkout** models `CreateCheckoutSession` as `ResolveCart`/`RefuseCart`,
`CreatePendingOrder` (the order and its items, one transaction),
`OpenSession`/`OpenSessionFails` and `Reply`; `HandleStripeWebhook` as
`HandleCompleted(o, acked)` and `HandleExpired(o, stored, acked)`; and the
goroutines as `DecrementInventory`, `SendOrderConfirmation`, `EnqueueOrder`
and their failures. `request[o]` is the handler's program counter; `outbox`
is what Stripe has not had acknowledged; `decrements` and `jobs` are the live
goroutines, which `Crash` wipes. `acked = FALSE` covers a 500 and a lost 200.
`ImplementsLedger` maps the session's state to what became of the money.
`UnitsTaken(v)` is a set of units, each named by the delivery that took it and
its number in the ordered quantity, so that `StockAccounted` counts a set.

**ProductionLine** models `EnqueueOrder`'s first event, `AdvanceStatus` as
read / write / log / ship, and `SimulateProduction`, whose goroutines hold a
stage computed before they slept (`sleeping`). The ship step is the update of
`orders` and nothing else: the shipping notification it starts is a stub that
prints, so nothing here says that a customer was told. `Marking(i)` are the
calls that still owe the order its update, `unmarked` the items whose call
failed or died before it.

**ProductionSchedule** models the day search of
`calculateEstimatedCompletion` one query at a time, the conflict-free insert
and the increment of the day's count.

**JobQueue** is the queue alone: `Publish`, `Pop`, `PopNothing` (a BRPOP that
waited in vain), then `ReadDue` or `ReadNothing`, with whatever the list holds
by then, `Move` (promotion), `Ack`, `Retry`, `Bury`, `GiveBackFails`, `Kill`. It
has no specification of its own; **EmailWorker** extends it, adds the log, the
suppression list and Resend, and its steps are conjunctions of a queue step
and what the worker's job function (a closure in `main`) does around it. A
bounce is two statements, `HandleResendWebhook` for the log and `Suppress`.
`Copies(j)` counts the copies of a job as numbered tokens, wherever they are.

**Campaigns** models `ScheduleCampaign` and, per API instance,
`ProcessDueCampaigns` and `dispatchCampaign` (claim, load, queue each
recipient, finalise, mark failed). `queueless` are the instances that found
Redis down when they booted; a restart looks again.

**EscrowLedger** is the abstract promise of hiring: the parties agree step by
step, the client's money is held, paid out once for delivered work, and shown
as settled. It has no mutations, statements or Stripe calls.

**Bookings** models the booking mutations for one creator profile. A mutation
of several statements occupies an entry of `call`, and others run in between.
`ImplementsEscrow` maps charges and transfers to the money the escrow holds;
calls and counters are not in it.

**Support** models the inbound handler, staff replies and status changes, the
drafter (select, read the thread, ask, store, send, resolve) and the SLA
checker (select at most `AlertBatch`, mark, post). Time is counted in messages: the time of an
event is the length of the thread when it happened.

**Actors** is the little that `Rollout`, `AIClient`, `Studio` and `Sessions`
share: where each process or request is between its statements, and how many
calls may fail.

**Rollout** models `RunMigrations` and `EnsureBootstrapAdmin` for several
processes: per file look up, execute, record, and the two statements about the
first operator. `CanExecute` says which files the objects they create allow to
run again; a process may end at any step, is refused a file another executed or
recorded, and is restarted at most `MaxRestarts` times (`MayStart`).

**StallReview** extends it: `Signup`, `SubmitStoreForReview` in its three
statements, `ApproveStore`, `RejectStore`, `SuspendStore`, `RestoreStore` and
`SetStoreRestrictions` (one transaction each, by `Moderate`), and the approval
that migration 010 gives to the stalls it finds. A process of this release
moderates and files only while it serves. Over a database of an earlier release
a process of that release may serve, too, until `OldStops`, and signs up stalls
before and after 010 ran. Decisions are in the order in which they
commit, which is that of their updates; `created_at` is when a transaction
began, and may put two that overlapped the other way round.

**AIClient** models `Complete` and `Stats` with `checkBudget` and `reseed`:
compare months, lock, read the month's total, store it, admit, ask, charge, log.
`month` is the clock of the process, `dbMonth` that of the database. The
attempts of one request are its outcome.

**Studio** models one product: `GenerateProductCopy` (drafts, ratings by
number, the best one), `autoPublish`, `IndexProduct` and `IndexAllProducts` in
overlapping requests. Tones of drafts may fail, and a rating may name a draft
that is not there. A model call is its outcome.

**RateLimiter** is the counter of one key: INCR and EXPIRE are two steps, the
second may not happen, and the reply to either may be lost whether Redis applied
it or not. The Redis client then sends it again (go-redis does, up to three
times with the options of `queue.go:55`), so that the request which created the
key may be told two. `timeless` says that the request which had to give the key
its time to live could not.

**Sessions** is one account and its devices: `Signup`, `Login`,
`IssueTokens`/`IssueUnheard`/`IssueRefused`, `CheckRefresh`, `ReadAccount`,
`Mint`, `Logout`. A token is the second it was issued in, because that is all
that tells two tokens of an account apart; a request makes its tokens in any
second from the one in which it found account or row (`since`) to the one in
which it stores them. `audience` separates staff, whose handlers hand out a
token that could not be stored and do not read `is_active` on a refresh, from
shoppers and operators. `RequestTime` is the 30 seconds after which the router
cancels a request's queries (`cmd/api/main.go:119`) and the server its answer
(`main.go:371`): the clock does not go on while a request is at that age.

## 3. Runs

| Run | Instance | Distinct states | What it shows |
|---|---|---|---|
| `checkout` | 2 orders, 2 stalls, 2 variants, one event delivered twice | 167,968 | nothing unpaid is produced, confirmed or shipped; an order and what can be charged agree (no session without order, no charge for a failed one); stock is accounted for; a captured charge is eventually recorded; the ledger is implemented, its liveness included |
| `production` | 3 orders, 2 deliveries each, 3 days; 1 item, 2 calls, 1 simulator run, 4 writes | 1,252,723 | bookings equal promises; in turn capacity holds; a weekend is only the fallback. The trail reports no status the row was not given; the order says shipped only of an item that was, and says so in the end or its call failed; without overlap the trail is a chain |
| `email_worker` | 2 mails, 2 workers, 2 attempts, 1 fault | 523,436 | every copy is accounted for and acknowledged for a reason; attempts bound the mails; suppression holds but for mails past the check; every job ends |
| `campaigns` | 2 campaigns, 2 instances, 2 recipients | 211,472 | one mail per recipient; `sent` reports the number queued; a campaign still open is untouched; a due one is decided, or stays in sending after a fault, or scheduled because no instance has a queue |
| `bookings` | 3 processes, 1 restart each, 3 files, 2 faults; 2 bookings, 2 calls | 581,472 | migrations are recorded in order and none serves before the last; some process serves in the end, or a fault had a part in it that none does. A transfer follows a charge; `released` was paid; counted once unless approvals overlap; every step is one of `EscrowLedger` or none |
| `support` | 1 ticket, 1 handler, 1 drafter, 2 checkers | 297,277 | first response is first; a reply reopens or the reopening failed; one alert per process and hour; an overdue ticket is reported |
| `stall_review` | 1 stall, 2 processes, 2 filings, 3 decisions, 2 faults | 2,290,467 | every status is explained by its events or by migration 010; a suspension outlives all but a submission it overtook |
| `ai_budget` | 2 callers, limit 2, 2 months, 2 faults | 130,564 | counter and log are a few calls apart; a month overshoots by at most two calls for each other caller and one for each fault; every call ends |
| `studio` | 2 desks, 1 catalogue rebuild, 2 tones, 3 runs, 1 fault | 3,573,471 | a published text was rated at the threshold and best of its run; at rest the vector is that of the text unless requests crossed |
| `sign_in` | 2 devices, 2 requests, 3 seconds and 1 fault, or 1 device and 6 seconds; in the limiter 3 requests, limit 2, 2 lost replies | 1.6 million (symmetry) | a sign-out, or a closing, ends access after one request and one access token; a closing for staff after a refresh token and a request more; nobody else is signed out. A window admits no more than its limit; its key has a time to live, or is about to, or a reply was lost |
| `rate_limit_refused` | 3 requests, limit 2, 1 lost reply | violation | finding 2 |
| `checkout_unproduced` | 1 order | violation | finding 1 |

Where a run sets `CHECK_DEADLOCK FALSE`, its system may truly come to rest, with
every order shipped, every job ended, every booking completed.

Three runs check two components that share no state, which costs no more than
the two apart. `MCProduction` has the dates of an order and the stages of its
item, `MCSessions` the sign-in and the limiter in front of it: one of the two
stays where it began. In `MCBookings` the processes start first and bookings are
made once all of them serve.

### Why the bounds are enough

* Two of everything that competes (orders for stock, workers for a job,
  instances for a campaign, calls about a booking, checkers for a ticket): the
  code has no state that tells three competitors from two, since conflicts are
  settled row by row.
* One redelivered event and one delivered once: the handler does not count, so
  a second delivery already shows what any later one does. The proofs cover
  every number.
* `MaxFaults` (`MaxFailures`, `MaxMissed`) 1 or 2: one fault reaches every error path and every crash
  point; two in `Campaigns`, where a failing dispatch is followed by a failing
  status update. In `ProductionLine`, `ProductionSchedule` and `Checkout`
  faults are unbounded.
* `MaxRetries` 2 instead of 3 distinguishes first, middle and last attempt.
  `MaxExtra` 1 allows one double promotion, the least that breaks an "once".
* `Horizon` 3 instead of 7, with one weekend and one place per day: three
  orders fill all days and reach the fallback.
* `Support` with a second drafter has some millions of states and was left
  out; the interleavings of drafter, handler, staff and checkers are in.
  `BatchSize`, `AlertBatch` and `MaxDraftsPerDay` are 1 for one ticket. With two
  tickets `OverdueIsReported` is lost: the ticket with the older deadline may be
  due again before the other was ever selected (`sla_service.go:64`).
* Processes in `bookings`: three, so that two can be given up while one goes on, and
  three files: a first, one between, and the one that may be executed again.
  One restart instead of three and three files instead of ten keep the
  proportion that matters, more occasions to be refused than starts: two
  processes may refuse the third at each file. What keeps `DeployServes` is not
  the number but that the process which executed the highest file so far is
  never refused; without faults it holds with no restart at all.
* `stall_review` has two processes because one cannot apply a migration twice,
  and its third decision and second filing let a suspension be lost and looked
  for again. Two faults are a failing record and a failing event.
* `ai_budget`: two callers are each other's competition; the bound on the
  overshoot counts callers, and is reached at the turn of the month. Three
  callers were checked without liveness (537,275 states).
* `studio`: two tones are the least in which a failed draft shifts the numbers;
  three runs let two requests cross and a third find the result.
* `sign_in`: `AccessTTL` 1, `RefreshTTL` 2 and `RequestTime` 1 of three seconds
  let an access token expire while its refresh token lives and a refresh token
  expire after it, while a request is under way; the real 15 minutes, 7 days and
  30 seconds differ in nothing else. A closing is followed for the six seconds of
  its longest path (request, refresh token, request, access token: five), after
  the third with one device and no fault (`Followed`), since no device minds
  another's closing. Devices and requests are symmetric.
* The limiter: the code compares the counter with one and with the limit, so a
  limit of 2 keeps the two apart; three requests, one of them beyond it.
* `production`: orders and their deliveries are interchangeable, so the higher
  one begins later (`InTurn`).

### Fairness

* `Checkout.LiveSpec`: Stripe delivers an event until it is acknowledged, and
  a started goroutine runs (weak fairness of delivery and of `RunEnqueue`, which
  finding 1 grants so that only a crash or an error can be to blame).
  Nobody has to pay, ship or moderate. `MaxDeliveries` forces the last
  delivery to succeed, which stands for "the database is not down for ever".
* `ProductionLine.LiveSpec`: a call that started goes on. Nobody has to call.
* `EmailWorker.LiveSpec`: a worker's loop goes on (`Subscribe` only returns
  when its context is cancelled, and a killed worker is restarted). It is fair
  to the worker, not to a particular job: `EveryJobEnds` needs that publishing
  stops, since scheduled jobs are promoted only when the list was empty. Strong
  fairness of `ReadDue` says that a backoff of minutes passes: while workers
  keep reading the sorted set, what is in it is found due in the end.
* `Campaigns.LiveSpec`: time passes, and each instance's ticker ticks.
* `Support.LiveSpec`: each checker's ticker ticks and the hour passes.
* `Rollout.RolloutLiveSpec`: `main` goes on, and a process that ended is started
  again while its restarts last (`railway.toml:9`, `ON_FAILURE`, three).
* `RateLimiter.LimiterLiveSpec`, for finding 2: a request in the limiter goes on
  and a time to live runs out. Nobody has to call.
* `AIClient.BudgetLiveSpec`: a call goes on, since client, attempts and statements
  time out; taking the lock is strongly fair, as Go's mutex hands itself to a
  waiter that starves.

The other specifications state no fairness and check no liveness.

## 4. Findings

1. **A paid order may never be produced** (`checkout.go:430`). `EnqueueOrder`
   runs in a goroutine after the event was acknowledged; a restart or one
   database error loses it, and Stripe has no reason to deliver again.
   Migration 007 says every paid order gets an entry.

2. **A client may be refused for ever** (`ratelimit.go:143`). The time to live of
   a key is set only by the request that is told one, in a second command. One
   lost reply to the INCR, one failing EXPIRE or a client that hangs up between
   the two leaves a counter that is never reset; the comment above `incr` says
   why it must be. Without a failure (`MaxFaults = 0`) the property holds.

Seen while modelling, without a run that shows a violation:

* `SimulateProduction` writes a stage it chose before its goroutine slept up to
  nine seconds (`manufacturing_service.go:205`), so an item put on hold, shipped
  or advanced meanwhile is moved to that stage;
* `CompleteBooking` completes a booking whose escrow could not be released
  (`booking_service.go:237`) and refuses it from then on, so the retry its
  comment speaks of cannot happen;
* the drafter resolves a ticket on which the customer wrote while the model was
  thinking (`auto_reply_service.go:145`): the inbound handler found it open and
  had nothing to reopen;
* every delivery of a completed event decrements the stock and counts the sale
  again (`StockAccounted` states it per delivery);
* a stall suspended after the cart was resolved still takes the money;
* an `expired` event whose update fails is acknowledged; the order stays
  pending. Orders exist before payment, unlike migration 003 line 7 says;
* overlapping goroutines overbook a day, and `is_holiday` is read and ignored;
* overlapping `AdvanceStatus` calls can leave a trail that is not a chain;
* a job popped by a worker that is shut down is lost, because giving it back
  uses the cancelled context; two workers can promote one job twice;
* a campaign may be marked `failed` although all its mails are queued, and one
  in `sending` at a crash stays there;
* the draft cap is checked once per pass, so a pass overshoots it by up to a
  batch, and two processes may both answer a ticket;
* a failed Slack call suppresses the alert for an hour, and a check reports ten
  tickets, the oldest deadlines first: with 120 unanswered, newer ones are never
  reported, because the first are due again by then;
* an API that booted without Redis leaves every due campaign scheduled, and
  nothing but a restart of it, or another instance, changes that;
* go-redis sends a command again when no reply came, so a mail may be on the
  list twice;
* a stall suspended between the read and the update of a resubmission becomes
  `pending` again (`SuspensionHolds` names the exception);
* two processes that migrate at once may both apply 010, and the second time it
  approves stalls that signed up in between; a process that ends between a file
  and its record leaves a database on which some files fail at every boot, as
  `src/docs/runbooks/INCIDENTS.md:312` knows (`DecisionIsOnRecord`,
  `DeployServes` name the exceptions);
* `can_publish_products` is set by operators and read by nothing:
  `PublishProduct` publishes for a restricted stall;
* the AI counter of one process knows nothing of another's (a restart reads the
  log), and when a month's total was read while the database still had the old
  month, last month's total counts for the whole new one;
* with an unknown total the budget check allows the call by intent
  (`client.go:528`), but at the turn of a month it may compare last month's;
* a refresh of staff does not look at `is_active`, so closing such an account
  ends its access only with its refresh tokens;
* two sign-ins of one account in one second give one refresh token: signing out
  on one device signs out the other, staff may be given a revoked token, and
  shoppers and operators get an error;
* an account closed between a refresh's look at `is_active` and the token it
  makes still gets the token (`ClosingHolds` has the time of a request for it).

## 5. What is proved

A run checks a small instance; the modules `*Proofs` prove the same property
for every value of the constants: any number of orders, devices, workers,
instances or checkers, any limits and lifetimes, and any bound on faults,
edits and redeliveries, so that those bounds no longer matter. Every theorem
below is of the form `Spec => []P`, for the specification without fairness,
unless the table says otherwise. Modules that are proved about together name
their parts apart: `ScheduleSpec`, `ReviewSpec`, `RolloutSpec`, `BudgetSpec` and
`LimiterSpec` are the specifications of `ProductionSchedule`, `StallReview`,
`Rollout`, `AIClient` and `RateLimiter`.

| Module | Theorem | States |
|---|---|---|
| `CheckoutProofs` | `TypeCorrect` | `TypeOK` |
| | `PaidBeforeMade` | `ProductionWasPaid` |
| | `ChargeHasItsOrder` | `OrderAgreesWithMoney` (from `NoChargeForFailed` and `OrderBeforeSession`) |
| | `OneStallPerOrder` | `CartBelongsToOneStall` |
| | `StockIsAccounted` | `StockAccounted` |
| | `StatusOnlyMovesForward` | `StatusFollowsFlow`, an action property |
| | `CheckoutImplementsLedger` | `Ledger!Spec`, the refinement of `OrderLedger` |
| `ProductionProofs` | `TypeCorrect` | `TypeOK` |
| | `AuditTrailHolds` | `AuditTrail` |
| | `OrdersFollowTheRow` | `ShippingFollowsTheRow` |
| | `BookingsCountPromises` | `BookingsMatchPromises` |
| | `CapacityIsKept` | `DaysAreKept` |
| `EmailWorkerProofs` | `TypeCorrect` | `TypeOK` |
| | `JobsAreAccounted` | `JobsAccounted` |
| | `SuppressionIsKept` | `SuppressionHolds` |
| | `MailsAreFew` | `MailsPerAttempt` |
| `CampaignsProofs` | `TypeCorrect` | `TypeOK` |
| | `OneMailEach` | `QueuedOnce` |
| | `RowsTellTheMails` | `RowTellsTheMails` |
| `BookingsProofs` | `TypeCorrect` | `TypeOK` |
| | `PayoutsAreEarned` | `PayoutAgrees` |
| | `CompletionsCountedOnce` | `CountedOnce` |
| | `MoneyIsFinal` | `MoneyOnlyMovesOn`, an action property of its own |
| | `BookingsImplementEscrow` | `ImplementsEscrow`, the refinement of `EscrowLedger` |
| `SupportProofs` | `FirstResponseIsKept` | `FirstResponseIsFirst` |
| | `RepliesReopen` | `ReplyReopens` |
| | `AlertsAreFew` | `AlertedOncePerHour` |
| `SessionsProofs` | `SignOutIsFinal` | `SignOutHolds` |
| | `ClosingIsFinal` | `ClosingHolds` |
| | `SessionsSurvive` | `SessionSurvives` |
| | `WindowsAreCapped` | `WindowIsCapped`, for `LimiterSpec` |
| `MarketProofs` | `DecisionsAreOnRecord` | `DecisionIsOnRecord` |
| | `SuspensionsHold` | `SuspensionHolds` |
| | `FilesAreInOrder` | `MigratedInOrder`, for `RolloutSpec` |
| | `PublishedTextsWereRated` | `PublishedWasRated` |
| | `VectorsAreCurrent` | `VectorIsCurrent` |
| | `CountersMatchLogs` | `CounterMatchesLog` |
| | `BudgetsHold` | `BudgetHolds` |

### Assumptions

Each module names one assumption on its constants; the runs evaluate them.
They say that limits are natural numbers (positive where the code has a
positive literal), that constants which are functions have their types, and:

* `CheckoutAssumption`: a variant belongs to one stall and a cart maps variants
  to integers. Quantities may be zero or negative; `Acceptable` refuses them.
  Orders and carts may be infinitely many.
* `LineAssumption`, `QueueAssumption`, `SupportAssumption`, `BookingAssumption`,
  `CampaignAssumption`, `BudgetAssumption`: the callers, workers, checkers,
  bookings or recipients that a property counts are finite in number, and
  somebody calls the language model. Items, tickets, campaigns,
  instances, addresses, stalls and processes need not be.
* `CampaignAssumption` also keeps `None` from being a campaign, as NULL is no id,
  and `BudgetAssumption` the free lock from being a caller.
* `StudioAssumption`: tones are finitely many numbers (a slice's indices), and
  the neutral score of an unrated draft is below the threshold, as the literals
  of `copy_generator.go` are.
* `SessionAssumption`: an access token lives at least a second and no longer
  than a refresh token, as `internal/auth/jwt.go` has it (15 minutes, 7 days). The
  time of a request may be anything, zero included.

### Inductive invariants

None of the properties is inductive: each speaks of rows, money or mails and
says nothing of the request that is about to change them. Every `IInv` adds
what is still true of what an execution under way has read. All were checked
by TLC, as invariants of the instances of section 3, before they were proved.
`InitIInv` and `NextIInv` (one case per action) make them theorems.

* **Checkout.** For each order, how far its parts can be apart: how far the
  handler got fixes what exists (`RequestMatchesOrder`); which statuses fit
  each state of the session (`OrderMatchesSession`); Stripe only reports what
  happened (`EventMatchesSession`); goroutines and queue rows belong to paid
  orders (`EffectsFollowPayment`); the check of `resolveCartTenant` survives
  until the order exists (`ResolvedCartHasOneStall`). For the refinement, a
  payment and an expiry settle, the two webhook branches record when the order
  is still pending and stutter otherwise, `EnqueueOrder` starts production,
  `ShipOrder` ships, and all else leaves the ledger alone.
* **Stock.** A second invariant, `StockInv`, relative to the first: deliveries
  are numbered as they come and a goroutine still to run is not among those
  that ran (`DeliveredOnce`), so its units are new ones; a cart does not change
  once its order took goods, because only paid orders take (`TakenWasPaid`).
  `GREATEST` at every update is `GREATEST` once, at the end (`ClampTwice`).
* **ProductionLine.** The events written to a status and the calls that still
  owe one are together no more than the times the row was given it
  (`EventsAreOwed`); a shipped item has its order marked, a call that still owes
  it the mark, or one that never got there (`MarksAreOwed`). Where no two calls met, the one call about
  an item still knows the status it started from (`SoleCall`, `ChainInTurn`).
* **ProductionSchedule.** The `ON CONFLICT` insert lets one goroutine per order
  book (`InsertedOnce`); in turn, the day it found still has room
  (`TurnsAreTaken`).
* **EmailWorker.** An entry scheduled again is never the text of one that is
  there (`EntriesAreFresh`: each retry is due later), so the copies of a job
  can be counted; a job nobody promoted twice has one copy (`OnlyCopy`), whose
  `Attempts` is how often it was popped (`AttemptsAreCounted`). What was sent to
  a suppressed address and the workers whose check had passed are together no
  more than the workers (`LateIsOwed`).
* **Campaigns.** A campaign that left `draft` and `scheduled` never returns, so
  one instance dispatches it (`OneDispatcher`), whatever others write in its
  row, and counts what it queued (`CountIsQueued`).
* **Bookings.** What a call of `CompleteBooking` has seen it can rely on
  (`CallsMatchRows`), since statuses, charges and transfers move one way; a
  booking no two approvals shared has one that counts it (`OneApproval`).
* **Support.** A late mail on a shut ticket has its reopening under way
  (`LateIsUnderWay`); alerts posted and checks that still owe one are together
  no more than the checkers (`PostsAreOwed`), since a check marks before it
  posts (`PostsAreMarked`).
* **Sessions.** How tokens, rows and requests hang together: nothing is of a
  later second, no request is older than `RequestTime` (`RequestShape`), a second
  with a row belongs to a device, devices that share a token are known. A device
  that signed out has no live row left to renew from, and a refresh on its way
  found the row before that (`SignedOutIsRevoked`); after a closing only those
  sign in, and outside the staff only those get a token, whose request found the
  account open (`ClosedIsOver`).
* **RateLimiter.** Requests passed are no more than the counter shows, which stops
  at the limit and one.
* **Rollout.** What two processes hold at once is contested and a file once
  executed is recorded, held or abandoned (`HoldersContest`, `ExecutedIsKnown`);
  restarts only take behaviours away.
* **Escrow.** What `IInv` of `Bookings` says of a call under way is also what
  the refinement needs, with one fact more: a booking with an intent or a call
  has its row (`BookingsExist`). A charge holds the money, the first transfer
  pays it out, `RecordRelease` settles, status updates are `Agree`, and the
  intent's statements, counters, reviews and crashes leave the ledger alone.
* **StallReview.** `HoldersContest` of `Rollout` and `MigratedInOrder` are why 010
  approves a later stall only if contested: a stall that 010 did not find
  signed up once 010 was executed, and one that was decided about found it
  recorded (`StallsAreServed`). No submission is about to write over a suspension but one
  it overtook (`SuspendedIsNotWritten`).
* **Studio.** Publications and the runs that may still publish are together no
  more than the runs begun (`PublicationsAreRuns`); what a desk goes by is what
  the model said (`ScoresAreRatings`); who has read the text holds the current
  one unless requests crossed (`ReadIsCurrent`), and a vector of an older text
  has somebody about to replace it (`StaleIsReplaced`). That a run has a best
  draft is well-foundedness of `<` (`LeastNumber`).
* **AIClient.** Counts of callers by place. The lock makes the loader of a total
  the only one, so each other caller writes at most one row while it loads
  (`TotalIsRecent`); that bounds what the counter lacks (`CounterIsNotBehind`)
  and, with those admitted together, the rows of the month and the calls that
  will add one (`AdmissionsAreBounded`). A charge without its row is a fault
  (`CounterIsNotAhead`, `UnloggedAreFaults`).

The sums and counts among them are cardinalities of sets of tokens, so that the
theorems of `FiniteSetTheorems` apply; `BagGains`, `BagLoses` and the `InList`
lemmas say the same of the bag that models the Redis list, `AddUnits` of stock,
and `TimesAppend`, `EventsAppend` of the sequences of `ProductionLine`.

### Only model-checked

* Liveness: `ChargeIsRecorded`, the ledger's own fairness, `EveryJobEnds`,
  `DueIsDecided`, `OverdueIsReported`, `ShippedEventuallyMarked`,
  `DeployServes`, `EveryCallEnds`. Fairness and ENABLED are beyond the prover.
* The violations of the findings, which are behaviours, not theorems.

## 6. Abstractions

* Prices, names, addresses, texts, templates and the wording of errors are
  left out. Truncating cents from a float (`checkout.go:111`,
  `stripe_connect.go:79`) is therefore not covered.
* `Checkout`: an order is one request; moderation is one flag per stall that
  flips at any time; the sale's metrics are the `processed` count. The push
  to the merchant is left out.
* `ProductionLine`: the `LIMIT 20` of the simulator is never reached.
* A Redis command of the queue happens or does not; what go-redis sends again is
  modelled only in `RateLimiter`, where a property turns on it. That an LPUSH
  whose reply was lost (`queue.go:113`) is applied twice, and its mail queued
  twice, is therefore not covered. A process that
  serves is not ended by the platform's health check (`healthcheckTimeout`).
* `JobQueue`: the list is a bag, so that jobs may be popped in any order. That
  allows more than Redis does, so what holds here holds there. Backoff times
  are "due at any time".
* `Campaigns`: the recipients are a fixed set; what becomes of a queued mail is
  `EmailWorker`'s subject.
* `Bookings`: one creator profile; the client's payment is one step at Stripe.
* `Support`: selection takes any subset of the batch size where the code takes
  the oldest; staff may set any status; one day, so that the daily draft count
  never resets. A check is assumed to end within the hour in which it marked.
* `StallReview`: one restriction stands for all; the directory, terms and
  operators' lists are left out.
* `AIClient`: every call costs one: the counter cuts a cost to millionths
  (`client.go:203`) where the row rounds it, which is less than a millionth a
  call and no unit; the month is a number that two clocks reach
  at different moments.
* `Studio`: a text is the number of its publication, with 0 for the creator's
  own; a vector is the text it was computed from.
* `Sessions`: one account, bcrypt and roles left out; the row's own expiry is
  that of the token. `CloseAccount` is an operator's edit in the database, as no
  code writes `is_active`.

## 7. Plan

The modules of section 2, the runs of section 3 and a proof of each safety
property they check are done. What section 5 lists as only model-checked is
beyond the prover.

A composition of `StallReview` with `Checkout`'s moderation flag would make
`Moderate` less arbitrary; as it stands `Checkout` allows every sequence of
decisions, and so also those `StallReview` has.

## 8. Not modelled, and why

* Security headers and the audit row, which a goroutine inserts after the
  response and nothing reads back; roles, which are read from the token.
* Image QA: one call and one row per image, shared with nobody.
* Push notifications, uploads, telemetry, the connection pool: I/O that decides
  nothing here.
* The queries of recommendations, directory, dashboards and lists: ranking and
  filtering SQL without state. Product images and A/B events are inserts and
  counters nothing else reads.
* Generated GraphQL code, resolvers that only read, scripts, and the web and
  mobile clients, which keep no state the server relies on.

`graph/generated.go` and `graph/model/models_gen.go` are written by gqlgen and
are two thirds of the Go code. Of the lines people wrote, the map covers three
in ten; the others are the resolvers that read, validation, SQL text outside
the modelled statements, HTTP and JSON plumbing, and the parts listed here.
