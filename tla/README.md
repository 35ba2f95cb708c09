# A TLA+ model of The Hub

The Hub is a control plane for a portfolio of SaaS products: it keeps the tenants' licences,
their Stripe subscriptions and invoices, takes the usage the products report and prices it, decides
which features a tenant may use, raises and escalates alerts, and evaluates compliance controls. It
is a Fastify API process and a BullMQ worker process that share PostgreSQL and Redis, and an SDK that
the products embed. These modules specify the parts of it in which concurrency, failure and order
matter. TLC checks them on small instances; TLAPS proves every safety property that holds there for every
instance, and that five components implement abstract specifications of what they promise (section 4). Liveness
is model-checked only.

    tlc -workers 2 -config FreezeRaces.cfg MCBillingFreeze     # a run
    tlapm BillingFreezeProofs.tla                              # the proofs of a module

Lines are lines of the repository; `src/src/services/x.ts` is written `services/x.ts`.

## 1. Inventory

Status: **M** modelled, **P** partly, **-** not modelled. The same list with its source files, and
with what each partly modelled component leaves out, is in `PROJECT.json`.

| | Component | State | Operations | What makes it correct |
|---|---|---|---|---|
| M | Licence state machine (`services/license.ts`) | `licenses`, `staged_license_changes` | create, activate, suspend, freeze, unfreeze, cancel; the cron that promotes staged changes | a licence only takes the edges of the machine, or a status an operator staged |
| M | Billing freeze (`services/billingFreezeService.ts`) | `billing_grace_periods` | handle billing_payment_failed, licence suspended / cancelled / reactivated, scan for expired periods | no cancellation without a period; a period is resolved once, completely, and in the end always; no suspension without a period |
| P | Stripe subscriptions (`services/stripeService.ts`) | `stripe_subscriptions`, Stripe, idempotency keys, credit mode cache | create, cancel, handle updated / deleted events | a pair's row names a subscription of that pair; the row agrees with Stripe |
| M | Stripe webhook route (`webhooks/stripe.ts`) | `stripe_webhook_events` | insert once, enqueue, mark dispatched / failed | an event is processed once, and not lost; the status tells the truth |
| P | Invoices (`services/invoiceService.ts`) | `invoices` | handle created, finalized, payment succeeded, payment failed | a failed payment reaches the freeze; the status follows Stripe |
| P | Queues and workers (`queues/index.ts`, `worker.ts`, `queues/cron.ts`) | Redis queues, dead letter queue | add, take, retry, stall, bury; crons | every job ends, and a dead one is accounted for |
| P | Hub client SDK (`packages/hub-sdk`) | token, pending refresh, usage buffer, metrics buffer, lease cache | ensureFreshToken, requestWithRetry, trackUsage, flush, disconnect; push and flush of metrics | no recorded event is lost, sent twice or overtaken; one refresh at a time; the loops stop and do not stall |
| M | Entitlement (`services/featureGate.ts`, `services/leaseService.ts`, `routes/leases.ts`) | gates, overrides, leases, kill switches, Redis limiter | evaluate, issue, verify, revoke, extend | no lease against an earlier decision; a dead lease stays dead; a limiter that recovers |
| P | Alerts and escalation (`services/alertService.ts`, `services/escalationService.ts`, `jobs/*`) | `operator_alerts`, escalation log, delivery jobs | ingest, acknowledge, resolve, scan, deliver | an old alert escalates, once per tier, and every contact is tried |
| P | Plan changes and grandfathering (`services/planChangeService.ts`) | `plan_change_ledger`, Stripe's schedule, `plans.active` | schedule, confirm, archive, grandfather | the ledger calls applied what Stripe charged; one grandfathering per plan and customer |
| P | Catalogue, add-ons, discounts, quotes (`planCatalogService.ts`, `addOnService.ts`, `discountService.ts`, `pricingModelService.ts`) | rows with one Stripe object each, cached pricing model | create, activate, cancel, archive | one Stripe product per product; a cancelled add-on is not billed |
| P | Usage, cost and credits (`usageTrackingService.ts`, `lib/computeCost.ts`, `quarterlyCycleService.ts`) | `usage_events`, `cost_ledger`, grants | ingest and price, compute, unlock quotas | every event charged once; tiers add up; no month granted twice; every request ends |
| P | SDK versions | versions, reports | check, report | an unsupported version gets no lease |
| - | Operators, tenants, products | rows, tokens, settings cache | CRUD, authentication | one transaction each |
| P | Compliance (`complianceEvaluationService.ts`, `complianceAlertService.ts`) | evidence, verdicts, history, runs, posture | evaluate, dispatch alerts, ingest signals, promote | a completed run is whole; a drop is notified |
| P | Analytics, advisor, BI and console (`bi/rollupService.ts`, `bi/metricIngestService.ts`) | metric events, roll-ups | ingest, roll up | the bucket that closed has all its events |
| - | Audit and notifications | logs, deliveries | append, call out | - |
| P | Stripe adapters | the mock's idempotency store | pass calls on | a key is answered again for 24 hours |
| - | HTTP surface and infrastructure | pools, rate limits | check input, call the services | - |
| - | Web console | - | shows what the routes return | - |

How they interact. Stripe calls the webhook route, which inserts a row, adds a BullMQ job and
updates the row. The worker process takes the jobs of thirty queues, five at a time for the Stripe
queues. `handleInvoicePaymentFailed` adds a `billing_payment_failed` job, the only job of these
queues that has attempts. That job suspends the licence through `license.ts`, opens a grace period
and schedules the subscription's cancellation in Stripe. Stripe's answer comes back as
`customer.subscription.updated` events in no certain order. Operators freeze, unfreeze, cancel and
stage licence changes through the API at any time, and crons promote staged changes (daily)
and resolve expired periods (hourly). `customer.subscription.updated` also adds a `confirm-plan-change` job to the queue `billing-jobs`,
which `archivePlan` uses for grandfathering. Lease issue reads the licence and the gates; usage
ingestion reads the pricing model that another route activates, through Redis; the alert scanner
(a cron) adds delivery jobs; compliance evaluation runs nightly over the signals that products post.
No transaction spans two of these components: each step commits, and every other process may run
before the next. That, with crashes between steps, retried jobs, replayed Stripe answers, calls that
time out and happen all the same, and reordered events, is where the behaviour is hard. The `hazards`
of `PROJECT.json` name the lines where it bites.

## 2. Modules

| Module | Models | Extends / instantiates |
|---|---|---|
| `LicenseLifecycle` | abstract: what a reader of `licenses` may rely on | |
| `EventLifecycle` | abstract: what becomes of a Stripe event | |
| `EventChannel` | abstract: the SDK's buffer of usage events, from the product to the Hub | |
| `UsageLedger` | abstract: what is charged, and what the product is told | |
| `PriceRegister` | abstract: the negotiated price in force | |
| `License` | `services/license.ts` | INSTANCE `LicenseLifecycle` |
| `BillingFreeze` | `services/billingFreezeService.ts`, create and cancel of `stripeService.ts`, the subscription events, Stripe | EXTENDS `License` |
| `StripeWebhooks` | `webhooks/stripe.ts`, event queues and failed listener, invoice handlers | INSTANCE `EventLifecycle` |
| `HubClient` | the SDK's token, its refresh and the usage buffer | INSTANCE `EventChannel` |
| `Entitlement` | `featureGate.ts`, `leaseService.ts`, `routes/leases.ts` | INSTANCE `LicenseLifecycle` |
| `PlanChange` | `planChangeService.ts`, archiving of `planCatalogService.ts`, the two `billing-jobs` | |
| `Catalogue` | creation of plans, add-ons and discounts | |
| `PriceOverrides` | `priceOverrideService.ts` | INSTANCE `PriceRegister` |
| `AddOns` | a tenant's add-on: `addOnService.ts` | |
| `UsageCosts` | `usageTrackingService.ts`, activation and cache of `pricingModelService.ts` and `pricing/routes.ts` | INSTANCE `UsageLedger` |
| `Pricing` | `lib/computeCost.ts`, `costCalculationService.ts`, the ladder of `launchkitPricingService.ts` | |
| `QuarterlyCycle` | `quarterlyCycleService.ts` | |
| `Alerts` | `alertService.ts`, `escalationService.ts`, `jobs/escalationDeliveryWorker.ts` | |
| `MetricsClient` | the SDK's `metrics/metricsClient.ts` with the ingest route | |
| `Rollup` | `bi/metricIngestService.ts`, `bi/rollupService.ts` | |
| `Compliance` | `complianceEvaluationService.ts`, the failure alert of `complianceAlertService.ts` | |
| `MCBillingFreeze`, `MCStripeWebhooks`, `MCHubClient`, `MCUsageCosts`, `MCQuarterly` | small instances | EXTENDS one module each |
| `MCFreezePairs` | two customers: overlapping promotions, or the freeze with retries | EXTENDS `MCBillingFreeze` |
| `MCHubCalls` | two connects or a connect and a ping, with a disconnect | EXTENDS `MCHubClient` |
| `MCServices` | the services that share no table, side by side | EXTENDS the twelve modules above, from `Entitlement` on |
| `BillingFreezeProofs`, `StripeWebhooksProofs`, `EntitlementProofs`, `HubClientProofs`, `PlanChangeProofs` | proofs about the module named | EXTENDS it |
| `SalesProofs` | proofs about `UsageCosts`, `AddOns`, `Catalogue`, `PriceOverrides`, `Pricing` | EXTENDS these |
| `OperationsProofs` | proofs about `Alerts`, `MetricsClient`, `Compliance`, `Rollup`, `QuarterlyCycle` | EXTENDS these |
| `ServicesProofs` | proofs about `MCServices`, from those about its parts | EXTENDS `MCServices`, `EntitlementProofs`, `PlanChangeProofs`, `SalesProofs`, `OperationsProofs` |

### License and LicenseLifecycle

`lic` is the table `licenses`, one row for each tenant-product pair at most (`"none"` before
`createLicense`); `suspended_at` and `grace_expires_at` are always written together and are one
boolean, `clock`. Each operation of the state machine is one transaction under `SELECT ... FOR
UPDATE`, hence one action; refused calls (404, 409, 422) change nothing and have no action. The
promotion job selects its rows outside the transactions that write them, so it is `PromotionRead`
and one `PromotionWrite`, `PromotionSkip` (rollback) or `PromotionCrash` after it; `todo` holds
what a run read. `PromotionWrite` does not look at the status again, as the code does not.
`StageChange` is external: nothing in `src/` inserts into `staged_license_changes`.

`LicenseLifecycle` is the promise: pending -> active <-> suspended -> cancelled, and any status that
an operator has approved for the pair. The refinement maps `status` to the column and `approved`
to the rows ever staged (a promoted row stays approved, because two overlapping runs may both apply it).

### BillingFreeze

Each `billing_payment_failed` job (one per invoice, as its jobId is the invoice), each concurrent
call of the cancelled and reactivated handlers, and the scanner is a process with a step `pc` and
local variables `arg`. A step is one statement, transaction or Stripe call. `StepFails` makes any
running process throw: a job goes back to its first line while `tries` lasts and then is dead, a
call is lost, the scanner's loop goes on with the next row. The steps: `LookupInvoice`,
`SuspendForPayment` / `SuspendRefused` (422, swallowed) / `SuspendThrows` (404, 500),
`CheckOpenGrace`, `InsertGrace`, then `cancelSubscription` as `ReadSubscription`, `StripeCancel`,
`RecordCancel`; the two handlers start with the one UPDATE that resolves all open periods of the
pair and go on to `cancelSubscription(now)` or to `createSubscription` (`LookupPlan`,
`StripeCreate`, `RecordCreate`); `Scan` is the scanner's UPDATE and `ScanNext` its loop.

The `SELECT ... FOR UPDATE` of `handleLicenseSuspended` locks nothing when it finds nothing, so the
check and the INSERT are two actions and two jobs may both open a period. `replay` is Stripe's
idempotency store for `create-sub` keys. `HandleSubscriptionUpdated` writes the subscription
as it is or as it was, since neither Stripe nor five concurrent workers keep the order.

### StripeWebhooks

For each event: the row's status (`table`), the request that inserted it (`request`) and its job
(`job`). `Deliver` is the `INSERT ... ON CONFLICT DO NOTHING`; a delivery that finds the row
changes nothing. `Add`, `AddThrows` (with or without the job in Redis), `MarkDispatched`,
`MarkFailed` and `RequestDies` are the rest of the request. Handlers take one step per statement
that writes. A throw (`JobFails`, `SubscriptionMissing`) makes the job dead at once, as no event job has an
`attempts` option; a dead worker's job is put back once (`JobStalls`). `FailedListener` then sets
the status and adds to the dead letter queue, either of which may fail and is only logged.

`EventLifecycle` is the promise: unseen, accepted, queued, settled, in this order and each once, and lost
from accepted only. The refinement reads the stage off row, request, job and dead letter queue: an event
is lost if its request is past the add, or gone, and there is no job; a failed job is settled, as the operators have it.

### HubClient

The client is one thread, so a process runs from one `await` to the next. The
processes are the calls of `connect()` (each with its version report), of `disconnect()`, other requests
(`Pings`) and `#flush()`, of which `#flushing` admits one. `pc` says what each awaits, `awaits`
which token acquisition. An `await` yields even if what it awaits has settled already: with a fresh token
`EnsureFreshToken` puts the process at "send", its turn comes in a later step (`Resume`: `SendNow`, `Enter`,
`Fail`, `Clear`), and the application or another process may run in between. So a `ping(); disconnect()` of
the application sends the ping with a null token, as the code does. When an acquisition settles, it is the turn of everyone
who awaits it (`GoOn`, `GiveUp`). `token` is null, about to expire ("stale") or "fresh". `shared` is `refreshPromise`; `acquiring` has the acquisitions in flight,
which may be two, because a 401 forgets the shared one (`Unauthorized`). `loops` has the intervals that
run and `timer` the one `#flushTimer` names. Usage events are numbered in the order of recording.
A flush that fails leaves its batch in `late`: the Hub's handler may store it at any later time (`LateIngest`), since a client that gives a request up does not stop it.

`EventChannel` is what the usage buffer promises: what arrives comes in the order of recording, and the client lets
go of the oldest events only, which the Hub then has. The refinement maps `released` to the number of
events that neither wait nor are under way. The metrics buffer makes no such promise.

### Entitlement

A POST issue is `Incr` (with its 429), `Pexpire`, `ReadLicense`, `ReadGates` (three parallel queries,
each answered at a moment of its own, hence one step each), `CheckVersion`, `InsertLease` and
`RecordVersion`; it may fail at each (`RequestFails`), which between the first two leaves a counter that never expires
(`orphaned`). POST verify reads the row (`VerifyRead`) and answers later. Operators set kill
switches, overrides and version statuses, revoke and extend; the licence moves as `LicenseLifecycle`
allows, which `License` is proved to implement. `since` records, for each request, the refusals that have been
in force ever since it began; a lease may miss what was decided meanwhile, not those.
`EvaluateGate` and `Snapshot` are the two implementations of the gate chain; they are compared for what they
enable, not for the reasons the first one gives, and for customers who have a licence.
`extendLease` is two steps: `CheckExtendable` locks the row and looks at the clock, `ExtendLease` is the
UPDATE and COMMIT, which do not look again (`leaseService.ts:220`, `:227-235`). `extension` is when the check was made;
a revocation waits for the lock. So a lease may run out in between and be brought back, and `DeadLeasesStayDead` allows exactly this.

### PlanChange, Catalogue, PriceOverrides, AddOns

`PlanChange` follows one customer. `schedulePlanChange` is split at every Stripe call (immediate: the
item's price; next cycle: create the schedule, then its two phases) and the INSERT into the ledger;
`Charge` sends an event, which the webhook may handle in any order (`ConfirmFromWebhook`), and the
confirmation job is `ConfirmRead`, `ConfirmApply`, `ConfirmPlan`, because two statements write the two
tables. `archivePlan` is its transaction (`ArchivePlan`) and the job it adds after the commit
(`ArchiveEnqueue`); the grandfathering job's NOT EXISTS and INSERT are two steps. Jobs run at any time, five
at once, and again when their worker stalls.

`Catalogue` has calls of `createPlan`, `createAddOn` and `createDiscount` race for one product: find
the key, find or make the Stripe product and write the column, make the price, insert the row. Each Stripe call
may be given up after five seconds and happen all the same. Stripe (external) answers a key with the same object, or
with an error if the parameters differ, until it forgets it after a day; no call is assumed to last a day.
The mock adapter answers a key whatever the parameters are and does so atomically only for one call at a time; it
is not what production uses.

`PriceOverrides` has calls of `setPriceOverride` overlap as transactions do under READ COMMITTED: NOW() is
the moment of BEGIN, the UPDATE selects among the rows committed when it starts (`SelectOverrides`), waits for
those another call holds and looks at these again (`CloseOverrides`), and nobody sees a row before its COMMIT. Two
open rows may result; `IsCurrent` is the one `getCurrentOverride` returns, and the one `schedulePlanChange` charges.
`PriceRegister` is the promise: each setting takes effect at one moment, its COMMIT, and the price in force is that of the
setting that began last, which `current` names by its `effective_from`.

`AddOns` is one tenant and one add-on: activation (three checks, Stripe, INSERT under a partial unique
index), deactivation (which may find any row of the tenant, as its SELECT has neither a status nor an
order), archiving, and a subscription that Stripe makes unpaid or cancels.

### UsageCosts, Pricing, QuarterlyCycle

A post of `UsageCosts` takes a connection, inserts its row (waiting for another transaction that holds its key),
asks Redis and, on a miss, a *second* connection of the same pool for the pricing model, inserts
the cost and commits; `FreeConnections` is the pool, and its timeout is `ConnectTimesOut` or
`QueryTimesOut`. Activations go through `services/pricingModelService.ts`, which writes the cache after its
commit, or through `pricing/routes.ts`, which does not. `UsageLedger` is the promise: an event and its cost
appear in one step, once for each key and for good, and each post is told "recorded" or "duplicate" in the step
that makes it true, or the answer is lost (`StoreUntold`: the reply to COMMIT does not come, the process dies, or a later event of the batch fails, `CommitUnanswered`); the refinement maps the ledger to the committed costs and the answers to the posts' last steps. The price itself is `Pricing`'s: `ComputeCost`
and `CalculateCost` are the two tier loops, `LadderTotal` the volume ladder, each a recursive function of the
number of rounds (`After`). They are compared unit by unit: what one more unit adds to the bill is
the price of the tier this unit falls in, and its fee if it is the first there. The tiers are whatever the table can hold
(`StoredTiers`): `pricing/routes.ts:179-226` activates a model without `validateTiered`, so that the last tier may
be bounded, one in the middle open, or none there at all. Each loop reads `up_to_units` its own way, the ledger as the width of a tier, the quote as its
end; the comparison rewrites the tiers (`ByEnds`, `WithoutFees`), which no code does, and so shows that the *loops* are right, not that a
quote is what the ledger charges (see section 5). Negative prices and widths, which that route takes too, are left out. `QuarterlyCycle` is the calendar arithmetic of the unlock job over a
calendar with the job run at any time and `current_period_start` late or going back. Stripe renews on the last day of a month
that has no anchor day (`Anniversary`, external); `addMonths` runs over into the next (`AddMonths`). `NoMonthGrantedTwice` claims its months for
subscriptions that began on a day every month has; on the 29th to 31st the code grants a month twice (finding 7).

### Alerts, MetricsClient, Rollup, Compliance

`Alerts`: a scan reads the open alerts once (`ListAlerts`) and then takes each alert and tier in turn:
`EscalatePair` inserts the row that claims it, `AddDelivery` adds the job; the delivery worker tries
every contact and remembers failures (`TellContact`). For sms contacts, which `escalationRuleRoutes.ts:26` accepts, and unknown types it only
logs a warning (`PassOver`, `escalationDeliveryWorker.ts:41-45`), and the job completes. Scans overlap, throw and crash.

`MetricsClient`: `PushMetric` flushes a full buffer without awaiting it, so a flush is a record in
`flights` that waits for the token, the POST or the body of the answer. `Catch` and `Finally` are the
blocks of those names; `forgotten` records what the client lets go of without an answer. `TooLarge` is the route's 400 for more than
1000 events (`biMetrics.ts:48-50`): `flush()` posts the whole buffer and puts it back, so a buffer that an outage lets grow past this is refused for ever.
The rejection of `void this.flush()` in `push()` is handled by nobody, and Node ends the process (`ProcessEnds`) unless the product has a handler of its own.
When the client gives a request up the hub may still store the batch, also after a later one (`LateIngest`).

`Rollup`: a roll-up is modelled by the set of events it aggregates, since each aggregate is a function
of them; a run overwrites the buckets that have events in its lookback. `Compliance`: one evaluation run is
a loop over the controls with one step per statement; the alert of a drop is a `dispatch` of its own, because nobody awaits it.

## 3. Runs

| Run | Module, cfg | Shows |
|---|---|---|
| `freeze_races` | `MCBillingFreeze`, `FreezeRaces.cfg` | one customer, two failed invoices with two attempts each, a handler call and the scanner: `NoCancellationWithoutGrace`, `PaymentSuspensionHasGrace`, `ResolvedOnce`, `ResolutionIsComplete` |
| `freeze_pairs` | `MCFreezePairs`, `FreezePairs.cfg` | two customers, a normal and a credit mode plan; either two overlapping promotion runs over two staged changes with every operation on licences, or the freeze with a job of two attempts: `TypeOK`, `SubscriptionOfItsPair`, `RefinesLifecycle`, and under fairness `GraceEventuallyResolved`, `JobsEnd` |
| `webhooks` | `MCStripeWebhooks`, `Webhooks.cfg` | the five events of one invoice, in any order: `TypeOK`, `DispatchedHasJob`, `PaymentFailureReachesBilling`, `ProcessedOnce`, and under fairness `JobsSettle` |
| `freeze_retry` | `FreezeRetry.cfg` | finding 1 |
| `freeze_replay` | `FreezeReplay.cfg` | finding 2 |
| `webhook_lost` | `WebhookLost.cfg` | finding 3 |
| `webhook_status` | `WebhookStatus.cfg` | finding 4 |
| `hub_client` | `MCHubCalls`, `Hub.cfg` | two `connect()`, or one and a ping, with a `disconnect()` and the flush: `TypeOK`, `NothingLostOrReordered`, `TokenUntilForgotten`, and under fairness `EventsDelivered` |
| `hub_loop` | `MCHubClient`, `HubLoop.cfg` | finding 5 |
| `services` | `MCServices`, `Services.cfg` | the other services, see below |
| `pricing_cache` | `MCUsageCosts`, `PricingCache.cfg` | finding 6 |
| `quarterly_ends` | `MCQuarterly`, `QuarterlyEnds.cfg` | finding 7, over the calendar of a common year |

**`services`** checks twelve modules in one run. They share no variable, so their product would only multiply
the states: `subject`, a constant of each behaviour, says whose steps it takes, the others keep
their initial values, and the 371,014 states are the sum of the parts. Where a part is large its
subject is split, each half with some of its processes: "issue" has two lease requests and one change
without clock or verifier, "verify" one lease, two changes, the clock and a verifier; "changes" has two plan change calls
and no archiving, "archive" one call with archiving; "scan" has two scanners and no delivery, "deliver" one scanner
with deliveries; "catalogue" has plans and an add-on, "coupons" a plan, an add-on and a discount;
in "compliance" signals come on the first day only.

| Subjects | Properties |
|---|---|
| all | `ServicesTypeOK`, the type invariant of the module that moves |
| issue, verify | `LeaseHonoursEarlierDecisions`, `DeadLeasesStayDead`, `ChainsAgree`; under fairness `LimiterRecovers` |
| changes, archive | `AppliedWasCharged`, `GrandfatheredOnce` |
| catalogue, coupons | `CatalogueMatchesStripe` |
| addons | `CancelledNotBilled` |
| usage | `ChargedOnce`; under fairness `PostsEnd` |
| pricing | `PricesAreGraduated` |
| overrides | `LatestOverrideInForce` |
| cycle | `NoMonthGrantedTwice` |
| scan, deliver | `QueuedOnce`, `EveryContactTried`; under fairness `StaleAlertEscalates` |
| metrics | `MetricsInOrder`; under fairness `MetricsDrain` |
| rollup | `ClosedBucketIsWhole` |
| compliance | `DropIsNotified`, `CompletedRunIsWhole` |

Every property of a passing run has a mutant: a definition with a plausible bug that the run's
own instance finds. The mutants stand before the definitions they replace. The refinements of `EventLifecycle`, `EventChannel`,
`UsageLedger` and `PriceRegister` are not properties of a run: TLC agreed on these
instances, and they are proved for all constants.

**Bounds.** A hazard of the freeze is between two actors over one pair (two jobs, a job and a call, a call
and the scanner) or between two pairs that share a table; hence one pair with two jobs in `freeze_races`, and two
pairs with one job in `freeze_pairs`. `MaxTries` is 2 in all of them (the code has 5): the second attempt already finds everything
the first one left, and a third finds nothing else. `Graces` and `Subs` bound the rows ever
inserted; a step that needs another row waits. Two periods are what two racing jobs, or the two
attempts of one, can open; one subscription and one more are what
a replay needs. In `freeze_pairs` two promotion runs (`Promoters`) read two staged changes (`Stages`) before either writes, so that each
change can be applied twice, over whatever the state machine did between; promotions and payments meet only in the licences, and the `subject` of `MCFreezePairs` lets
the freeze run without staged changes and the promotions with all licence operations. `MaxSent` = 3 of the five events are sent in a behaviour, so every combination of
three is met; one more is a payment without the Hub's metadata, which goes to the dead letter queue. In `Hub.cfg` two requests
can await two acquisitions at once; `absent` leaves one connect or the ping out of each behaviour. Two usage events (`MaxBufferSize` 2) are what it takes for one to be
recorded while the other is in flight. Jobs, invoices, grace periods and
subscriptions are interchangeable in `freeze_races`, which has safety properties only, so it uses
symmetry; the runs with liveness do not.

In `services`: two requests and one decision that falls between any two of their reads (`MaxChanges` 2 where
there is one request); `MaxTime` 2 is past the end of a lease of `Term` 1. Two plan change calls and three outside
operations are what it takes for a webhook to come late and meet the next change. Three posts, two with one key, in
a pool of two: both connections can be held by posts that each want another. Models of up to three tiers with
widths 0, 1 and 3 or none, and five units, reach past the ends of all but the widest, with tiers that take nothing and open tiers in the middle. Thresholds of one and two ticks, two scanners and
one fault: a scan meets the escalation another has claimed. Three add-on requests are an activation, its cancellation and a
replay. The calendar has seven months of three or four days with anchors 1, 3 and 4, so that two cycles pass and a
month ends before the last anchor's day can come; that one is typed, but outside `NoMonthGrantedTwice`. Three metric events, a buffer of two, batches of two at most and two faults: a flush fails while events come in,
the next fails too, and the buffer grows past what the hub takes. Three contacts have an sms one in the middle. A roll-up has buckets of two ticks and a job one tick after each, events up to five ticks old (past the
lookback of four), one tick ahead, and two of them to share a bucket or not. An automated and a human control with two
runs over two days are a pass, a drop and a run that finds the drop done. Five creations: two of one key with different amounts, two plans that need the
product at once, and an add-on and a discount that do not make one. Three settings: two leave two open rows, and the third meets both.

**Deadlock** is not checked: when no customer, operator or webhook does anything, the system rests.

**Configuration.** `GraceConfigured` is TRUE in the runs. `config/decisions.ts` leaves
`TODO_D_DEF_001_INTERVAL` null at this commit, with which `suspendLicense` throws 500 and the
freeze would never start (`SuspendThrows`); the theorems hold for both values.

**Fairness** is weak and asked of few things: a worker takes the steps of the jobs it is
given, the scanner's cron keeps firing (`queues/cron.ts:58-63`) and time passes, so that periods
come due. For the SDK: intervals fire, a continuation whose promise has settled runs (`Resume`), and every fetch ends (acquireToken aborts its own after
`timeoutMs`, Node's fetch gives up on the others by default); that the Hub answers well is a premise of
`EventsDelivered`, not an assumption. In `services` (`MCFairness`): Redis expires a key that has a
time to live, and a live process sends the PEXPIRE that follows its INCR (a crash is `RequestFails`); a
process goes on with each post it has taken, the pool's timeout being one of its steps; a scan that
began ends and the cron begins another; the metrics timer ticks while it is set and each of its requests
ends (`FlightStep`: in an answer, or in the 400 that a batch beyond the hub's limit always gets). No failure, call, webhook or operator action is fair, so none is relied on.

## 4. Proofs

All theorems hold for all constants that satisfy the named assumptions of the modules: attempts, pool, buffer and bucket
sizes are positive, a `None` is not one of the values it stands beside, a calendar has months of at least one day, none more than twice as long as another, and
contacts and thresholds are sequences. Bounds are numbers of any size. Each invariant below was model-checked on the instance
of a run before it was proved.

**Billing freeze** (`BillingFreezeProofs`):

* `TypeCorrect`: `TypeOK` is invariant. It is not inductive: what `ReadSubscription` reads depends on the
  pair a process holds. `TypeInv` adds that the local variables a step relies on are set (`LocalsOK`)
  and that promotion runs hold existing rows (`TodoOK`).
* `ResolutionIsFinal` and `ResolutionLeavesNoneOpen`: the action properties `ResolvedOnce` and
  `ResolutionIsComplete`, from lemmas that say who writes `billing_grace_periods`.
* `CancellationNeedsGrace`, `SubscriptionsStayWithTheirPair`, `SuspensionOpensGrace`: from the
  inductive `SafetyInv == TypeInv /\ PairInv /\ GraceInv /\ SuspensionInv`. `PairInv` extends the claim about rows to
  the replay store and to every process that holds a subscription; `GraceInv` says that a process on
  its way to cancel works for a pair that has had a period, which is what makes the claim about
  Stripe inductive; `SuspensionInv` follows the job of the pair through its steps and attempts.
* `LicensesRefineLifecycle`: every step of the composed system is a step of `LicenseLifecycle` or a stutter.

**Webhook route** (`StripeWebhooksProofs`): `WebhooksTypeCorrect`, `DispatchedIsQueued` and `EventProcessedOnce` from
`RouteInv`, which says that nothing starts for an event without a row (`RowFirst`), that only its one
request adds its job (`JobFromRequest`) and that a request about to write "dispatched" has added it (`AddedFirst`).
`FailedPaymentIsPursued` needs the handler followed statement by statement: `PaymentInv` says that an
invoice recorded as failed has its billing job or an event whose job has still to add it, or died.
`EventsLiveOnce`: the route implements `EventLifecycle`, in the mapping above. `LifeInv` adds to `RouteInv` that only the
request that stored an event sets it aside; each step moves one event (`OthersStay`), one stage on or not at all.
`EventsEndOnce` is what finding 3 comes to: no later delivery brings a lost event back.

**Leases** (`EntitlementProofs`): `GateChainsAgree` compares the two chains case by case. `LeaseInv` (a
lease is inserted once; a verification that has read a dead lease has read why it is dead, and never answers that it is valid; while
an extension holds a row nobody revokes it, `ExtensionHolds`) gives `DeadLeaseIsFinal`, and `DeadLeaseIsRefused`, a property no run checks. `LeaseIsHonest` is the hard one: `DecisionInv` relates what each
request has read so far to `since`, for each of its reads, and so to every decision that was in force before it.

**SDK client** (`HubClientProofs`): `ClientTypeCorrect`; `TurnComesWithToken`, step by step: a request gets its turn with a token, and
only `ClearAuth` or a 401 can take it before the turn comes; and `UsageIsKept` from `BufferInv`, by
which what is recorded is stored, in the batch of the one flush in flight or in the buffer;
lemmas about concatenation and subsequences carry it through a failed flush that puts its batch back in front.
`BufferIsChannel`: the usage buffer implements `EventChannel`, late batches included. Order is not enough for it: `KeptIsSuffix`
says that what waits are the *last* events recorded, each in its place. From the channel the client inherits
`HubHasPrefix` (what the Hub has is a prefix of what was recorded, without a gap) and `HubHearsInOrder`.

**Charges and add-ons** (`SalesProofs`): `EventsAreChargedOnce` from `KeyHeldOnce` (one open transaction holds a
key, and no row of that key is committed) and equal cardinalities of rows and costs;
`CancelledAddOnIsNotBilled` from two invariants about requests: one that is about to cancel a row has taken its item off
(`Prepared`), and an item once off never comes back. `AddOnsTypeCorrect`: whatever a request or a row names is there,
because items and rows are only added (`AddOnsGrow`). `PoolIsNotOverdrawn` is the type invariant of `UsageCosts`, whose
point is its last conjunct: posts, activations and second connections together never hold more than `PoolSize`, even of infinitely many posts.
`UsageIsLedger`: ingestion implements `UsageLedger`. The step of the ledger is the COMMIT; that a duplicate is told so only
when the key's row is committed, and not while another transaction holds it, comes from `KeyHeldOnce`. A COMMIT whose answer is lost is a
step of the ledger that tells nothing. `AnswersAreTrue` is the ledger's own invariant, inherited.

**Pricing** (`SalesProofs`): `LoopsPriceGraduated`, for any sequence of tiers, validated or not. The library's induction theorems take the predicate as an
operator parameter, which the provers cannot instantiate; the proof therefore takes the *least* round at which the
claim fails (`LeastNumber`, from the library's theorem that a well-founded relation has minimal elements) and shows
that there is none (`RoundByRound`). `LoopRuns` unfolds a loop by one round. The lemma that carries it is `ShareOfUnit`: the share of a tier in
the bill, max(0, min(u, end) - start), grows by one from u to u+1 for exactly the tier that unit u+1 falls in.

**Catalogue** (`SalesProofs`): `CatalogueIsOneProduct` from `CatalogueInv`: the product in the column, the one
Stripe remembers and the ones the calls hold are the same as soon as there are two of them
(`OneProduct`), and a call about to insert holds the price it asked for (`AskedPrice`).

**Price overrides** (`SalesProofs`): `LatestPriceWins` from `OverridesInv`: transactions begin apart, a row
starts when its transaction began, and a row is only closed by a later one, which is committed in the same step.
`OverridesAreRegister`: the overrides implement `PriceRegister`. With any row at all one is the latest
(`OneIsLatest`), so that the CHOOSE in the mapping has something to choose, and only one; `PriceNeverGoesBack` follows.

**Plan changes** (`PlanChangeProofs`): `PlansTypeCorrect` needs that events, jobs and archivings are finite sets, so that
a new one finds an id of its own (`PlanTypeInv`). `AppliedIsCharged` from `AppliedInv`: the price in each event under
way has been charged (`ChargedAreHeld`), and a confirmation between its statements holds the row it picked and such a
price (`ConfirmInOrder`). `SubscriberGrandfatheredOnce` from `OnceInv`: of an archived plan there is one permission
to grandfather, which is with the request that archived it, then with its job, and then used (`PermissionIsOne`).

**Alerts** (`OperationsProofs`): `EscalationQueuedOnce` from `QueueInv`: one scan at most is between a pair's row and
its job, and nothing was queued for the pair before (`AddsAreOwn`); each row is with a scan, was queued or was lost
(`RowsAccounted`). `AlertTypesCorrect` from `AlertTypeInv`, in which a scan about to add a job has its pair at the
head of its list. `DeliveryTriesEveryone` from `DeliveryInv`: a job that stands at a contact has been through all e-mail and webhook contacts that come before.

**Metrics** (`OperationsProofs`): `MetricsKeepOrder` from `MetricInv`: one flight at a time holds what is older than the
buffer (`OneFlight`), and the buffer ascends (`WaitsInOrder`). `NoEventVanishes`, a property no run checks: each pushed event
waits, is under way, has arrived, or was let go of by a failed request or with its process. Nothing is claimed about the order in which
events arrive: the hub may store a batch that was given up after a later one.

**Compliance** (`OperationsProofs`): `DropsAreNotified` from `DropInv`. `CompletedRunsAreWhole` is the hard one: `RunInv` says
what a run has written after each of its statements (`RunInHand`): the history rows of the controls it is through with, as many as its counters
tell, so that a completed row counts what is there (`CompletedRows`), and the posture is that of the verdicts until the next run begins (`PostureIsCurrent`).

**Roll-ups** (`OperationsProofs`): `ClosedBucketsAreWhole`. Events are never removed (`StoredStay`); the arithmetic is
`TwoBucketsBack`: what falls in the current bucket or the one before is no older than the lookback of two lengths, for any
length of a bucket and offset of the cron.

**Quarterly unlock** (`OperationsProofs`): `MonthsAreGrantedOnce`, for subscriptions that began on a day every month has. A grant is then a function of its
month (`GrantOf`), whatever the order of unlocks, late renewals and period starts that go back: `QuarterlyInv` says that every period starts
a multiple of three months after the first day, on the anchor's day. `QuarterlyTypesCorrect` is for any first day: what runs over the end of one month
stays within the next.

**The services side by side** (`ServicesProofs`): `ServicesAreApart` says that `MCServices`, which looks at one service at a
time, checks the services themselves: a behaviour of its specification is, for each of them, one of the service's own specification
without fairness (`Pricing`, which only computes, has no steps to order). `ServicesTypesCorrect` then combines the services'
inductive invariants into the type invariant of the run.

Model-checked only: the liveness properties (`GraceEventuallyResolved`, `JobsEnd`, `JobsSettle`, `EventsDelivered`,
`LimiterRecovers`, `PostsEnd`, `StaleAlertEscalates`, `MetricsDrain`), because liveness under fairness is out of the
prover's reach. Every invariant and every action property of a passing run, and every refinement, is a theorem.

## 5. Findings

1. *A retried payment failure skips the cancellation.* The grace period is committed before
   Stripe is called; the next attempt finds it, takes the "idempotent" return and completes
   (`billingFreezeService.ts:35`).
2. *A second reactivation gets the dead subscription.* The `create-sub` key holds tenant, product and
   plan only, so within 24 hours Stripe repeats its first answer (`stripeService.ts:200`).
3. *A crash between INSERT and `queue.add` loses the event*, since every later delivery is taken for a
   duplicate (`webhooks/stripe.ts:96`).
4. *A permanently failed event shows as dispatched*: the route's UPDATE may come after the failed
   listener's (`webhooks/stripe.ts:121`).
5. *A flush interval outlives its client*: `disconnect()` during `connect()`'s version report clears nothing,
   and the interval starts afterwards (`HubClient.ts:96`).
6. *The pricing cache outlives its model*: `hub:pricing:active:<product>` has no expiry, and activation through
   `POST /hub/pricing/:productId/model` (`pricing/routes.ts:179-226`) neither writes nor deletes it, so that usage goes on
   being priced by a deprecated model (`pricingModelService.ts:172`).
7. *A month is granted twice*: the cycle of a subscription that began on the 29th, 30th or 31st starts on another day when it is computed from
   another row, because `addMonths` runs over where Stripe takes the last day of the month; another start is another cycle id, so that
   ON CONFLICT does not see the first grant (`quarterlyCycleService.ts:36-40`). In the run the row is late by a webhook; without
   any delay, a subscription of January 31 whose row says April 30 computes a cycle that starts on July 30, and from its next row one that starts on July 31.

Read in the code while modelling, without a run of their own:

* *Usage.* The SDK posts usage to `/api/v1/usage/ingest` (`HubClient.ts:251`); the only usage route is
  `/api/v1/usage/events` (`routes/usageRoutes.ts:25`), and the SDK's events carry no idempotency key. A metric batch
  sent again after a lost answer counts twice.
* *Event jobs.* "Throws AppError(404) when the subscription row is absent — triggers BullMQ retry" (`invoiceService.ts:86`, also `:114`): the webhook
  route adds jobs without options (`webhooks/stripe.ts:114-119`), and the `maxAttempts` of the definitions (`queues/index.ts:223`) is never passed
  on. Each job has one attempt; an invoice event that comes before its subscription is dead at once.
* *Token.* `getToken()` calls its throw one that "should never happen in practice" (`HubClient.ts:108-109`), and requests assert `token!` (`:314`):
  `ping(); disconnect()` in one turn sends `Bearer null`, since `await ensureFreshToken()` yields and `disconnect()` forgets the token (`:175`).
* *Metrics.* "next tick retries" (`metricsClient.ts:112`) does not help a buffer of more than 1000 events, which `biMetrics.ts:48-50` refuses each time.
* *Leases.* A lease that expires between the check and the UPDATE of `extendLease` is revived after it may have been answered "expired" (`leaseService.ts:220-235`).
* *Escalation.* A delivery job with an sms contact completes without having told it (`escalationDeliveryWorker.ts:41-45`; its test expects this).
* *Costs.* `billingPeriodCostService.ts:36` and `costCalculationService.ts:108` sum a column `unit_count` of
  `cost_ledger`, which has none. On the same stored tiers the quote (`calculateCost`) and the ledger (`computeCost`) agree
  if there are no fees and only the first tier is bounded, and differ in general, as one takes `up_to_units` for an end and the other for a width; ends that
  descend make the quote take units back.
* *Roll-ups.* The lookback is not truncated to the start of a bucket, and the upsert overwrites: a late run
  recomputes the oldest bucket in its lookback from part of its events, against `rollupService.ts`'s header.
  `ClosedBucketIsWhole` therefore claims events for the bucket that has just closed and later ones only.
* *Plan changes.* An immediate change never updates `plan_id`, so `softArchivePlan` does not see those
  subscribers; a recorded or grandfather row hides a scheduled change from `confirmPlanChange`; `schedulePlanChange` has
  no caller among the routes. Plans are inserted inactive (migration 036) and nothing in `src/src` activates them.
  Editing a plan's amount leaves its Stripe price.
* *Overrides and renewals.* Two overlapping settings leave two open rows (the price in force is still the later one's). Archiving
  a grandfather sets `expires_at = CURRENT_DATE`, "inactive from today" (`routes/admin/grandfathers.ts`), while
  `grandfatherService.ts:46` still counts that day; one that starts today or later cannot be archived, as the CHECK
  `expires_at > effective_from` (migration 074) refuses.
* *Discounts.* Stripe keeps one coupon per customer, as the comment before `applyDiscount` says, but the check
  (`discountService.ts:160-166`) is per product and no index backs it: concurrent applications, or those for two products, overwrite each
  other's coupon, and `removeDiscount` takes off whichever is there. `grantCredit` has no idempotency key.
* *Add-ons.* An activation replayed within a day of a cancellation yields an active row over a deleted item; deactivation
  selects without a status.
* *Compliance.* A crash between a verdict and its alert loses the alert; a run that throws after some verdicts
  leaves the old posture; verdicts of deactivated bindings count in the posture for ever.
* *Jobs.* `customQuoteJobs.ts`, the grandfather reminder and the quarterly unlock have no queue or cron; in the
  unlock one subscription with a period start in the future ends the job for all.
* *Alerts.* Escalation rules are read without tenant and `archived_at`.
* *SDK.* The lease cache asks for `GET /api/v1/leases/:tenant/:product`, which no route serves, and nothing calls its
  `invalidate`.

## 6. Plan and what is not modelled

Done: everything that changes licences, subscriptions, invoices' status, leases, the plan ledger, the usage and cost
ledgers, escalations, metric roll-ups and compliance verdicts, each with its safety properties, liveness where the code's scheduling
supports it, and, for licences, Stripe events, the SDK's usage buffer, usage and negotiated prices, the abstract specification
they implement. Leases, plan changes, escalations and compliance runs have proved invariants only.

Worth adding, in this order:

1. Applied discounts: one coupon at Stripe against rows per product. No claim about them holds as the code
   stands, beyond what single calls do.
2. How long BullMQ keeps a completed job, and with it its jobId (`invoiceService.ts:326`): a second failure of one invoice is
   ignored for seven or thirty days. The model gives an invoice one job.
3. The credit mode cache (`stripeService.ts:46`): stale in every process but the one that changed the plan. The model reads the
   plan's mode from the table.
4. Custom quotes: each operation is one transaction under a row lock, with triggers that refuse illegal changes of status;
   of interest once their jobs are wired.
5. Workflow hooks and notification channels, which deliver without remembering what they delivered.

Not planned, and why:

* The web console (`frontend/`, about half of the implementation's lines) shows what the routes return; reports, dashboards, exports, LLM prompts, analytics and seeds
  compute answers that no other component reads back. No state is at stake, and the arithmetic is SQL.
* Operators, tenants, products, registers and settings are rows written by one statement or one
  transaction each; the audit log and notifications are only appended to.
* What `node-postgres` returns for a JSONB column (`raw_event` is parsed again with `JSON.parse` in each handler,
  `invoiceService.ts:99`) is outside `src/`: the models let every handler throw at any statement instead.
* `customer.*` calls other than those named pass through the Stripe adapters unchanged.
