---------------------------- MODULE StripeWebhooks ----------------------------
(***************************************************************************)
(* Stripe events on their way to the billing tables: the webhook route     *)
(* (src/src/webhooks/stripe.ts), the event-type queues and their workers   *)
(* (src/src/queues/index.ts, src/src/worker.ts) and the handlers of the    *)
(* invoice events (src/src/services/invoiceService.ts).                    *)
(*                                                                         *)
(* The request that stored an event and the event's job are processes that *)
(* take one step per statement or queue operation.  An invoice stands for  *)
(* its subscription too.                                                   *)
(***************************************************************************)
EXTENDS Naturals, FiniteSets

CONSTANTS
    Invoices,           \* invoices, each of one subscription
    Events,             \* the recognized events Stripe may send
    Kind, Of,           \* the type of each and the invoice it is about
    Productless,        \* those whose metadata has no product_id
    MaxSent             \* bound: how many of them Stripe sends

Kinds == {"subscription", "created", "finalized", "paid", "failed"}

ASSUME EventsAssumption ==
    /\ Kind \in [Events -> Kinds] /\ Of \in [Events -> Invoices]
    /\ Productless \subseteq Events
    /\ MaxSent \in Nat

VARIABLES
    table,              \* status in stripe_webhook_events
    request,            \* next step of the request that stored the event
    job,                \* what became of the event's job
    stalled,            \* jobs a dying worker has left once
    dlq,                \* events that went to the dead letter queue at once
    subscribed,         \* invoices whose subscription is in stripe_subscriptions
    invoice,            \* status in invoices
    billing             \* invoices with a billing_payment_failed job

queueVars == <<job, stalled, dlq>>
billingVars == <<subscribed, invoice, billing>>
vars == <<table, request, job, stalled, dlq, subscribed, invoice, billing>>

TypeOK ==
    /\ table \in [Events -> {"none", "received", "dispatched", "failed"}]
    /\ request \in [Events -> {"none", "add", "dispatched", "failed", "over"}]
    /\ job \in [Events -> {"none", "waiting", "write", "enqueue", "completed", "dead",
                           "buried"}]
    /\ stalled \in SUBSET Events
    /\ dlq \in SUBSET Events
    /\ subscribed \in SUBSET Invoices
    /\ invoice \in [Invoices -> {"none", "draft", "open", "paid", "payment_failed"}]
    /\ billing \in SUBSET Invoices

Init ==
    /\ table = [e \in Events |-> "none"]
    /\ request = [e \in Events |-> "none"]
    /\ job = [e \in Events |-> "none"]
    /\ stalled = {}
    /\ dlq = {}
    /\ subscribed = {}
    /\ invoice = [n \in Invoices |-> "none"]
    /\ billing = {}

-----------------------------------------------------------------------------
(* The webhook route.                                                      *)

Move(e, step) == request' = [request EXCEPT ![e] = step]
Answer200(e) == Move(e, "over")
Open(e) == request[e] \in {"add", "dispatched", "failed"}
MaySend(e) == table[e] = "none" => Cardinality({d \in Events : table[d] # "none"}) < MaxSent

\* Mutant: a duplicate is dispatched like the first delivery.
DeliverAgain(e) ==
    /\ MaySend(e) /\ ~Open(e)
    /\ table' = [table EXCEPT ![e] = "received"]
    /\ Move(e, "add")
    /\ UNCHANGED <<queueVars, billingVars>>

\* Stripe delivers events in any order, and any of them again and again.  A request with
\* a good signature and a recognized type first reaches the INSERT ... ON CONFLICT
\* (event_id) DO NOTHING, and goes on only if it inserted the row; every other delivery is
\* answered at once and changes nothing.
Deliver(e) ==
    /\ MaySend(e) /\ table[e] = "none"
    /\ table' = [table EXCEPT ![e] = "received"]
    /\ Move(e, "add")
    /\ UNCHANGED <<queueVars, billingVars>>

\* The job of the event's queue; an event without product goes to the dead letter queue,
\* which has no worker.
AddJob(e) ==
    /\ job' = IF e \in Productless THEN job ELSE [job EXCEPT ![e] = "waiting"]
    /\ dlq' = IF e \in Productless THEN dlq \cup {e} ELSE dlq
    /\ UNCHANGED stalled

\* Mutant: the add is not awaited, so that its failure is not seen.
AddNotAwaited(e) ==
    /\ request[e] = "add"
    /\ AddJob(e) \/ UNCHANGED queueVars
    /\ Move(e, "dispatched")
    /\ UNCHANGED <<table, billingVars>>

Add(e) ==
    /\ request[e] = "add"
    /\ AddJob(e)
    /\ Move(e, "dispatched")
    /\ UNCHANGED <<table, billingVars>>

\* queue.add throws, whether or not Redis has taken the job.
AddThrows(e) ==
    /\ request[e] = "add"
    /\ AddJob(e) \/ UNCHANGED queueVars
    /\ Move(e, "failed")
    /\ UNCHANGED <<table, billingVars>>

\* UPDATE ... SET status = 'dispatched' WHERE id, whatever the status is by now.
MarkDispatched(e) ==
    /\ request[e] = "dispatched"
    /\ \/ /\ table' = [table EXCEPT ![e] = "dispatched"]
          /\ Answer200(e)
       \/ Move(e, "failed") /\ UNCHANGED table
    /\ UNCHANGED <<queueVars, billingVars>>

\* The catch block answers 200 even when its own UPDATE fails.
MarkFailed(e) ==
    /\ request[e] = "failed"
    /\ \/ table' = [table EXCEPT ![e] = "failed"]
       \/ UNCHANGED table
    /\ Answer200(e)
    /\ UNCHANGED <<queueVars, billingVars>>

\* The process dies; an INSERT that throws leaves nothing behind either.
RequestDies(e) ==
    /\ Open(e)
    /\ Move(e, "over")
    /\ UNCHANGED <<table, queueVars, billingVars>>

-----------------------------------------------------------------------------
(* The workers.  No job of an event queue has an attempts option, so the   *)
(* first failure is the last; a job whose worker dies is started again     *)
(* once (BullMQ's maxStalledCount).                                        *)

End(e, how) ==
    /\ job' = [job EXCEPT ![e] = how]
    /\ stalled' = stalled \ {e}
    /\ UNCHANGED dlq
Finish(e) == End(e, "completed")
Proceed(e, step) == job' = [job EXCEPT ![e] = step] /\ UNCHANGED <<stalled, dlq>>

\* An UPDATE of the invoice's row, if there is one.
UpdateInvoice(n, status) ==
    /\ invoice' = IF invoice[n] = "none" THEN invoice ELSE [invoice EXCEPT ![n] = status]
    /\ UNCHANGED <<subscribed, billing>>

\* customer.subscription.updated: the upsert, then a confirm-plan-change job.
HandleSubscriptionUpdated(e) ==
    /\ Kind[e] = "subscription"
    /\ \/ /\ job[e] = "waiting"
          /\ subscribed' = subscribed \cup {Of[e]}
          /\ Proceed(e, "enqueue")
       \/ job[e] = "enqueue" /\ Finish(e) /\ UNCHANGED subscribed
    /\ UNCHANGED <<table, request, invoice, billing>>

\* handleInvoiceCreated throws AppError(404) when the subscription's row is not there.
SubscriptionMissing(e) ==
    /\ Kind[e] = "created" /\ job[e] = "waiting" /\ Of[e] \notin subscribed
    /\ End(e, "dead")
    /\ UNCHANGED <<table, request, billingVars>>

\* The subscription's row gives the tenant and the product, then the invoice is upserted
\* with the status Stripe gave it when it was created.
HandleInvoiceCreated(e) ==
    /\ Kind[e] = "created"
    /\ \/ /\ job[e] = "waiting" /\ Of[e] \in subscribed
          /\ Proceed(e, "write")
          /\ UNCHANGED billingVars
       \/ /\ job[e] = "write"
          /\ invoice' = [invoice EXCEPT ![Of[e]] = "draft"]
          /\ Finish(e)
          /\ UNCHANGED <<subscribed, billing>>
    /\ UNCHANGED <<table, request>>

HandleInvoiceFinalized(e) ==
    /\ Kind[e] = "finalized" /\ job[e] = "waiting"
    /\ UpdateInvoice(Of[e], "open")
    /\ Finish(e)
    /\ UNCHANGED <<table, request>>

HandleInvoicePaymentSucceeded(e) ==
    /\ Kind[e] = "paid" /\ job[e] = "waiting"
    /\ UpdateInvoice(Of[e], "paid")
    /\ Finish(e)
    /\ UNCHANGED <<table, request>>

\* Mutant: the handler returns before it adds the billing job.
PaymentFailedWithoutBilling(e) ==
    /\ Kind[e] = "failed" /\ job[e] = "waiting"
    /\ UpdateInvoice(Of[e], "payment_failed")
    /\ Finish(e)
    /\ UNCHANGED <<table, request>>

\* The UPDATE, then the billing job; its jobId keeps it from being added twice.
HandleInvoicePaymentFailed(e) ==
    /\ Kind[e] = "failed"
    /\ \/ /\ job[e] = "waiting"
          /\ UpdateInvoice(Of[e], "payment_failed")
          /\ Proceed(e, "enqueue")
       \/ /\ job[e] = "enqueue"
          /\ billing' = billing \cup {Of[e]}
          /\ Finish(e)
          /\ UNCHANGED <<subscribed, invoice>>
    /\ UNCHANGED <<table, request>>

Active(e) == job[e] \in {"waiting", "write", "enqueue"}

\* Any other statement of the handler throws.
JobFails(e) ==
    /\ Active(e)
    /\ End(e, "dead")
    /\ UNCHANGED <<table, request, billingVars>>

\* Mutant: a job that stalls is always started again.
StallsForever(e) ==
    /\ job[e] \in {"write", "enqueue"}
    /\ Proceed(e, "waiting")
    /\ UNCHANGED <<table, request, billingVars>>

\* (A worker that dies before the handler's first statement leaves no trace.)
JobStalls(e) ==
    /\ job[e] \in {"write", "enqueue"}
    /\ \/ e \in stalled /\ End(e, "dead")
       \/ /\ e \notin stalled
          /\ stalled' = stalled \cup {e}
          /\ job' = [job EXCEPT ![e] = "waiting"]
          /\ UNCHANGED dlq
    /\ UNCHANGED <<table, request, billingVars>>

\* Mutant: the listener takes the last failure for one that is retried.
ListenerRetries(e) ==
    /\ job[e] = "dead"
    /\ job' = [job EXCEPT ![e] = "buried"]
    /\ table' \in {table, [table EXCEPT ![e] = "pending_retry"]}
    /\ UNCHANGED <<request, stalled, dlq, billingVars>>

\* The failed listener: reflectStripeWebhookRetry, which may fail or die with the worker,
\* then the job's copy in the dead letter queue, which nothing reads.
FailedListener(e) ==
    /\ job[e] = "dead"
    /\ job' = [job EXCEPT ![e] = "buried"]
    /\ table' \in {table, [table EXCEPT ![e] = "failed"]}
    /\ UNCHANGED <<request, stalled, dlq, billingVars>>

-----------------------------------------------------------------------------
RequestStep(e) == \/ Deliver(e) \/ Add(e) \/ AddThrows(e) \/ MarkDispatched(e)
                  \/ MarkFailed(e) \/ RequestDies(e)

JobStep(e) == \/ HandleSubscriptionUpdated(e) \/ HandleInvoiceCreated(e)
              \/ HandleInvoiceFinalized(e) \/ HandleInvoicePaymentSucceeded(e)
              \/ HandleInvoicePaymentFailed(e)
              \/ SubscriptionMissing(e) \/ JobFails(e)

Next == \E e \in Events : RequestStep(e) \/ JobStep(e) \/ JobStalls(e) \/ FailedListener(e)

Spec == Init /\ [][Next]_vars

\* As long as jobs are there a worker works on one of them, or on its failed listener; no
\* request, no answer and no failure is ever certain.
Fairness == WF_vars(\E e \in Events : JobStep(e) \/ FailedListener(e))

FairSpec == Spec /\ Fairness

-----------------------------------------------------------------------------
\* However often and however concurrently Stripe delivers an event, its handler is never
\* started again once it has ended.
ProcessedOnce ==
    [][\A e \in Events : job[e] \in {"completed", "dead", "buried"}
                            => job'[e] \notin {"waiting", "write", "enqueue"}]_vars

\* "dispatched - job successfully added to a BullMQ event-type queue": the row never
\* claims it of an event that is in no queue, whatever fails between the add and the UPDATE.
DispatchedHasJob ==
    \A e \in Events : table[e] = "dispatched" => job[e] # "none" \/ e \in dlq

\* An invoice recorded as payment_failed has its billing job, or the job of one of its
\* events still has to add it or died: no interleaving completes without the freeze.
PaymentFailureReachesBilling ==
    \A n \in Invoices : invoice[n] = "payment_failed" =>
        \/ n \in billing
        \/ \E e \in Events : /\ Of[e] = n /\ Kind[e] = "failed"
                             /\ job[e] \notin {"none", "completed"}

\* When Stripe pauses, the workers get to the end of every job: each completes, or its
\* failed listener has dealt with it.
JobsSettle == []<>(\A e \in Events : job[e] \in {"none", "completed", "buried"})

-----------------------------------------------------------------------------
(* What the route promises: each event takes its way once.                 *)

Ended(e) == e \in dlq \/ job[e] \in {"completed", "dead", "buried"}

StageOf(e) ==
    CASE Ended(e)                                                     -> "settled"
      [] ~Ended(e) /\ Active(e)                                       -> "queued"
      [] ~Ended(e) /\ job[e] = "none" /\ request[e] = "add"           -> "accepted"
      [] ~Ended(e) /\ job[e] = "none" /\ request[e] # "add" /\ table[e] = "none" -> "unseen"
      [] OTHER                                                        -> "lost"

Stage == [e \in Events |-> StageOf(e)]

Lifecycle == INSTANCE EventLifecycle WITH stage <- Stage

\* However deliveries, crashes, failures and stalls follow one another, the events live such lives.
RefinesEventLifecycle == Lifecycle!Spec

-----------------------------------------------------------------------------
(* What the comments of the code say and its steps do not keep.            *)

\* "Duplicate Stripe delivery - acknowledge without re-processing": what is not processed
\* again was processed, or at least queued or marked failed, the first time.
DuplicateWasProcessed ==
    \A e \in Events : table[e] \in {"received", "dispatched"} /\ ~Open(e)
                        => job[e] # "none" \/ e \in dlq

\* "failed - permanently failed (attempts exhausted, moved to DLQ)": a row that shows a
\* dead job as failed keeps showing it.
FailedStaysFailed ==
    [][\A e \in Events : table[e] = "failed" /\ job[e] \in {"dead", "buried"}
                            => table'[e] = "failed"]_vars
=============================================================================
