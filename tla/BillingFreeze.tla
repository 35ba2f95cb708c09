---------------------------- MODULE BillingFreeze ----------------------------
(***************************************************************************)
(* The billing freeze: what a failed payment does to the licence, to the   *)
(* billing grace period and to the Stripe subscription, and how a grace    *)
(* period ends (src/src/services/billingFreezeService.ts and the           *)
(* subscription calls of src/src/services/stripeService.ts).               *)
(*                                                                         *)
(* A handler is a process that takes one step per database statement,      *)
(* transaction or Stripe call; between two steps every other process may   *)
(* run, and the handler may throw or its worker may die.                   *)
(***************************************************************************)
EXTENDS License, Naturals

CONSTANTS
    Invoices,           \* invoices whose payment may fail; each has one queue job
    Callers,            \* concurrent calls of the cancelled / reactivated handlers
    Scanner,            \* the grace period scanner (its queue has concurrency 1)
    Graces,             \* rows that billing_grace_periods may come to hold
    Subs,               \* subscriptions Stripe may come to hold
    CreditSub,          \* any synthetic subscription id of credit mode
    Plans, CreditPlans, \* the plans, and those whose billing_mode is 'credit'
    MaxTries            \* attempts of a billing_payment_failed job (5 in the code)

Procs == Invoices \cup Callers \cup {Scanner}

ASSUME ProcsAssumption ==
    /\ Invoices \cap Callers = {}
    /\ Scanner \notin Invoices \cup Callers
ASSUME NamesAssumption ==
    /\ None \notin Pairs \cup Subs \cup Plans \cup {CreditSub}
    /\ CreditSub \notin Subs
    /\ CreditPlans \subseteq Plans
ASSUME MaxTriesAssumption == MaxTries \in Nat \ {0}

VARIABLES
    grace,              \* the billing_grace_periods table
    due,                \* the grace periods whose expires_at has passed
    row,                \* the stripe_subscriptions table, one row at most for a pair
    stripe,             \* the subscriptions as Stripe holds them
    replay,             \* subscription Stripe answers again for a create-sub key
    pc,                 \* next step of each process
    arg,                \* what each process holds in its local variables
    tries,              \* attempts the job of an invoice has left
    scan                \* grace periods the scanner resolved and has yet to act on

freezeVars == <<grace, due, row, stripe, replay>>
procVars == <<pc, arg, tries, scan>>
vars == <<lic, staged, todo, grace, due, row, stripe, replay, pc, arg, tries, scan>>

Resolutions == {"reactivated", "cancelled", "expired"}
NoGrace == [state |-> "absent", pair |-> None]
GracePeriod == [state : {"open"} \cup Resolutions, pair : Pairs] \cup {NoGrace}
SubscriptionRow == [sub : Subs \cup {CreditSub, None}, status : {"active", "canceled"},
                    atEnd : BOOLEAN]
NoSubscription == [state |-> "absent", atEnd |-> FALSE, pair |-> None]
Subscription == [state : {"active", "canceled"}, atEnd : BOOLEAN, pair : Pairs]
                    \cup {NoSubscription}
Steps == {"idle", "lookup", "suspend", "check", "insert", "readSub", "stripeCancel",
          "recordCancel", "plan", "stripeCreate", "recordCreate", "next",
          "completed", "failed"}
Locals == [pair : Pairs \cup {None}, sub : Subs \cup {CreditSub, None},
           plan : Plans \cup {None}, now : BOOLEAN]
NoLocals == [pair |-> None, sub |-> None, plan |-> None, now |-> FALSE]
NoRow == [sub |-> None, status |-> "canceled", atEnd |-> FALSE]

TypeOK ==
    /\ LicenseTypeOK
    /\ grace \in [Graces -> GracePeriod]
    /\ due \in SUBSET Graces
    /\ row \in [Pairs -> SubscriptionRow]
    /\ stripe \in [Subs -> Subscription]
    /\ replay \in [Pairs -> [Plans -> Subs \cup {None}]]
    /\ pc \in [Procs -> Steps]
    /\ arg \in [Procs -> Locals]
    /\ tries \in [Invoices -> 0..MaxTries]
    /\ scan \in SUBSET Graces

Init ==
    /\ LicenseInit
    /\ grace = [g \in Graces |-> NoGrace]
    /\ due = {}
    /\ row = [p \in Pairs |-> NoRow]
    /\ stripe = [s \in Subs |-> NoSubscription]
    /\ replay = [p \in Pairs |-> [q \in Plans |-> None]]
    /\ pc = [w \in Procs |-> "idle"]
    /\ arg = [w \in Procs |-> NoLocals]
    /\ tries = [i \in Invoices |-> MaxTries]
    /\ scan = {}

-----------------------------------------------------------------------------
(* How a handler moves on.                                                 *)

Goto(w, step) == pc' = [pc EXCEPT ![w] = step]

\* What a job is left with when it ends or starts again: its invoice's pair.
Kept(w) == IF w \in Invoices THEN [NoLocals EXCEPT !.pair = arg[w].pair] ELSE NoLocals

\* The handler returns; the scanner goes on with its loop.
Return(w) ==
    /\ Goto(w, IF w \in Invoices THEN "completed" ELSE IF w = Scanner THEN "next" ELSE "idle")
    /\ arg' = [arg EXCEPT ![w] = Kept(w)]
    /\ UNCHANGED <<tries, scan>>

\* Mutant: the attempts are not counted.
ThrowWithoutCount(w) ==
    /\ arg' = [arg EXCEPT ![w] = Kept(w)]
    /\ Goto(w, IF w \in Invoices THEN "lookup" ELSE IF w = Scanner THEN "next" ELSE "idle")
    /\ UNCHANGED <<tries, scan>>

\* Mutant: the last attempt is not the last.
ThrowPastLastAttempt(w) ==
    /\ arg' = [arg EXCEPT ![w] = Kept(w)]
    /\ tries' = IF w \in Invoices THEN [tries EXCEPT ![w] = @ - 1] ELSE tries
    /\ Goto(w, IF w \in Invoices THEN "lookup" ELSE IF w = Scanner THEN "next" ELSE "idle")
    /\ UNCHANGED scan

\* The handler throws, or its worker dies and the queue finds the job stalled.  A
\* billing_payment_failed job starts again from its first line while it has attempts;
\* a call is lost; the scanner logs the error and goes on with its loop.
Throw(w) ==
    /\ arg' = [arg EXCEPT ![w] = Kept(w)]
    /\ IF w \in Invoices
       THEN /\ tries' = [tries EXCEPT ![w] = @ - 1]
            /\ Goto(w, IF tries[w] = 1 THEN "failed" ELSE "lookup")
       ELSE /\ Goto(w, IF w = Scanner THEN "next" ELSE "idle")
            /\ UNCHANGED tries
    /\ UNCHANGED scan

Running(w) == pc[w] \notin {"idle", "next", "completed", "failed"}

StepFails(w) ==
    /\ Running(w)
    /\ Throw(w)
    /\ UNCHANGED <<licenseVars, freezeVars>>

OpenGraces(p) == {g \in Graces : grace[g].state = "open" /\ grace[g].pair = p}
HasGrace(p) == \E g \in Graces : grace[g].pair = p

-----------------------------------------------------------------------------
(* handleBillingPaymentFailed, the processor of the billing-payment-failed  *)
(* queue, and handleLicenseSuspended, which it calls.                      *)

\* handleInvoicePaymentFailed adds the job; its jobId lets an invoice have one job.
EnqueuePaymentFailed(i) ==
    /\ pc[i] = "idle"
    /\ Goto(i, "lookup")
    /\ UNCHANGED <<arg, tries, scan, licenseVars, freezeVars>>

\* The invoice row names the pair; a job whose invoice is not in the table returns.
LookupInvoice(i) ==
    /\ pc[i] = "lookup"
    /\ \/ \E p \in Pairs : /\ arg[i].pair \in {None, p}
                           /\ arg' = [arg EXCEPT ![i].pair = p]
                           /\ Goto(i, "suspend")
                           /\ UNCHANGED <<tries, scan>>
       \/ /\ arg[i].pair = None
          /\ Return(i)
    /\ UNCHANGED <<licenseVars, freezeVars>>

SuspendForPayment(i) ==
    /\ pc[i] = "suspend"
    /\ Suspend(arg[i].pair, "payment_failed")
    /\ Goto(i, "check")
    /\ UNCHANGED <<arg, tries, scan, freezeVars>>

\* Mutant: a licence that is suspended already ends the job.
SuspendRefusedReturns(i) ==
    /\ pc[i] = "suspend"
    /\ GraceConfigured
    /\ lic[arg[i].pair].status \notin {"active", "none"}
    /\ Return(i)
    /\ UNCHANGED <<licenseVars, freezeVars>>

\* AppError 422: pending, suspended and cancelled licences alike.
SuspendRefused(i) ==
    /\ pc[i] = "suspend"
    /\ GraceConfigured
    /\ lic[arg[i].pair].status \notin {"active", "none"}
    /\ Goto(i, "check")
    /\ UNCHANGED <<arg, tries, scan, licenseVars, freezeVars>>

\* AppError 500 without a grace window, AppError 404 without a licence.
SuspendThrows(i) ==
    /\ pc[i] = "suspend"
    /\ ~GraceConfigured \/ lic[arg[i].pair].status = "none"
    /\ Throw(i)
    /\ UNCHANGED <<licenseVars, freezeVars>>

\* Mutant: Stripe is called before the grace period is inserted.
CheckThenCancel(i) ==
    /\ pc[i] = "check"
    /\ IF OpenGraces(arg[i].pair) # {}
       THEN Return(i)
       ELSE Goto(i, "readSub") /\ UNCHANGED <<arg, tries, scan>>
    /\ UNCHANGED <<licenseVars, freezeVars>>

\* SELECT ... FOR UPDATE locks nothing when it finds no row: the INSERT is a step of
\* its own.
CheckOpenGrace(i) ==
    /\ pc[i] = "check"
    /\ IF OpenGraces(arg[i].pair) # {}
       THEN Return(i)
       ELSE Goto(i, "insert") /\ UNCHANGED <<arg, tries, scan>>
    /\ UNCHANGED <<licenseVars, freezeVars>>

InsertGrace(i) ==
    /\ pc[i] = "insert"
    /\ \E g \in Graces :
          /\ grace[g].state = "absent"
          /\ grace' = [grace EXCEPT ![g] = [state |-> "open", pair |-> arg[i].pair]]
    /\ Goto(i, "readSub")
    /\ UNCHANGED <<arg, tries, scan, licenseVars, due, row, stripe, replay>>

-----------------------------------------------------------------------------
(* cancelSubscription, called by all three handlers.                       *)

\* Mutant: the SELECT forgets the tenant.
ReadSubscriptionOfAnyone(w) ==
    /\ pc[w] = "readSub"
    /\ \E p \in Pairs : LET s == row[p].sub IN
          \/ s = None /\ Throw(w)
          \/ /\ s # None
             /\ arg' = [arg EXCEPT ![w].sub = s]
             /\ Goto(w, IF s = CreditSub THEN "recordCancel" ELSE "stripeCancel")
             /\ UNCHANGED <<tries, scan>>
    /\ UNCHANGED <<licenseVars, freezeVars>>

ReadSubscription(w) ==
    /\ pc[w] = "readSub"
    /\ LET s == row[arg[w].pair].sub IN
          \/ s = None /\ Throw(w)                              \* AppError 404
          \/ /\ s # None
             /\ arg' = [arg EXCEPT ![w].sub = s]
             /\ Goto(w, IF s = CreditSub THEN "recordCancel" ELSE "stripeCancel")
             /\ UNCHANGED <<tries, scan>>
    /\ UNCHANGED <<licenseVars, freezeVars>>

\* subscriptions.cancel, or subscriptions.update with cancel_at_period_end; Stripe
\* refuses both for a subscription that is already canceled.
StripeCancel(w) ==
    /\ pc[w] = "stripeCancel"
    /\ LET s == arg[w].sub IN
          \/ /\ stripe[s].state = "active"
             /\ stripe' = IF arg[w].now THEN [stripe EXCEPT ![s].state = "canceled"]
                                        ELSE [stripe EXCEPT ![s].atEnd = TRUE]
             /\ Goto(w, "recordCancel")
             /\ UNCHANGED <<arg, tries, scan>>
          \/ /\ stripe[s].state = "canceled"
             /\ Throw(w)
             /\ UNCHANGED stripe
    /\ UNCHANGED <<licenseVars, grace, due, row, replay>>

\* The row of the pair, whichever subscription it names by now.
RecordCancel(w) ==
    /\ pc[w] = "recordCancel"
    /\ LET p == arg[w].pair IN
          row' = IF arg[w].now THEN [row EXCEPT ![p].status = "canceled"]
                               ELSE [row EXCEPT ![p].atEnd = TRUE]
    /\ Return(w)
    /\ UNCHANGED <<licenseVars, grace, due, stripe, replay>>

-----------------------------------------------------------------------------
(* handleLicenceCancelled and handleLicenseReactivated: one UPDATE resolves *)
(* every open grace period of the pair, and then Stripe is called.         *)

Resolve(gs, resolution) ==
    grace' = [g \in Graces |->
                IF g \in gs THEN [grace[g] EXCEPT !.state = resolution] ELSE grace[g]]

\* Mutant: the UPDATE forgets resolved_at IS NULL.
CancelAnyGrace(c, p) ==
    /\ pc[c] = "idle"
    /\ HasGrace(p)
    /\ Resolve({g \in Graces : grace[g].pair = p}, "cancelled")
    /\ arg' = [arg EXCEPT ![c] = [NoLocals EXCEPT !.pair = p, !.now = TRUE]]
    /\ Goto(c, "readSub")
    /\ UNCHANGED <<tries, scan, licenseVars, due, row, stripe, replay>>

HandleLicenceCancelled(c, p) ==
    /\ pc[c] = "idle"
    /\ OpenGraces(p) # {}
    /\ Resolve(OpenGraces(p), "cancelled")
    /\ arg' = [arg EXCEPT ![c] = [NoLocals EXCEPT !.pair = p, !.now = TRUE]]
    /\ Goto(c, "readSub")
    /\ UNCHANGED <<tries, scan, licenseVars, due, row, stripe, replay>>

\* Mutant: only one of the open periods is resolved.
ReactivateOneGrace(c, p, q) ==
    /\ pc[c] = "idle"
    /\ \E g \in OpenGraces(p) : Resolve({g}, "reactivated")
    /\ arg' = [arg EXCEPT ![c] = [NoLocals EXCEPT !.pair = p, !.plan = q]]
    /\ Goto(c, "plan")
    /\ UNCHANGED <<tries, scan, licenseVars, due, row, stripe, replay>>

HandleLicenseReactivated(c, p, q) ==
    /\ pc[c] = "idle"
    /\ OpenGraces(p) # {}
    /\ Resolve(OpenGraces(p), "reactivated")
    /\ arg' = [arg EXCEPT ![c] = [NoLocals EXCEPT !.pair = p, !.plan = q]]
    /\ Goto(c, "plan")
    /\ UNCHANGED <<tries, scan, licenseVars, due, row, stripe, replay>>

\* createSubscription: an archived or missing plan throws (StepFails); a credit mode
\* plan is recorded under a synthetic id, without Stripe.
LookupPlan(c) ==
    /\ pc[c] = "plan"
    /\ IF arg[c].plan \in CreditPlans
       THEN Goto(c, "recordCreate") /\ arg' = [arg EXCEPT ![c].sub = CreditSub]
       ELSE Goto(c, "stripeCreate") /\ UNCHANGED arg
    /\ UNCHANGED <<tries, scan, licenseVars, freezeVars>>

\* subscriptions.create under the key create-sub:tenant:product:plan: while Stripe
\* remembers the key it answers with the subscription it made the first time.
StripeCreate(c) ==
    /\ pc[c] = "stripeCreate"
    /\ LET p == arg[c].pair
           q == arg[c].plan IN
       \E s \in Subs :
          /\ \/ s = replay[p][q] /\ UNCHANGED stripe
             \/ /\ replay[p][q] = None
                /\ stripe[s].state = "absent"
                /\ stripe' = [stripe EXCEPT ![s] = [state |-> "active", atEnd |-> FALSE,
                                                    pair |-> p]]
          /\ replay' = [replay EXCEPT ![p][q] = s]
          /\ arg' = [arg EXCEPT ![c].sub = s]
    /\ Goto(c, "recordCreate")
    /\ UNCHANGED <<tries, scan, licenseVars, grace, due, row>>

\* The upsert stores the answer, in which the subscription is active.
RecordCreate(c) ==
    /\ pc[c] = "recordCreate"
    /\ row' = [row EXCEPT ![arg[c].pair] = [sub |-> arg[c].sub, status |-> "active",
                                            atEnd |-> FALSE]]
    /\ Return(c)
    /\ UNCHANGED <<licenseVars, grace, due, stripe, replay>>

-----------------------------------------------------------------------------
(* scanAndResolveExpiredGracePeriods, the hourly cron.                     *)

\* Mutant: the scanner joins the licences and skips a pair that is active again.
ScanSuspendedOnly ==
    LET expired == {g \in due : /\ grace[g].state = "open"
                                /\ lic[grace[g].pair].status = "suspended"} IN
    /\ pc[Scanner] = "idle"
    /\ expired # {}
    /\ Resolve(expired, "expired")
    /\ scan' = expired
    /\ Goto(Scanner, "next")
    /\ UNCHANGED <<arg, tries, licenseVars, due, row, stripe, replay>>

Scan ==
    LET expired == {g \in due : grace[g].state = "open"} IN
    /\ pc[Scanner] = "idle"
    /\ expired # {}
    /\ Resolve(expired, "expired")
    /\ scan' = expired
    /\ Goto(Scanner, "next")
    /\ UNCHANGED <<arg, tries, licenseVars, due, row, stripe, replay>>

ScanNext ==
    /\ pc[Scanner] = "next"
    /\ \E g \in scan :
          /\ arg' = [arg EXCEPT ![Scanner] = [NoLocals EXCEPT !.pair = grace[g].pair,
                                                              !.now = TRUE]]
          /\ scan' = scan \ {g}
    /\ Goto(Scanner, "readSub")
    /\ UNCHANGED <<tries, licenseVars, freezeVars>>

\* The loop ends, or the scanner's worker dies with rows left.
ScanEnds ==
    /\ pc[Scanner] = "next"
    /\ Goto(Scanner, "idle")
    /\ scan' = {}
    /\ UNCHANGED <<arg, tries, licenseVars, freezeVars>>

-----------------------------------------------------------------------------
(* Time and Stripe.                                                        *)

GraceExpires(g) ==
    /\ grace[g].state = "open"
    /\ due' = due \cup {g}
    /\ UNCHANGED <<licenseVars, grace, row, stripe, replay, procVars>>

\* A subscription made in Stripe itself, with the pair in its metadata; its row comes
\* with its first customer.subscription.updated event.
SubscribedInStripe(s, p) ==
    /\ stripe[s].state = "absent"
    /\ \A x \in Subs : stripe[x].pair # p
    /\ stripe' = [stripe EXCEPT ![s] = [state |-> "active", atEnd |-> FALSE, pair |-> p]]
    /\ UNCHANGED <<licenseVars, grace, due, row, replay, procVars>>

\* A subscription scheduled for it is canceled at the end of its period.
PeriodEnds(s) ==
    /\ stripe[s].state = "active" /\ stripe[s].atEnd
    /\ stripe' = [stripe EXCEPT ![s].state = "canceled"]
    /\ UNCHANGED <<licenseVars, grace, due, row, replay, procVars>>

\* Stripe keeps an idempotency key for 24 hours.
KeyExpires(p, q) ==
    /\ replay[p][q] # None
    /\ replay' = [replay EXCEPT ![p][q] = None]
    /\ UNCHANGED <<licenseVars, grace, due, row, stripe, procVars>>

\* A customer.subscription.updated event shows the subscription as it is or as it was:
\* Stripe sends one at every change and at every renewal, and neither Stripe nor the
\* queues keep their order.  The upsert is keyed by the pair and compares nothing.
HandleSubscriptionUpdated(s) ==
    /\ stripe[s].state # "absent"
    /\ \E status \in {"active", stripe[s].state}, atEnd \in {FALSE, stripe[s].atEnd} :
          row' = [row EXCEPT ![stripe[s].pair] =
                    [sub |-> s, status |-> status, atEnd |-> atEnd]]
    /\ UNCHANGED <<licenseVars, grace, due, stripe, replay, procVars>>

HandleSubscriptionDeleted(s) ==
    /\ stripe[s].state = "canceled"
    /\ row' = [p \in Pairs |-> IF row[p].sub = s THEN [row[p] EXCEPT !.status = "canceled"]
                                                 ELSE row[p]]
    /\ UNCHANGED <<licenseVars, grace, due, stripe, replay, procVars>>

-----------------------------------------------------------------------------
LicenseStep == LicenseNext /\ UNCHANGED <<freezeVars, procVars>>

JobStep(i) == \/ LookupInvoice(i) \/ SuspendForPayment(i) \/ SuspendRefused(i)
              \/ SuspendThrows(i) \/ CheckOpenGrace(i) \/ InsertGrace(i)

CancelStep(w) == ReadSubscription(w) \/ StripeCancel(w) \/ RecordCancel(w)

CallStep(c) ==
    \/ \E p \in Pairs : \/ HandleLicenceCancelled(c, p)
                        \/ \E q \in Plans : HandleLicenseReactivated(c, p, q)
    \/ LookupPlan(c) \/ StripeCreate(c) \/ RecordCreate(c)

ScannerStep == Scan \/ ScanNext \/ ScanEnds

Environment ==
    \/ \E g \in Graces : GraceExpires(g)
    \/ \E s \in Subs : \/ \E p \in Pairs : SubscribedInStripe(s, p)
                       \/ PeriodEnds(s)
                       \/ HandleSubscriptionUpdated(s)
                       \/ HandleSubscriptionDeleted(s)
    \/ \E p \in Pairs, q \in Plans : KeyExpires(p, q)

Next ==
    \/ LicenseStep
    \/ \E i \in Invoices : EnqueuePaymentFailed(i) \/ JobStep(i)
    \/ \E c \in Callers : CallStep(c)
    \/ \E w \in Procs : CancelStep(w) \/ StepFails(w)
    \/ ScannerStep
    \/ Environment

Spec == Init /\ [][Next]_vars

\* Workers take the jobs they are given, the cron keeps firing and time passes; no
\* call, no failure and no webhook is ever certain.
Fairness ==
    /\ \A i \in Invoices : WF_vars(JobStep(i) \/ CancelStep(i))
    /\ WF_vars(ScannerStep \/ CancelStep(Scanner))
    /\ \A g \in Graces : WF_vars(GraceExpires(g))

-----------------------------------------------------------------------------
\* No Stripe subscription is canceled, or scheduled to be, for a pair that never had a
\* grace period: cancelSubscription runs only after the period was committed, whatever
\* handler calls it and however often its job is started again.
NoCancellationWithoutGrace ==
    \A s \in Subs : stripe[s].state = "canceled" \/ stripe[s].atEnd
                        => HasGrace(stripe[s].pair)

\* A licence suspended for a failed payment has its grace period, or a job of the pair is
\* still on its way to open it or went to the dead letter queue: no crash or retry of
\* handleBillingPaymentFailed completes with the customer suspended and no period.
PaymentSuspensionHasGrace ==
    \A p \in Pairs : lic[p].status = "suspended" /\ lic[p].reason = "payment_failed"
        => \/ HasGrace(p)
           \/ \E i \in Invoices : arg[i].pair = p /\ pc[i] \notin {"idle", "completed"}

\* The subscription that a row names, and the one a handler read and is about to cancel,
\* was made for that tenant and product: no replayed Stripe answer, no late webhook
\* crosses over to another customer.
SubscriptionOfItsPair ==
    /\ \A p \in Pairs : row[p].sub \in Subs => stripe[row[p].sub].pair = p
    /\ \A w \in Procs : pc[w] \in {"stripeCancel", "recordCreate"} /\ arg[w].sub \in Subs
                            => stripe[arg[w].sub].pair = arg[w].pair

\* A resolved grace period keeps its resolution: of a reactivation, a cancellation and the
\* scanner racing for one period, the first wins and the others leave it alone.
ResolvedOnce ==
    [][\A g \in Graces : grace[g].state \in Resolutions => grace'[g] = grace[g]]_vars

\* A handler that resolves a period leaves the pair no other open one, not even when two
\* jobs opened one each: none is left to expire and cancel the new subscription.
ResolutionIsComplete ==
    [][\A g \in Graces :
          grace[g].state = "open" /\ grace'[g].state \in {"cancelled", "reactivated"}
              => OpenGraces(grace[g].pair)' = {}]_vars

\* The licences behave as LicenseLifecycle promises: every change is an edge of the
\* state machine or one that an operator staged, also when two promotion runs overlap.
RefinesLifecycle == Lifecycle!Spec

\* An open grace period is eventually resolved, whatever fails: the scanner's UPDATE
\* does not depend on Stripe.
GraceEventuallyResolved ==
    \A g \in Graces : grace[g].state = "open" ~> grace[g].state \in Resolutions

\* A billing_payment_failed job ends, completed or dead, through crashes of its worker,
\* refused licences and attempts that find the period of an earlier one.
JobsEnd == \A i \in Invoices : pc[i] = "lookup" ~> pc[i] \in {"completed", "failed"}

-----------------------------------------------------------------------------
(* What the comments of the code say and its steps do not keep.            *)

\* "Opens a billing grace period ... and schedules Stripe subscription cancellation at
\* period end.  Idempotent": when a job completes, the subscription of its pair is
\* canceled or scheduled to be, unless another handler is still at work on the pair.
CompletedJobScheduledCancellation ==
    [][\A i \in Invoices, p \in Pairs :
          /\ pc[i] # "completed" /\ pc'[i] = "completed"
          /\ arg'[i].pair = p
          /\ row[p].sub \in Subs
          /\ \A w \in Procs \ {i} : arg[w].pair = p => ~Running(w)
          => LET s == stripe'[row[p].sub] IN s.atEnd \/ s.state = "canceled"]_vars

\* "Resolves the open grace period as 'reactivated' and creates a new Stripe
\* subscription": what Stripe answers to createSubscription is a live subscription.
ReactivationGetsLiveSubscription ==
    [][\A c \in Callers :
          pc[c] = "stripeCreate" /\ pc'[c] = "recordCreate"
              => LET s == stripe'[arg'[c].sub] IN s.state = "active" /\ ~s.atEnd]_vars
=============================================================================
