------------------------------- MODULE PlanChange -------------------------------
(***************************************************************************)
(* Plan changes of one customer (planChangeService.ts), the archiving of   *)
(* plans (planCatalogService.ts) and the two kinds of billing-jobs that    *)
(* follow up on them: confirm-plan-change, added by the webhook handler of *)
(* customer.subscription.updated, and grandfather-subscribers, added by    *)
(* archivePlan.  Stripe is told first, the ledger row comes second, and    *)
(* the webhook that confirms the row comes whenever it comes.              *)
(*                                                                         *)
(* A plan stands for its Stripe price.  Add-ons, discounts and proration   *)
(* are carried along unread; the subscription stays active and a Stripe    *)
(* one, so that the guards on its status and its credit prefix pass.       *)
(***************************************************************************)
EXTENDS Naturals, Sequences, FiniteSets

CONSTANTS
    Plans,
    FirstPlan,          \* the plan the customer starts on
    CreditPlans,        \* plans with billing_mode = 'credit'
    Overridden,         \* plans with a price override for the customer
    Inline,             \* the price Stripe makes of price_data: no plan's
    Changes,            \* calls of schedulePlanChange
    MaxOperations,      \* bound: what is asked from outside, and periods that end
    NoPrice             \* NULL

ASSUME PlanAssumption ==
    /\ FirstPlan \in Plans /\ CreditPlans \subseteq Plans /\ Overridden \subseteq Plans
    /\ Inline \notin Plans /\ NoPrice \notin Plans \cup {Inline}

VARIABLES
    active,             \* plans.active
    item,               \* Stripe: the price of the subscription's main item
    schedule,           \* Stripe: the schedule attached to the subscription
    charged,            \* history: the prices the item has had
    events,             \* customer.subscription.updated events not yet handled
    priceRow, planRow,  \* stripe_price_id and plan_id of the stripe_subscriptions row
    ledger,             \* plan_change_ledger, oldest first
    call,               \* the calls of schedulePlanChange
    planJobs,           \* the jobs of the queue billing-jobs
    archiving,          \* calls of archivePlan that have committed and not yet queued a job
    operations          \* how many of MaxOperations there were

stripeVars == <<item, schedule, charged, events>>
planVars == <<active, stripeVars, priceRow, planRow, ledger, call, planJobs, archiving,
              operations>>

NoSchedule == [phase |-> "none", price |-> NoPrice]
NoCall == [at |-> "idle", plan |-> NoPrice]
Failed == [NoCall EXCEPT !.at = "failed"]

PlanInit ==
    /\ active = Plans
    /\ item = FirstPlan /\ schedule = NoSchedule /\ charged = {FirstPlan}
    /\ events = {}
    /\ priceRow = FirstPlan /\ planRow = FirstPlan
    /\ ledger = <<>>
    /\ call = [c \in Changes |-> NoCall]
    /\ planJobs = {} /\ archiving = {}
    /\ operations = 0

Asked == operations < MaxOperations /\ operations' = operations + 1

-----------------------------------------------------------------------------
(* schedulePlanChange.                                                     *)

\* An id that nothing in S has.
FreshIn(S) == CHOOSE n \in 0..Cardinality(S) : \A x \in S : x.id # n

PriceOf(p) == IF p \in Overridden THEN Inline ELSE p

Row(plan, target, grandfathered, applied) ==
    [plan |-> plan, target |-> target, grandfathered |-> grandfathered, applied |-> applied]

\* Stripe tells of every change of the subscription.
Charge(price) ==
    /\ item' = price /\ charged' = charged \cup {price}
    /\ events' = events \cup {[id |-> FreshIn(events), price |-> price]}

\* The guards: an active plan that is not in credit mode.
RequestChange(c, p, effectiveFrom) ==
    /\ Asked
    /\ call[c].at = "idle"
    /\ call' = [call EXCEPT ![c] =
            IF p \in active \ CreditPlans THEN [at |-> effectiveFrom, plan |-> p] ELSE Failed]
    /\ UNCHANGED <<active, stripeVars, priceRow, planRow, ledger, planJobs, archiving>>

ChangeImmediately(c) ==
    /\ call[c].at = "immediate"
    /\ Charge(PriceOf(call[c].plan))
    /\ call' = [call EXCEPT ![c].at = "applied"]
    /\ UNCHANGED <<active, schedule, priceRow, planRow, ledger, planJobs, archiving,
                   operations>>

\* Stripe attaches one schedule to a subscription at most.
CreateSchedule(c) ==
    /\ call[c].at = "next_cycle"
    /\ IF schedule = NoSchedule
       THEN schedule' = [phase |-> "mirror", price |-> NoPrice]
            /\ call' = [call EXCEPT ![c].at = "phases"]
       ELSE call' = [call EXCEPT ![c] = Failed] /\ UNCHANGED schedule
    /\ UNCHANGED <<active, item, charged, events, priceRow, planRow, ledger, planJobs,
                   archiving, operations>>

\* The second phase starts at the period's end; a schedule released meanwhile is an error.
UpdateSchedule(c) ==
    /\ call[c].at = "phases"
    /\ IF schedule.phase = "mirror"
       THEN schedule' = [phase |-> "next", price |-> PriceOf(call[c].plan)]
            /\ call' = [call EXCEPT ![c].at = "scheduled"]
       ELSE call' = [call EXCEPT ![c] = Failed] /\ UNCHANGED schedule
    /\ UNCHANGED <<active, item, charged, events, priceRow, planRow, ledger, planJobs,
                   archiving, operations>>

\* A change with an override has no target price, and nothing will ever confirm it.
InsertLedgerRow(c) ==
    /\ call[c].at \in {"applied", "scheduled"}
    /\ LET p == call[c].plan
           target == IF p \in Overridden THEN NoPrice ELSE p
       IN ledger' = Append(ledger, Row(p, target, FALSE, call[c].at = "applied"))
    /\ call' = [call EXCEPT ![c] = [NoCall EXCEPT !.at = "done"]]
    /\ UNCHANGED <<active, stripeVars, priceRow, planRow, planJobs, archiving, operations>>

\* A Stripe error, a lost answer, a failed INSERT or the death of the process.
ChangeFails(c) ==
    /\ call[c].at \notin {"idle", "failed", "done"}
    /\ call' = [call EXCEPT ![c] = Failed]
    /\ UNCHANGED <<active, stripeVars, priceRow, planRow, ledger, planJobs, archiving, operations>>

\* POST /pricing/:productId/plan-change inserts a row and tells nobody.
RecordChange(p) ==
    /\ Asked
    /\ ledger' = Append(ledger, Row(p, NoPrice, FALSE, FALSE))
    /\ UNCHANGED <<active, stripeVars, priceRow, planRow, call, planJobs, archiving>>

-----------------------------------------------------------------------------
(* Stripe and its webhook.                                                 *)

\* A schedule moves to its second phase, or is released at the end of its last one.
PeriodEnds ==
    /\ Asked
    /\ IF schedule.phase = "next"
       THEN Charge(schedule.price) /\ schedule' = [phase |-> "last", price |-> NoPrice]
       ELSE Charge(item) /\ schedule' = NoSchedule
    /\ UNCHANGED <<active, priceRow, planRow, ledger, call, planJobs, archiving>>

AddJob(kind, about) ==
    planJobs' = planJobs \cup {[kind |-> kind, about |-> about, id |-> FreshIn(planJobs),
                                at |-> "start", row |-> 0, stalled |-> FALSE]}

\* handleSubscriptionUpdated, in whatever order the events come; it may fail before its end.
ConfirmFromWebhook(e) ==
    /\ events' = events \ {e}
    /\ priceRow' = e.price
    /\ \/ AddJob("confirm", e.price)
       \/ UNCHANGED planJobs
    /\ UNCHANGED <<active, item, schedule, charged, planRow, ledger, call, archiving,
                   operations>>

-----------------------------------------------------------------------------
(* confirmPlanChange, one statement at a time.                             *)

JobGoes(j, at) == planJobs' = (planJobs \ {j}) \cup {[j EXCEPT !.at = at]}
JobEndsHere(j) == planJobs' = planJobs \ {j}

Pending == {i \in 1..Len(ledger) : ~ledger[i].applied}

\* Mutant: the row's target is not compared.
ConfirmNewest(j) ==
    /\ j.kind = "confirm" /\ j.at = "start"
    /\ IF Pending # {}
       THEN planJobs' = (planJobs \ {j}) \cup
                {[j EXCEPT !.at = "apply", !.row = CHOOSE i \in Pending : \A k \in Pending : k <= i]}
       ELSE JobEndsHere(j)
    /\ UNCHANGED <<active, stripeVars, priceRow, planRow, ledger, call, archiving, operations>>

\* The newest pending row, or nothing.
ConfirmRead(j) ==
    /\ j.kind = "confirm" /\ j.at = "start"
    /\ IF \E i \in Pending : /\ \A k \in Pending : k <= i
                             /\ ledger[i].target = j.about
       THEN planJobs' = (planJobs \ {j}) \cup
                {[j EXCEPT !.at = "apply", !.row = CHOOSE i \in Pending : \A k \in Pending : k <= i]}
       ELSE JobEndsHere(j)
    /\ UNCHANGED <<active, stripeVars, priceRow, planRow, ledger, call, archiving, operations>>

ConfirmApply(j) ==
    /\ j.kind = "confirm" /\ j.at = "apply"
    /\ ledger' = [ledger EXCEPT ![j.row].applied = TRUE]
    /\ JobGoes(j, "plan")
    /\ UNCHANGED <<active, stripeVars, priceRow, planRow, call, archiving, operations>>

ConfirmPlan(j) ==
    /\ j.kind = "confirm" /\ j.at = "plan"
    /\ planRow' = j.about
    /\ JobEndsHere(j)
    /\ UNCHANGED <<active, stripeVars, priceRow, ledger, call, archiving, operations>>

-----------------------------------------------------------------------------
(* archivePlan and grandfatherExistingSubscribers.                         *)

\* Mutant: the plan's row is not locked, so that two calls find it active.
ArchiveUnlocked(p) ==
    /\ Asked
    /\ active' = active \ {p}
    /\ archiving' = archiving \cup {[plan |-> p, id |-> FreshIn(archiving)]}
    /\ UNCHANGED <<stripeVars, priceRow, planRow, ledger, call, planJobs>>

\* The transaction: FOR UPDATE, so that one call of two finds the plan active.
ArchivePlan(p) ==
    /\ Asked
    /\ p \in active
    /\ active' = active \ {p}
    /\ archiving' = archiving \cup {[plan |-> p, id |-> FreshIn(archiving)]}
    /\ UNCHANGED <<stripeVars, priceRow, planRow, ledger, call, planJobs>>

\* queue.add after the commit; the process may have died.
ArchiveEnqueue(a) ==
    /\ archiving' = archiving \ {a}
    /\ \/ AddJob("grandfather", a.plan)
       \/ UNCHANGED planJobs
    /\ UNCHANGED <<active, stripeVars, priceRow, planRow, ledger, call, operations>>

\* softArchivePlan counts by plan_id, and adds no job.
SoftArchivePlan(p) ==
    /\ Asked
    /\ p \in active /\ planRow # p
    /\ active' = active \ {p}
    /\ UNCHANGED <<stripeVars, priceRow, planRow, ledger, call, planJobs, archiving>>

GrandfatherRead(j) ==
    /\ j.kind = "grandfather" /\ j.at = "start"
    /\ IF priceRow = j.about THEN JobGoes(j, "check") ELSE JobEndsHere(j)
    /\ UNCHANGED <<active, stripeVars, priceRow, planRow, ledger, call, archiving, operations>>

\* INSERT ... WHERE NOT EXISTS: what the statement sees was committed before it began.
GrandfatherCheck(j) ==
    /\ j.kind = "grandfather" /\ j.at = "check"
    /\ JobGoes(j, IF \E i \in 1..Len(ledger) : ledger[i].plan = j.about /\ ledger[i].grandfathered
                  THEN "end" ELSE "insert")
    /\ UNCHANGED <<active, stripeVars, priceRow, planRow, ledger, call, archiving, operations>>

GrandfatherInsert(j) ==
    /\ j.kind = "grandfather" /\ j.at = "insert"
    /\ ledger' = Append(ledger, Row(j.about, NoPrice, TRUE, FALSE))
    /\ JobGoes(j, "end")
    /\ UNCHANGED <<active, stripeVars, priceRow, planRow, call, archiving, operations>>

GrandfatherEnds(j) ==
    /\ j.at = "end"
    /\ JobEndsHere(j)
    /\ UNCHANGED <<active, stripeVars, priceRow, planRow, ledger, call, archiving, operations>>

\* The worker dies: the stalled check puts the job back once, then gives it up.
PlanJobStalls(j) ==
    /\ planJobs' = (planJobs \ {j}) \cup
            {k \in {[j EXCEPT !.at = "start", !.row = 0, !.stalled = TRUE]} : ~j.stalled}
    /\ UNCHANGED <<active, stripeVars, priceRow, planRow, ledger, call, archiving, operations>>

PlanNext ==
    \/ \E c \in Changes :
        \/ \E p \in Plans, effectiveFrom \in {"immediate", "next_cycle"} :
            RequestChange(c, p, effectiveFrom)
        \/ ChangeImmediately(c) \/ CreateSchedule(c) \/ UpdateSchedule(c) \/ InsertLedgerRow(c)
        \/ ChangeFails(c)
    \/ \E p \in Plans : RecordChange(p) \/ ArchivePlan(p) \/ SoftArchivePlan(p)
    \/ PeriodEnds
    \/ \E e \in events : ConfirmFromWebhook(e)
    \/ \E a \in archiving : ArchiveEnqueue(a)
    \/ \E j \in planJobs :
        \/ ConfirmRead(j) \/ ConfirmApply(j) \/ ConfirmPlan(j)
        \/ GrandfatherRead(j) \/ GrandfatherCheck(j) \/ GrandfatherInsert(j) \/ GrandfatherEnds(j)
        \/ PlanJobStalls(j)

PlanSpec == PlanInit /\ [][PlanNext]_planVars

-----------------------------------------------------------------------------
\* Type invariant of the plans, the ledger, Stripe's side and the jobs.
PlanTypeOK ==
    LET Price == Plans \cup {Inline}
    IN /\ active \subseteq Plans
       /\ item \in Price /\ charged \subseteq Price
       /\ schedule \in [phase : {"none", "mirror", "next", "last"}, price : Price \cup {NoPrice}]
       /\ events \subseteq [id : Nat, price : Price]
       /\ priceRow \in Price /\ planRow \in Plans
       /\ ledger \in Seq([plan : Plans, target : Plans \cup {NoPrice}, grandfathered : BOOLEAN,
                          applied : BOOLEAN])
       /\ call \in [Changes -> [at : {"idle", "immediate", "applied", "next_cycle", "phases",
                                      "scheduled", "done", "failed"},
                                plan : Plans \cup {NoPrice}]]
       /\ planJobs \subseteq [kind : {"confirm", "grandfather"}, about : Price, id : Nat,
                              at : {"start", "apply", "plan", "check", "insert", "end"},
                              row : 0..Len(ledger), stalled : BOOLEAN]
       /\ archiving \subseteq [plan : Plans, id : Nat]

\* The ledger calls a change applied only if Stripe has charged its price, whatever the order of
\* events, jobs and retries, and never a grandfathering row; and the plan_id of the subscription's
\* row is the first one or that of a change the ledger calls applied, though two statements write
\* them (planChangeService.ts:345-366).
AppliedWasCharged ==
    /\ \A i \in 1..Len(ledger) : ledger[i].applied =>
        /\ ~ledger[i].grandfathered
        /\ ledger[i].target # NoPrice => ledger[i].target \in charged
    /\ \/ planRow = FirstPlan
       \/ \E i \in 1..Len(ledger) : ledger[i].applied /\ ledger[i].target = planRow

\* A subscriber is grandfathered once per plan: no unique index says so, but one archivePlan of
\* any two finds the plan active, and a job that is run again sees the row of its first run
\* (planCatalogService.ts:223-228, planChangeService.ts:283-289).
GrandfatheredOnce ==
    \A i, k \in 1..Len(ledger) :
        ledger[i].grandfathered /\ ledger[k].grandfathered /\ ledger[i].plan = ledger[k].plan => i = k
================================================================================
