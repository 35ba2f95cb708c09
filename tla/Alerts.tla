--------------------------------- MODULE Alerts ---------------------------------
(***************************************************************************)
(* Alerts of one product and type (alertService.ts), the scans that        *)
(* escalate those nobody has acknowledged (escalationService.ts), and the  *)
(* job that tells the contacts of a tier (escalationDeliveryWorker.ts).    *)
(* The scan walks over a list it read once; every statement of it commits  *)
(* alone, and the queue is told after the row is written.                  *)
(*                                                                         *)
(* Left out: notification jobs, and rules that change under a scan.  Faults*)
(* are errors of a query or the queue and deaths of a process.             *)
(***************************************************************************)
EXTENDS Naturals, Sequences, FiniteSets

CONSTANTS
    DedupKeys,          \* dedup_key of the alerts that have one
    NoKey,              \* NULL
    Threshold,          \* threshold_minutes of each tier, in ticks of alertClock
    Contacts,           \* the contacts of every tier, in order
    SmsContacts,        \* those of them of type sms, or of a type the worker does not know
    Scanners,           \* processes that register the scanner
    MaxAlerts,          \* bound: rows of alert_events
    MaxFires,           \* bound: fire_count
    MaxAge,             \* bound: alertClock stops here
    MaxFaults           \* bound: faults

ASSUME AlertAssumption ==
    /\ NoKey \notin DedupKeys /\ MaxFires \in Nat \ {0}
    /\ Len(Contacts) \in Nat /\ DOMAIN Contacts = 1..Len(Contacts)
ASSUME EscalationAssumption == Threshold \in Seq(Nat) /\ MaxAlerts \in Nat /\ MaxAge \in Nat

VARIABLES
    alertRows,          \* alert_events, by id
    escalations,        \* escalation_events: pairs of an alert and a tier
    scan,               \* each scanner: its time, and the pairs it has yet to look at
    deliveries,         \* jobs of escalation.deliver
    added,              \* history: how often each pair was given to the queue
    unqueued,           \* history: pairs whose add failed
    told,               \* history: <<alert, tier, contact, whether it was served>>
    ended,              \* history: jobs that ended, and how
    alertClock,
    faults

alertVars == <<alertRows, escalations, scan, deliveries, added, unqueued, told, ended,
               alertClock, faults>>

Tiers == DOMAIN Threshold
Escalation == (1..MaxAlerts) \X Tiers
NoScan == [at |-> "idle", now |-> 0, todo |-> <<>>]

AlertInit ==
    /\ alertRows = <<>>
    /\ escalations = {} /\ deliveries = {}
    /\ scan = [s \in Scanners |-> NoScan]
    /\ added = [e \in Escalation |-> 0]
    /\ unqueued = {} /\ told = {} /\ ended = {}
    /\ alertClock = 0 /\ faults = 0

Fault == faults < MaxFaults /\ faults' = faults + 1

-----------------------------------------------------------------------------
(* ingestAlert, and the routes acknowledge and resolve.                    *)

OpenRow(k) == {i \in DOMAIN alertRows : alertRows[i].key = k /\ alertRows[i].status = "new"}

\* The upsert on the partial unique index; without a key the row is always a new one.
IngestAlert(k) ==
    /\ IF k # NoKey /\ OpenRow(k) # {}
       THEN \E i \in OpenRow(k) :
                /\ alertRows[i].fires < MaxFires
                /\ alertRows' = [alertRows EXCEPT ![i].fires = @ + 1]
       ELSE /\ Len(alertRows) < MaxAlerts
            /\ alertRows' = Append(alertRows, [key |-> k, status |-> "new", fires |-> 1,
                                               firedAt |-> alertClock])
    /\ UNCHANGED <<escalations, scan, deliveries, added, unqueued, told, ended, alertClock, faults>>

SetAlertStatus(i, from, to) ==
    /\ alertRows[i].status \in from
    /\ alertRows' = [alertRows EXCEPT ![i].status = to]
    /\ UNCHANGED <<escalations, scan, deliveries, added, unqueued, told, ended, alertClock, faults>>

Acknowledge(i) == SetAlertStatus(i, {"new"}, "acknowledged")
Resolve(i) == SetAlertStatus(i, {"new", "acknowledged"}, "resolved")

Age == /\ alertClock < MaxAge
       /\ alertClock' = alertClock + 1
       /\ UNCHANGED <<alertRows, escalations, scan, deliveries, added, unqueued, told, ended, faults>>

-----------------------------------------------------------------------------
(* runEscalationScan.                                                      *)

\* The oldest alert first, and for each its rules by tier.
ListAlerts(s) ==
    /\ scan[s].at = "idle"
    /\ LET new == {i \in DOMAIN alertRows : alertRows[i].status = "new"}
           n == Len(Threshold)
       IN \E open \in [1..Cardinality(new) -> new] :
            /\ \A j, k \in DOMAIN open : j < k => open[j] < open[k]
            /\ scan' = [scan EXCEPT ![s] = [at |-> "pair", now |-> alertClock,
                    todo |-> [j \in 1..(Cardinality(new) * n) |->
                                <<open[((j - 1) \div n) + 1], ((j - 1) % n) + 1>>]]]
    /\ UNCHANGED <<alertRows, escalations, deliveries, added, unqueued, told, ended, alertClock, faults>>

Due(e, now) == now - alertRows[e[1]].firedAt >= Threshold[e[2]]

\* Mutant: rows that are there already end the scan.
EscalateStopsAtOld(s) ==
    /\ scan[s].at = "pair" /\ scan[s].todo # <<>>
    /\ LET e == Head(scan[s].todo)
       IN IF ~Due(e, scan[s].now)
          THEN scan' = [scan EXCEPT ![s].todo = Tail(@)] /\ UNCHANGED escalations
          ELSE IF e \in escalations THEN scan' = [scan EXCEPT ![s] = NoScan] /\ UNCHANGED escalations
          ELSE scan' = [scan EXCEPT ![s].at = "add"] /\ escalations' = escalations \cup {e}
    /\ UNCHANGED <<alertRows, deliveries, added, unqueued, told, ended, alertClock, faults>>

\* Mutant: the INSERT's result is not looked at.
EscalateAgain(s) ==
    /\ scan[s].at = "pair" /\ scan[s].todo # <<>>
    /\ LET e == Head(scan[s].todo)
       IN IF Due(e, scan[s].now)
          THEN scan' = [scan EXCEPT ![s].at = "add"] /\ escalations' = escalations \cup {e}
          ELSE scan' = [scan EXCEPT ![s].todo = Tail(@)] /\ UNCHANGED escalations
    /\ UNCHANGED <<alertRows, deliveries, added, unqueued, told, ended, alertClock, faults>>

\* The threshold, and INSERT ... ON CONFLICT DO NOTHING; the alert's status is not read again.
EscalatePair(s) ==
    /\ scan[s].at = "pair" /\ scan[s].todo # <<>>
    /\ LET e == Head(scan[s].todo)
       IN IF Due(e, scan[s].now) /\ e \notin escalations
          THEN scan' = [scan EXCEPT ![s].at = "add"] /\ escalations' = escalations \cup {e}
          ELSE scan' = [scan EXCEPT ![s].todo = Tail(@)] /\ UNCHANGED escalations
    /\ UNCHANGED <<alertRows, deliveries, added, unqueued, told, ended, alertClock, faults>>

AddDelivery(s) ==
    /\ scan[s].at = "add"
    /\ LET e == Head(scan[s].todo)
       IN /\ added' = [added EXCEPT ![e] = @ + 1]
          /\ deliveries' = deliveries \cup
                {[alert |-> e[1], tier |-> e[2], next |-> 1, failed |-> FALSE, stalled |-> FALSE]}
    /\ scan' = [scan EXCEPT ![s].at = "pair", ![s].todo = Tail(@)]
    /\ UNCHANGED <<alertRows, escalations, unqueued, told, ended, alertClock, faults>>

ScanEnds(s) ==
    /\ scan[s].at = "pair" /\ scan[s].todo = <<>>
    /\ scan' = [scan EXCEPT ![s] = NoScan]
    /\ UNCHANGED <<alertRows, escalations, deliveries, added, unqueued, told, ended, alertClock, faults>>

\* Whatever throws ends the scan; the cron starts the next one.
ScanFails(s) ==
    /\ Fault
    /\ scan[s].at \in {"pair", "add"}
    /\ unqueued' = IF scan[s].at = "add" THEN unqueued \cup {Head(scan[s].todo)} ELSE unqueued
    /\ scan' = [scan EXCEPT ![s] = NoScan]
    /\ UNCHANGED <<alertRows, escalations, deliveries, added, told, ended, alertClock>>

-----------------------------------------------------------------------------
(* The delivery worker; its jobs have no attempts.                         *)

EndDelivery(j, result) ==
    ended' = ended \cup {[alert |-> j.alert, tier |-> j.tier, result |-> result]}

\* Mutant: the first failure ends the loop.
TellContactOrThrow(j) ==
    /\ j.next <= Len(Contacts) /\ Contacts[j.next] \notin SmsContacts
    /\ \E served \in BOOLEAN :
        /\ IF served THEN UNCHANGED faults ELSE Fault
        /\ told' = told \cup {<<j.alert, j.tier, Contacts[j.next], served>>}
        /\ deliveries' = (deliveries \ {j}) \cup
                {[j EXCEPT !.next = IF served THEN @ + 1 ELSE Len(Contacts) + 1,
                           !.failed = @ \/ ~served]}
    /\ UNCHANGED <<alertRows, escalations, scan, added, unqueued, ended, alertClock>>

\* An e-mail or a webhook.  A contact that cannot be reached is remembered and the loop goes on.
TellContact(j) ==
    /\ j.next <= Len(Contacts) /\ Contacts[j.next] \notin SmsContacts
    /\ \E served \in BOOLEAN :
        /\ IF served THEN UNCHANGED faults ELSE Fault
        /\ told' = told \cup {<<j.alert, j.tier, Contacts[j.next], served>>}
        /\ deliveries' = (deliveries \ {j}) \cup
                {[j EXCEPT !.next = @ + 1, !.failed = @ \/ ~served]}
    /\ UNCHANGED <<alertRows, escalations, scan, added, unqueued, ended, alertClock>>

\* Nobody is told, which is logged and is no failure.
PassOver(j) ==
    /\ j.next <= Len(Contacts) /\ Contacts[j.next] \in SmsContacts
    /\ deliveries' = (deliveries \ {j}) \cup {[j EXCEPT !.next = @ + 1]}
    /\ UNCHANGED <<alertRows, escalations, scan, added, unqueued, told, ended, alertClock, faults>>

DeliveryEnds(j) ==
    /\ j.next > Len(Contacts)
    /\ deliveries' = deliveries \ {j}
    /\ EndDelivery(j, IF j.failed THEN "failed" ELSE "completed")
    /\ UNCHANGED <<alertRows, escalations, scan, added, unqueued, told, alertClock, faults>>

\* The worker dies: the stalled check puts the job back once, then gives it up.
DeliveryStalls(j) ==
    /\ Fault
    /\ IF j.stalled
       THEN deliveries' = deliveries \ {j} /\ EndDelivery(j, "lost")
       ELSE /\ deliveries' = (deliveries \ {j}) \cup
                    {[j EXCEPT !.next = 1, !.failed = FALSE, !.stalled = TRUE]}
            /\ UNCHANGED ended
    /\ UNCHANGED <<alertRows, escalations, scan, added, unqueued, told, alertClock>>

ScanStep(s) == ListAlerts(s) \/ EscalatePair(s) \/ AddDelivery(s) \/ ScanEnds(s)

AlertNext ==
    \/ \E k \in DedupKeys \cup {NoKey} : IngestAlert(k)
    \/ \E i \in DOMAIN alertRows : Acknowledge(i) \/ Resolve(i)
    \/ Age
    \/ \E s \in Scanners : ScanStep(s) \/ ScanFails(s)
    \/ \E j \in deliveries : TellContact(j) \/ PassOver(j) \/ DeliveryEnds(j) \/ DeliveryStalls(j)

\* The cron keeps starting scans and a live process goes on with the one it has begun.
AlertSpec == AlertInit /\ [][AlertNext]_alertVars /\ \A s \in Scanners : WF_alertVars(ScanStep(s))

-----------------------------------------------------------------------------
\* Type invariant of the alerts, the scans and the delivery jobs.
AlertTypeOK ==
    /\ alertRows \in Seq([key : DedupKeys \cup {NoKey}, status : {"new", "acknowledged", "resolved"},
                          fires : 1..MaxFires, firedAt : 0..MaxAge])
    /\ escalations \subseteq Escalation /\ unqueued \subseteq Escalation
    /\ scan \in [Scanners -> [at : {"idle", "pair", "add"}, now : 0..MaxAge,
                              todo : Seq(Escalation)]]
    /\ deliveries \subseteq [alert : 1..MaxAlerts, tier : Tiers, next : 1..(Len(Contacts) + 1),
                             failed : BOOLEAN, stalled : BOOLEAN]
    /\ added \in [Escalation -> Nat]

\* An escalation is given to the queue once, however many scans look at the alert at a time
\* (escalationService.ts:46-64), unless the scan that wrote its row died or the queue refused:
\* then never, for the row tells all later scans that it was.
QueuedOnce ==
    \A e \in Escalation :
        /\ added[e] <= 1
        /\ (e \in escalations) <=>
                \/ added[e] = 1
                \/ e \in unqueued
                \/ \E s \in Scanners : scan[s].at = "add" /\ Head(scan[s].todo) = e

Waiting(e) == /\ e[1] \in DOMAIN alertRows
              /\ alertRows[e[1]].status = "new"
              /\ Due(e, alertClock)

\* An alert that stays new past a tier's threshold is escalated to that tier, or somebody takes
\* care of it, though scans stop at the first error (escalationService.ts:25-71).
StaleAlertEscalates ==
    \A e \in Escalation : Waiting(e) ~> (e \in escalations \/ ~Waiting(e))

\* A delivery that ends on its own has tried every e-mail and webhook contact, whichever of them
\* failed, and one that ends well has served them all (escalationDeliveryWorker.ts:31-55).  Of a
\* contact by sms neither says anything: its rule is accepted, and its job completes untold.
EveryContactTried ==
    \A d \in ended, i \in DOMAIN Contacts : Contacts[i] \notin SmsContacts =>
        /\ d.result = "completed" => <<d.alert, d.tier, Contacts[i], TRUE>> \in told
        /\ d.result = "failed" =>
                \E served \in BOOLEAN : <<d.alert, d.tier, Contacts[i], served>> \in told
================================================================================
