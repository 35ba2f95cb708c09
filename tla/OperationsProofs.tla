---------------------------- MODULE OperationsProofs ----------------------------
(***************************************************************************)
(* Proofs about the services that run in the background: the escalation of *)
(* alerts, its deliveries, the SDK's metrics buffer, the nightly           *)
(* evaluation of controls, the roll-up of metrics, and the unlock of       *)
(* quarterly quotas.                                                       *)
(***************************************************************************)
EXTENDS Alerts, MetricsClient, Compliance, Rollup, QuarterlyCycle, FiniteSetTheorems, SequenceTheorems, TLAPS

-----------------------------------------------------------------------------
(* Arithmetic.                                                             *)

LEMMA DivisionBounds ==
    ASSUME NEW t \in Nat, NEW k \in Nat \ {0}
    PROVE  t \div k \in Nat /\ k * (t \div k) <= t /\ t < k * (t \div k) + k
  OBVIOUS

LEMMA ProductMonotone ==
    ASSUME NEW k \in Nat, NEW a \in Int, NEW b \in Int, a <= b
    PROVE  k * a <= k * b
  OBVIOUS

-----------------------------------------------------------------------------
(* Escalations are queued once.                                            *)

ScanRecord(x) == x = [at |-> x.at, now |-> x.now, todo |-> x.todo]

ScanShape == DOMAIN scan = Scanners /\ scan = [s \in Scanners |-> scan[s]]
             /\ \A s \in Scanners : ScanRecord(scan[s])

\* The pair that a scan has written and not yet given to the queue.
Adding(s, e) == scan[s].at = "add" /\ Head(scan[s].todo) = e

\* Exactly one scan holds a pair between its row and its job, and nothing was queued for it before.
AddsAreOwn ==
    /\ \A s \in Scanners : scan[s].at = "add" => Head(scan[s].todo) \in escalations
    /\ \A s, t \in Scanners, e \in Escalation : Adding(s, e) /\ Adding(t, e) => s = t
    /\ \A s \in Scanners, e \in Escalation : Adding(s, e) => added[e] = 0

\* What was queued or lost has its row, which no later scan writes again.
QueuedHasRow ==
    /\ added = [e \in Escalation |-> added[e]]
    /\ \A e \in Escalation : added[e] \in {0, 1}
    /\ \A e \in Escalation : added[e] = 1 \/ e \in unqueued => e \in escalations

\* A row that was written is with a scan, was queued or was lost.
RowsAccounted ==
    \A e \in Escalation : e \in escalations =>
        added[e] = 1 \/ e \in unqueued \/ \E s \in Scanners : Adding(s, e)

QueueInv == ScanShape /\ AddsAreOwn /\ QueuedHasRow /\ RowsAccounted

LEMMA QueueInvImplies == QueueInv => QueuedOnce
  BY DEF QueueInv, AddsAreOwn, QueuedHasRow, RowsAccounted, QueuedOnce, Adding

LEMMA QueueInit == AlertInit => QueueInv
  BY DEF AlertInit, NoScan, QueueInv, ScanShape, ScanRecord, AddsAreOwn, QueuedHasRow, RowsAccounted,
     Adding

\* What is left of a scan's list, and where it is, are replaced.
LEMMA ScanRecords ==
    ASSUME NEW x, ScanRecord(x), NEW at, NEW todo
    PROVE  /\ ScanRecord([x EXCEPT !.at = at]) /\ ScanRecord([x EXCEPT !.todo = todo])
           /\ [x EXCEPT !.at = at].at = at /\ [x EXCEPT !.at = at].todo = x.todo
           /\ [x EXCEPT !.todo = todo].at = x.at
  BY DEF ScanRecord

\* A scanner's state is replaced by another.
LEMMA ScanMoves ==
    ASSUME ScanShape, NEW s \in Scanners, NEW x, ScanRecord(x), scan' = [scan EXCEPT ![s] = x]
    PROVE  /\ ScanShape' /\ scan'[s] = x /\ \A t \in Scanners \ {s} : scan'[t] = scan[t]
           /\ \A t \in Scanners \ {s} : \A e : Adding(t, e)' <=> Adding(t, e)
  BY DEF ScanShape, Adding

\* A scan that goes on without a new pair and without one in its hands.
LEMMA ScanGoesOn ==
    ASSUME QueueInv, NEW s \in Scanners, scan[s].at # "add", NEW x, ScanRecord(x), x.at # "add",
           scan' = [scan EXCEPT ![s] = x], UNCHANGED <<escalations, added, unqueued>>
    PROVE  QueueInv'
  <1>1. /\ ScanShape' /\ scan'[s] = x /\ \A t \in Scanners \ {s} : scan'[t] = scan[t]
        /\ \A t \in Scanners \ {s} : \A e : Adding(t, e)' <=> Adding(t, e)
    BY ScanMoves DEF QueueInv
  <1>2. \A e : ~Adding(s, e) /\ ~Adding(s, e)'
    BY <1>1 DEF Adding
  <1>3. AddsAreOwn'
    BY <1>1, <1>2 DEF QueueInv, AddsAreOwn
  <1>4. QueuedHasRow'
    BY DEF QueueInv, QueuedHasRow
  <1>5. RowsAccounted'
    BY <1>1, <1>2 DEF QueueInv, RowsAccounted
  <1> QED  BY <1>1, <1>3, <1>4, <1>5 DEF QueueInv

LEMMA QueueStep == QueueInv /\ [AlertNext]_alertVars => QueueInv'
  <1> SUFFICES ASSUME QueueInv, [AlertNext]_alertVars PROVE QueueInv'
    OBVIOUS
  <1>0. ScanShape
    BY DEF QueueInv
  <1>1. ASSUME UNCHANGED <<escalations, scan, added, unqueued>>
        PROVE  QueueInv'
    BY <1>1 DEF QueueInv, ScanShape, AddsAreOwn, QueuedHasRow, RowsAccounted, Adding
  <1>2. ASSUME NEW k \in DedupKeys \cup {NoKey}, IngestAlert(k) PROVE QueueInv'
    BY <1>1, <1>2 DEF IngestAlert
  <1>3. ASSUME NEW i \in DOMAIN alertRows, Acknowledge(i) \/ Resolve(i) PROVE QueueInv'
    BY <1>1, <1>3 DEF Acknowledge, Resolve, SetAlertStatus
  <1>4. ASSUME Age PROVE QueueInv'
    BY <1>1, <1>4 DEF Age
  <1>5. ASSUME NEW s \in Scanners, ListAlerts(s) PROVE QueueInv'
    <2>1. \E todo : scan' = [scan EXCEPT ![s] = [at |-> "pair", now |-> alertClock, todo |-> todo]]
      BY <1>5 DEF ListAlerts
    <2>2. PICK todo : scan' = [scan EXCEPT ![s] = [at |-> "pair", now |-> alertClock, todo |-> todo]]
      BY <2>1
    <2> DEFINE x == [at |-> "pair", now |-> alertClock, todo |-> todo]
    <2>3. ScanRecord(x) /\ x.at # "add"
      BY DEF ScanRecord
    <2> HIDE DEF x
    <2>4. scan[s].at # "add" /\ UNCHANGED <<escalations, added, unqueued>>
      BY <1>5 DEF ListAlerts
    <2> QED  BY <2>2, <2>3, <2>4, ScanGoesOn DEF x
  <1>6. ASSUME NEW s \in Scanners, EscalatePair(s) PROVE QueueInv'
    <2> DEFINE e == Head(scan[s].todo)
    <2>1. UNCHANGED <<added, unqueued>> /\ scan[s].at = "pair"
      BY <1>6 DEF EscalatePair
    <2>2. CASE scan' = [scan EXCEPT ![s].todo = Tail(@)] /\ UNCHANGED escalations
      <3> DEFINE x == [scan[s] EXCEPT !.todo = Tail(scan[s].todo)]
      <3>1. ScanRecord(x) /\ x.at = "pair"
        BY <1>0, <2>1, ScanRecords DEF ScanShape
      <3>2. scan' = [scan EXCEPT ![s] = x]
        BY <2>2
      <3> HIDE DEF x
      <3> QED  BY <2>1, <2>2, <3>1, <3>2, ScanGoesOn
    <2>3. CASE scan' = [scan EXCEPT ![s].at = "add"] /\ e \notin escalations
                /\ escalations' = escalations \cup {e}
      <3> DEFINE x == [scan[s] EXCEPT !.at = "add"]
      <3>1. ScanRecord(x) /\ x.at = "add" /\ x.todo = scan[s].todo
        BY <1>0 DEF ScanShape, ScanRecord
      <3>2. scan' = [scan EXCEPT ![s] = x]
        BY <2>3
      <3>3. /\ ScanShape' /\ scan'[s] = x /\ \A t \in Scanners \ {s} : scan'[t] = scan[t]
            /\ \A t \in Scanners \ {s} : \A f : Adding(t, f)' <=> Adding(t, f)
        BY <1>0, <3>1, <3>2, ScanMoves
      <3>4. \A f : (Adding(s, f)' <=> f = e) /\ ~Adding(s, f)
        BY <2>1, <3>1, <3>3 DEF Adding
      <3>5. \A t \in Scanners : ~Adding(t, e)
        BY <2>3 DEF QueueInv, AddsAreOwn, Adding
      <3> HIDE DEF x, e
      <3>6. AddsAreOwn'
        <4>1. \A t \in Scanners : scan'[t].at = "add" => Head(scan'[t].todo) \in escalations'
          BY <2>3, <3>1, <3>3 DEF QueueInv, AddsAreOwn, e
        <4>2. \A t, u \in Scanners, f \in Escalation : Adding(t, f)' /\ Adding(u, f)' => t = u
          BY <3>3, <3>4, <3>5 DEF QueueInv, AddsAreOwn
        <4>3. \A t \in Scanners, f \in Escalation : Adding(t, f)' => added'[f] = 0
          BY <2>1, <2>3, <3>3, <3>4 DEF QueueInv, AddsAreOwn, QueuedHasRow
        <4> QED  BY <4>1, <4>2, <4>3 DEF AddsAreOwn
      <3>7. QueuedHasRow'
        BY <2>1, <2>3 DEF QueueInv, QueuedHasRow
      <3>8. RowsAccounted'
        BY <2>1, <2>3, <3>3, <3>4 DEF QueueInv, RowsAccounted
      <3> QED  BY <3>3, <3>6, <3>7, <3>8 DEF QueueInv
    <2> QED  BY <1>6, <2>2, <2>3 DEF EscalatePair
  <1>7. ASSUME NEW s \in Scanners, AddDelivery(s) PROVE QueueInv'
    <2> DEFINE e == Head(scan[s].todo)
               x == [[scan[s] EXCEPT !.at = "pair"] EXCEPT !.todo = Tail(scan[s].todo)]
    <2>1. /\ UNCHANGED <<escalations, unqueued>> /\ scan[s].at = "add"
          /\ added' = [added EXCEPT ![e] = @ + 1]
      BY <1>7 DEF AddDelivery
    <2>2. ScanRecord(x) /\ x.at = "pair"
      <3> DEFINE y == [scan[s] EXCEPT !.at = "pair"]
      <3>1. ScanRecord(y) /\ y.at = "pair"
        BY <1>0, ScanRecords DEF ScanShape
      <3> HIDE DEF y
      <3>2. ScanRecord([y EXCEPT !.todo = Tail(scan[s].todo)])
            /\ [y EXCEPT !.todo = Tail(scan[s].todo)].at = "pair"
        BY <3>1, ScanRecords
      <3> QED  BY <3>2 DEF y
    <2>3. scan' = [scan EXCEPT ![s] = x]
      BY <1>0, <1>7 DEF AddDelivery, ScanShape, ScanRecord
    <2> HIDE DEF x
    <2>4. /\ ScanShape' /\ scan'[s] = x /\ \A t \in Scanners \ {s} : scan'[t] = scan[t]
          /\ \A t \in Scanners \ {s} : \A f : Adding(t, f)' <=> Adding(t, f)
      BY <1>0, <2>2, <2>3, ScanMoves
    <2>5. \A f : ~Adding(s, f)' /\ (Adding(s, f) <=> f = e)
      BY <2>1, <2>2, <2>4 DEF Adding
    <2> HIDE DEF e
    <2>6. \A t \in Scanners \ {s} : e \in Escalation => ~Adding(t, e)
      BY <2>5 DEF QueueInv, AddsAreOwn
    <2>7. /\ added' = [f \in Escalation |-> added'[f]]
          /\ \A f \in Escalation : added'[f] = IF f = e THEN 1 ELSE added[f]
      <3>1. e \in Escalation => added[e] = 0
        BY <2>5 DEF QueueInv, AddsAreOwn
      <3>2. added = [f \in Escalation |-> added[f]]
        BY DEF QueueInv, QueuedHasRow
      <3> QED  BY <2>1, <3>1, <3>2
    <2>8. AddsAreOwn'
      <3>1. \A t \in Scanners : scan'[t].at = "add" => Head(scan'[t].todo) \in escalations'
        BY <2>1, <2>2, <2>4 DEF QueueInv, AddsAreOwn
      <3>2. \A t, u \in Scanners, f \in Escalation : Adding(t, f)' /\ Adding(u, f)' => t = u
        BY <2>4, <2>5 DEF QueueInv, AddsAreOwn
      <3>3. \A t \in Scanners, f \in Escalation : Adding(t, f)' => added'[f] = 0
        BY <2>4, <2>5, <2>6, <2>7 DEF QueueInv, AddsAreOwn
      <3> QED  BY <3>1, <3>2, <3>3 DEF AddsAreOwn
    <2>9. e \in escalations
      BY <2>1 DEF QueueInv, AddsAreOwn, e
    <2>10. QueuedHasRow'
      BY <2>1, <2>7, <2>9 DEF QueueInv, QueuedHasRow
    <2>11. RowsAccounted'
      BY <2>1, <2>4, <2>5, <2>7 DEF QueueInv, RowsAccounted
    <2> QED  BY <2>4, <2>8, <2>10, <2>11 DEF QueueInv
  <1>8. ASSUME NEW s \in Scanners, ScanEnds(s) PROVE QueueInv'
    <2>1. ScanRecord(NoScan) /\ NoScan.at # "add"
      BY DEF ScanRecord, NoScan
    <2> QED  BY <1>8, <2>1, ScanGoesOn DEF ScanEnds
  <1>9. ASSUME NEW s \in Scanners, ScanFails(s) PROVE QueueInv'
    <2> DEFINE e == Head(scan[s].todo)
    <2>1. ScanRecord(NoScan) /\ NoScan.at # "add"
      BY DEF ScanRecord, NoScan
    <2>2. /\ UNCHANGED <<escalations, added>> /\ scan' = [scan EXCEPT ![s] = NoScan]
          /\ unqueued' = IF scan[s].at = "add" THEN unqueued \cup {e} ELSE unqueued
      BY <1>9 DEF ScanFails
    <2>3. CASE scan[s].at # "add"
      BY <2>1, <2>2, <2>3, ScanGoesOn
    <2>4. CASE scan[s].at = "add"
      <3>1. /\ ScanShape' /\ scan'[s] = NoScan
            /\ \A t \in Scanners \ {s} : scan'[t] = scan[t]
            /\ \A t \in Scanners \ {s} : \A f : Adding(t, f)' <=> Adding(t, f)
        BY <1>0, <2>1, <2>2, ScanMoves
      <3>2. \A f : ~Adding(s, f)' /\ (Adding(s, f) <=> f = e)
        BY <2>1, <2>4, <3>1 DEF Adding
      <3>3. e \in escalations
        BY <2>4 DEF QueueInv, AddsAreOwn
      <3> HIDE DEF e
      <3>4. AddsAreOwn'
        <4>1. \A t \in Scanners : scan'[t].at = "add" => Head(scan'[t].todo) \in escalations'
          BY <2>1, <2>2, <3>1 DEF QueueInv, AddsAreOwn
        <4>2. \A t, u \in Scanners, f \in Escalation : Adding(t, f)' /\ Adding(u, f)' => t = u
          BY <3>1, <3>2 DEF QueueInv, AddsAreOwn
        <4>3. \A t \in Scanners, f \in Escalation : Adding(t, f)' => added'[f] = 0
          BY <2>2, <3>1, <3>2 DEF QueueInv, AddsAreOwn
        <4> QED  BY <4>1, <4>2, <4>3 DEF AddsAreOwn
      <3>5. QueuedHasRow'
        BY <2>2, <2>4, <3>3 DEF QueueInv, QueuedHasRow
      <3>6. RowsAccounted'
        BY <2>2, <2>4, <3>1, <3>2 DEF QueueInv, RowsAccounted
      <3> QED  BY <3>1, <3>4, <3>5, <3>6 DEF QueueInv
    <2> QED  BY <2>3, <2>4
  <1>10. ASSUME NEW j \in deliveries,
                TellContact(j) \/ PassOver(j) \/ DeliveryEnds(j) \/ DeliveryStalls(j)
         PROVE  QueueInv'
    BY <1>1, <1>10 DEF TellContact, PassOver, DeliveryEnds, DeliveryStalls
  <1>11. CASE UNCHANGED alertVars
    BY <1>1, <1>11 DEF alertVars
  <1> QED
    BY <1>2, <1>3, <1>4, <1>5, <1>6, <1>7, <1>8, <1>9, <1>10, <1>11 DEF AlertNext, ScanStep

\* QueuedOnce: an escalation's job is added at most once, however many scans overlap, and its row is
\* there exactly if it was added, is about to be, or was lost with its scan
\* (escalationService.ts:46-64): the row is written by one scan only, which holds the pair alone.
THEOREM EscalationQueuedOnce == AlertSpec => []QueuedOnce
  BY QueueInvImplies, QueueInit, QueueStep, PTL DEF AlertSpec

-----------------------------------------------------------------------------
(* A delivery tries every contact.                                         *)

DeliveryRecord(j) ==
    j \in [alert : {j.alert}, tier : {j.tier}, next : 1..(Len(Contacts) + 1), failed : BOOLEAN,
          stalled : BOOLEAN]

\* The contact was told on behalf of the job, and served unless the job remembers a failure; or it
\* is one of those the worker passes over.
Tried(j, contact, log) ==
    \/ contact \in SmsContacts
    \/ <<j.alert, j.tier, contact, TRUE>> \in log
    \/ j.failed /\ <<j.alert, j.tier, contact, FALSE>> \in log

\* A job that stands at one contact has been through all that come before.
DeliveryInv ==
    /\ \A j \in deliveries : DeliveryRecord(j)
    /\ \A j \in deliveries : \A i \in 1..(j.next - 1) : Tried(j, Contacts[i], told)
    /\ EveryContactTried

LEMMA DeliveryInit == AlertInit => DeliveryInv
  BY DEF AlertInit, DeliveryInv, EveryContactTried

\* What a job becomes that has tried a contact.
AfterContact(j, served) == [j EXCEPT !.next = @ + 1, !.failed = @ \/ ~served]

LEMMA DeliveryGoesOn ==
    ASSUME NEW j, DeliveryRecord(j), j.next <= Len(Contacts), NEW served \in BOOLEAN
    PROVE  /\ DeliveryRecord(AfterContact(j, served))
           /\ AfterContact(j, served).next = j.next + 1
           /\ AfterContact(j, served).failed <=> j.failed \/ ~served
           /\ AfterContact(j, served).alert = j.alert /\ AfterContact(j, served).tier = j.tier
  <1> DEFINE x == [j EXCEPT !.next = j.next + 1]
  <1>1. /\ DeliveryRecord(x) /\ x.next = j.next + 1 /\ x.failed = j.failed
        /\ x.alert = j.alert /\ x.tier = j.tier
    BY AlertAssumption DEF DeliveryRecord
  <1>2. CASE served
    <2>1. j.failed \in BOOLEAN
      BY DEF DeliveryRecord
    <2>2. (j.failed \/ ~served) = j.failed
      BY <1>2, <2>1
    <2>3. AfterContact(j, served) = [x EXCEPT !.failed = x.failed]
      BY <1>1, <2>2 DEF AfterContact
    <2> HIDE DEF x
    <2>4. [x EXCEPT !.failed = x.failed] = x
      BY <1>1 DEF DeliveryRecord
    <2> QED  BY <1>1, <1>2, <2>3, <2>4
  <1>3. CASE ~served
    <2>1. AfterContact(j, served) = [x EXCEPT !.failed = TRUE]
      BY <1>3 DEF AfterContact
    <2> HIDE DEF x
    <2>2. /\ DeliveryRecord([x EXCEPT !.failed = TRUE]) /\ [x EXCEPT !.failed = TRUE].next = x.next
          /\ [x EXCEPT !.failed = TRUE].failed
          /\ [x EXCEPT !.failed = TRUE].alert = x.alert /\ [x EXCEPT !.failed = TRUE].tier = x.tier
      BY <1>1 DEF DeliveryRecord
    <2> QED  BY <1>1, <1>3, <2>1, <2>2
  <1> QED  BY <1>2, <1>3

\* A job is put back to begin again.
LEMMA DeliveryRestarts ==
    ASSUME NEW j, DeliveryRecord(j)
    PROVE  /\ DeliveryRecord([j EXCEPT !.next = 1, !.failed = FALSE, !.stalled = TRUE])
           /\ [j EXCEPT !.next = 1, !.failed = FALSE, !.stalled = TRUE].next = 1
  <1> DEFINE x == [j EXCEPT !.next = 1]
             y == [x EXCEPT !.failed = FALSE]
  <1>1. DeliveryRecord(x) /\ x.next = 1
    BY AlertAssumption DEF DeliveryRecord
  <1>2. [j EXCEPT !.next = 1, !.failed = FALSE, !.stalled = TRUE] = [y EXCEPT !.stalled = TRUE]
    OBVIOUS
  <1> HIDE DEF x
  <1>3. DeliveryRecord(y) /\ y.next = 1
    BY <1>1 DEF DeliveryRecord
  <1> HIDE DEF y
  <1>4. DeliveryRecord([y EXCEPT !.stalled = TRUE]) /\ [y EXCEPT !.stalled = TRUE].next = 1
    BY <1>3 DEF DeliveryRecord
  <1> QED  BY <1>2, <1>4

\* The log only grows, and the jobs that ended stay accounted for.
LEMMA ToldGrows ==
    ASSUME DeliveryInv, told \subseteq told', UNCHANGED ended
    PROVE  /\ EveryContactTried'
           /\ \A j \in deliveries : \A i \in 1..(j.next - 1) : Tried(j, Contacts[i], told')
  BY DEF DeliveryInv, EveryContactTried, Tried

LEMMA DeliveryStep == DeliveryInv /\ [AlertNext]_alertVars => DeliveryInv'
  <1> SUFFICES ASSUME DeliveryInv, [AlertNext]_alertVars PROVE DeliveryInv'
    OBVIOUS
  <1>1. ASSUME UNCHANGED <<deliveries, told, ended>> PROVE DeliveryInv'
    BY <1>1 DEF DeliveryInv, EveryContactTried
  <1>2. ASSUME NEW k \in DedupKeys \cup {NoKey}, IngestAlert(k) PROVE DeliveryInv'
    BY <1>1, <1>2 DEF IngestAlert
  <1>3. ASSUME NEW i \in DOMAIN alertRows, Acknowledge(i) \/ Resolve(i) PROVE DeliveryInv'
    BY <1>1, <1>3 DEF Acknowledge, Resolve, SetAlertStatus
  <1>4. ASSUME Age PROVE DeliveryInv'
    BY <1>1, <1>4 DEF Age
  <1>5. ASSUME NEW s \in Scanners, ListAlerts(s) \/ EscalatePair(s) \/ ScanEnds(s) \/ ScanFails(s)
        PROVE  DeliveryInv'
    BY <1>1, <1>5 DEF ListAlerts, EscalatePair, ScanEnds, ScanFails
  <1>6. ASSUME NEW s \in Scanners, AddDelivery(s) PROVE DeliveryInv'
    <2> DEFINE e == Head(scan[s].todo)
               j == [alert |-> e[1], tier |-> e[2], next |-> 1, failed |-> FALSE, stalled |-> FALSE]
    <2>1. deliveries' = deliveries \cup {j} /\ UNCHANGED <<told, ended>>
      BY <1>6 DEF AddDelivery
    <2>2. DeliveryRecord(j) /\ j.next = 1
      BY AlertAssumption DEF DeliveryRecord
    <2> HIDE DEF j
    <2>3. \A k \in deliveries' : \A i \in 1..(k.next - 1) : Tried(k, Contacts[i], told')
      BY <2>1, <2>2 DEF DeliveryInv
    <2>4. EveryContactTried'
      BY <2>1, ToldGrows
    <2> QED  BY <2>1, <2>2, <2>3, <2>4 DEF DeliveryInv
  <1>7. ASSUME NEW j \in deliveries, TellContact(j) PROVE DeliveryInv'
    <2>1. PICK served \in BOOLEAN :
            /\ told' = told \cup {<<j.alert, j.tier, Contacts[j.next], served>>}
            /\ deliveries' = (deliveries \ {j}) \cup {AfterContact(j, served)}
      BY <1>7 DEF TellContact, AfterContact
    <2>2. /\ DeliveryRecord(j) /\ j.next <= Len(Contacts) /\ Len(Contacts) \in Nat
          /\ j.next \in Nat /\ UNCHANGED ended
      BY <1>7, AlertAssumption DEF TellContact, DeliveryInv, DeliveryRecord
    <2> DEFINE k == AfterContact(j, served)
    <2>3. /\ DeliveryRecord(k) /\ k.next = j.next + 1 /\ (k.failed <=> j.failed \/ ~served)
          /\ k.alert = j.alert /\ k.tier = j.tier
      BY <2>2, DeliveryGoesOn
    <2>4. deliveries' = (deliveries \ {j}) \cup {k}
      BY <2>1
    <2> HIDE DEF k
    <2>5. Tried(k, Contacts[j.next], told')
      <3>1. CASE served = TRUE
        BY <2>1, <2>3, <3>1 DEF Tried
      <3>2. CASE served = FALSE
        BY <2>1, <2>3, <3>2 DEF Tried
      <3> QED  BY <3>1, <3>2
    <2>6. \A i \in 1..(j.next - 1) : Tried(k, Contacts[i], told')
      BY <2>1, <2>3 DEF DeliveryInv, Tried
    <2>7. \A i \in 1..(k.next - 1) : i = j.next \/ i \in 1..(j.next - 1)
      BY <2>2, <2>3
    <2>8. \A i \in 1..(k.next - 1) : Tried(k, Contacts[i], told')
      BY <2>5, <2>6, <2>7
    <2>9. /\ EveryContactTried'
          /\ \A l \in deliveries : \A i \in 1..(l.next - 1) : Tried(l, Contacts[i], told')
      BY <2>1, <2>2, ToldGrows
    <2> QED  BY <2>3, <2>4, <2>8, <2>9 DEF DeliveryInv
  <1>8. ASSUME NEW j \in deliveries, DeliveryEnds(j) PROVE DeliveryInv'
    <2> DEFINE d == [alert |-> j.alert, tier |-> j.tier,
                     result |-> IF j.failed THEN "failed" ELSE "completed"]
    <2>1. /\ deliveries' = deliveries \ {j} /\ UNCHANGED told /\ ended' = ended \cup {d}
          /\ j.next > Len(Contacts)
      BY <1>8 DEF DeliveryEnds, EndDelivery
    <2>2. \A i \in DOMAIN Contacts : i \in 1..(j.next - 1)
      BY <2>1, AlertAssumption DEF DeliveryInv, DeliveryRecord
    <2>3. \A i \in DOMAIN Contacts : Tried(j, Contacts[i], told)
      BY <2>2 DEF DeliveryInv
    <2>4. \A i \in DOMAIN Contacts : Contacts[i] \notin SmsContacts =>
            /\ d.result = "completed" => <<d.alert, d.tier, Contacts[i], TRUE>> \in told
            /\ d.result = "failed" =>
                    \E served \in BOOLEAN : <<d.alert, d.tier, Contacts[i], served>> \in told
      BY <2>3 DEF Tried
    <2> HIDE DEF d
    <2>5. EveryContactTried'
      BY <2>1, <2>4 DEF DeliveryInv, EveryContactTried
    <2> QED  BY <2>1, <2>5 DEF DeliveryInv
  <1>9. ASSUME NEW j \in deliveries, DeliveryStalls(j) PROVE DeliveryInv'
    <2>1. CASE j.stalled
      <3> DEFINE d == [alert |-> j.alert, tier |-> j.tier, result |-> "lost"]
      <3>1. deliveries' = deliveries \ {j} /\ UNCHANGED told /\ ended' = ended \cup {d}
        BY <1>9, <2>1 DEF DeliveryStalls, EndDelivery
      <3>2. d.result = "lost"
        OBVIOUS
      <3> HIDE DEF d
      <3>3. EveryContactTried'
        BY <3>1, <3>2 DEF DeliveryInv, EveryContactTried
      <3>4. \A k \in deliveries' : \A i \in 1..(k.next - 1) : Tried(k, Contacts[i], told')
        BY <3>1 DEF DeliveryInv
      <3> QED  BY <3>1, <3>3, <3>4 DEF DeliveryInv
    <2>2. CASE ~j.stalled
      <3> DEFINE k == [j EXCEPT !.next = 1, !.failed = FALSE, !.stalled = TRUE]
      <3>1. deliveries' = (deliveries \ {j}) \cup {k} /\ UNCHANGED <<told, ended>>
        BY <1>9, <2>2 DEF DeliveryStalls
      <3>2. DeliveryRecord(k) /\ k.next = 1
        BY DeliveryRestarts DEF DeliveryInv
      <3> HIDE DEF k
      <3>3. EveryContactTried'
        BY <3>1, ToldGrows
      <3>4. \A l \in deliveries' : \A i \in 1..(l.next - 1) : Tried(l, Contacts[i], told')
        BY <3>1, <3>2 DEF DeliveryInv
      <3> QED  BY <3>1, <3>2, <3>3, <3>4 DEF DeliveryInv
    <2> QED  BY <2>1, <2>2
  <1>10. ASSUME NEW j \in deliveries, PassOver(j) PROVE DeliveryInv'
    <2> DEFINE k == [j EXCEPT !.next = j.next + 1]
    <2>1. /\ DeliveryRecord(j) /\ j.next <= Len(Contacts) /\ Len(Contacts) \in Nat
          /\ j.next \in Nat /\ Contacts[j.next] \in SmsContacts
          /\ deliveries' = (deliveries \ {j}) \cup {k} /\ UNCHANGED <<told, ended>>
      BY <1>10, AlertAssumption DEF PassOver, DeliveryInv, DeliveryRecord
    <2>2. /\ DeliveryRecord(k) /\ k.next = j.next + 1 /\ k.failed = j.failed
          /\ k.alert = j.alert /\ k.tier = j.tier
      BY <2>1 DEF DeliveryRecord
    <2> HIDE DEF k
    <2>3. \A i \in 1..(k.next - 1) : i = j.next \/ i \in 1..(j.next - 1)
      BY <2>1, <2>2
    <2>4. \A i \in 1..(k.next - 1) : Tried(k, Contacts[i], told')
      BY <2>1, <2>2, <2>3 DEF DeliveryInv, Tried
    <2>5. EveryContactTried'
      BY <2>1, ToldGrows
    <2> QED  BY <2>1, <2>2, <2>4, <2>5 DEF DeliveryInv
  <1>11. CASE UNCHANGED alertVars
    BY <1>1, <1>11 DEF alertVars
  <1> QED
    BY <1>2, <1>3, <1>4, <1>5, <1>6, <1>7, <1>8, <1>9, <1>10, <1>11 DEF AlertNext, ScanStep

\* EveryContactTried: a delivery that ends on its own has tried every e-mail and webhook contact, and
\* one that ends well has served them all (escalationDeliveryWorker.ts:31-55), for any contacts, those
\* it passes over among them, and any number of jobs, failures and restarts.
THEOREM DeliveryTriesEveryone == AlertSpec => []EveryContactTried
  <1>1. DeliveryInv => EveryContactTried
    BY DEF DeliveryInv
  <1> QED  BY DeliveryInit, DeliveryStep, <1>1, PTL DEF AlertSpec
-----------------------------------------------------------------------------
(* Types of the alerts, the scans and the delivery jobs.                   *)

AlertRow == [key : DedupKeys \cup {NoKey}, status : {"new", "acknowledged", "resolved"},
             fires : 1..MaxFires, firedAt : 0..MaxAge]
ScanState == [at : {"idle", "pair", "add"}, now : 0..MaxAge, todo : Seq(Escalation)]
DeliveryJob == [alert : 1..MaxAlerts, tier : Tiers, next : 1..(Len(Contacts) + 1),
                failed : BOOLEAN, stalled : BOOLEAN]

RowsOK == alertRows \in Seq(AlertRow) /\ Len(alertRows) <= MaxAlerts /\ alertClock \in 0..MaxAge

\* A scan that is about to give a pair to the queue has the pair at the head of its list.
ScansOK == /\ scan \in [Scanners -> ScanState]
           /\ \A s \in Scanners : scan[s].at = "add" => scan[s].todo # <<>>

JobsOK == /\ escalations \subseteq Escalation /\ unqueued \subseteq Escalation
          /\ deliveries \subseteq DeliveryJob
          /\ added \in [Escalation -> Nat]

AlertTypeInv == RowsOK /\ ScansOK /\ JobsOK

LEMMA AlertTypeInit == AlertInit => AlertTypeInv
  <1> SUFFICES ASSUME AlertInit PROVE AlertTypeInv
    OBVIOUS
  <1>1. <<>> \in Seq(AlertRow) /\ Len(<<>>) = 0 /\ <<>> \in Seq(Escalation)
    BY EmptySeq
  <1>2. 0 \in 0..MaxAge /\ MaxAlerts \in Nat
    BY EscalationAssumption
  <1>3. RowsOK
    BY <1>1, <1>2 DEF AlertInit, RowsOK
  <1>4. NoScan \in ScanState /\ NoScan.at # "add"
    BY <1>1, <1>2 DEF NoScan, ScanState
  <1>5. ScansOK
    BY <1>4 DEF AlertInit, ScansOK
  <1> QED  BY <1>3, <1>5 DEF AlertTypeInv, JobsOK, AlertInit

\* The pairs of a scan's list, and what is left of it.
LEMMA ScanPairs ==
    ASSUME ScansOK, NEW s \in Scanners, scan[s].todo # <<>>
    PROVE  Head(scan[s].todo) \in Escalation /\ Tail(scan[s].todo) \in Seq(Escalation)
  <1>1. scan[s].todo \in Seq(Escalation)
    BY DEF ScansOK, ScanState
  <1> QED  BY <1>1, HeadTailProperties

LEMMA ScanBecomes ==
    ASSUME ScansOK, NEW s \in Scanners, NEW x \in ScanState, x.at = "add" => x.todo # <<>>,
           scan' = [scan EXCEPT ![s] = x]
    PROVE  ScansOK'
  BY DEF ScansOK

LEMMA ScanParts ==
    ASSUME NEW x \in ScanState, NEW at \in {"idle", "pair", "add"}, NEW todo \in Seq(Escalation)
    PROVE  /\ [x EXCEPT !.at = at] \in ScanState /\ [x EXCEPT !.at = at].at = at
           /\ [x EXCEPT !.at = at].todo = x.todo
           /\ [x EXCEPT !.todo = todo] \in ScanState /\ [x EXCEPT !.todo = todo].at = x.at
  BY DEF ScanState

\* A row changes in place.
LEMMA RowChanges ==
    ASSUME RowsOK, NEW i \in DOMAIN alertRows, NEW row \in AlertRow,
           alertRows' = [alertRows EXCEPT ![i] = row], alertClock' = alertClock
    PROVE  RowsOK'
  <1>1. i \in 1..Len(alertRows) /\ alertRows \in Seq(AlertRow)
    BY LenProperties DEF RowsOK
  <1> QED  BY <1>1, ExceptSeq DEF RowsOK

LEMMA RowsTyped ==
    ASSUME RowsOK, NEW i \in DOMAIN alertRows
    PROVE  alertRows[i] \in AlertRow /\ i \in 1..MaxAlerts
  <1>1. alertRows \in [1..Len(alertRows) -> AlertRow] /\ Len(alertRows) \in Nat
    BY LenProperties DEF RowsOK
  <1> QED  BY <1>1, EscalationAssumption DEF RowsOK

LEMMA IngestTypes ==
    ASSUME RowsOK, NEW k \in DedupKeys \cup {NoKey}, IngestAlert(k)
    PROVE  RowsOK'
  <1>0. alertClock' = alertClock
    BY DEF IngestAlert
  <1>1. ASSUME NEW i \in OpenRow(k), alertRows[i].fires < MaxFires,
               alertRows' = [alertRows EXCEPT ![i].fires = @ + 1]
        PROVE  RowsOK'
    <2>1. i \in DOMAIN alertRows /\ alertRows[i] \in AlertRow
      BY <1>1, RowsTyped DEF OpenRow
    <2> DEFINE row == [alertRows[i] EXCEPT !.fires = alertRows[i].fires + 1]
    <2>2. row \in AlertRow
      BY <1>1, <2>1, AlertAssumption DEF AlertRow
    <2>3. alertRows' = [alertRows EXCEPT ![i] = row]
      BY <1>1
    <2> HIDE DEF row
    <2> QED  BY <1>0, <2>1, <2>2, <2>3, RowChanges
  <1>2. ASSUME Len(alertRows) < MaxAlerts,
               alertRows' = Append(alertRows, [key |-> k, status |-> "new", fires |-> 1,
                                               firedAt |-> alertClock])
        PROVE  RowsOK'
    <2> DEFINE row == [key |-> k, status |-> "new", fires |-> 1, firedAt |-> alertClock]
    <2>1. row \in AlertRow
      BY AlertAssumption DEF AlertRow, RowsOK
    <2> HIDE DEF row
    <2>2. /\ Append(alertRows, row) \in Seq(AlertRow)
          /\ Len(Append(alertRows, row)) = Len(alertRows) + 1
      BY <2>1, AppendProperties DEF RowsOK
    <2>3. alertRows' = Append(alertRows, row)
      BY <1>2 DEF row
    <2>4. Len(alertRows) \in Nat
      BY LenProperties DEF RowsOK
    <2> QED  BY <1>0, <1>2, <2>2, <2>3, <2>4, EscalationAssumption DEF RowsOK
  <1> QED  BY <1>1, <1>2 DEF IngestAlert

LEMMA StatusTypes ==
    ASSUME RowsOK, NEW i \in DOMAIN alertRows, Acknowledge(i) \/ Resolve(i)
    PROVE  RowsOK'
  <1>1. PICK to \in {"acknowledged", "resolved"} :
            alertRows' = [alertRows EXCEPT ![i].status = to] /\ alertClock' = alertClock
    BY DEF Acknowledge, Resolve, SetAlertStatus
  <1> DEFINE row == [alertRows[i] EXCEPT !.status = to]
  <1>2. row \in AlertRow
    BY RowsTyped DEF AlertRow
  <1>3. alertRows' = [alertRows EXCEPT ![i] = row]
    BY <1>1
  <1> HIDE DEF row
  <1> QED  BY <1>1, <1>2, <1>3, RowChanges

\* The j-th of c times n pairs: the alert's place and the rule's.
LEMMA PairsInRange ==
    ASSUME NEW c \in Nat, NEW n \in Nat, NEW j \in 1..(c * n)
    PROVE  ((j - 1) \div n) + 1 \in 1..c /\ ((j - 1) % n) + 1 \in 1..n
  <1>1. n \in Nat \ {0}
    <2>1. ASSUME n = 0 PROVE FALSE
      <3>1. c * 0 = 0
        OBVIOUS
      <3>2. j \in 1..0
        BY <2>1, <3>1
      <3> QED  BY <3>2
    <2> QED  BY <2>1
  <1> DEFINE t == j - 1
             q == t \div n
  <1>2. c * n \in Nat /\ t \in Nat /\ t < c * n
    OBVIOUS
  <1>3. q \in Nat /\ n * q <= t
    BY <1>1, <1>2, DivisionBounds
  <1>4. t % n \in 0..(n - 1)
    BY <1>1, <1>2
  <1> HIDE DEF q
  <1>5. q < c
    <2>1. ASSUME c <= q PROVE FALSE
      <3>1. n * c <= n * q
        BY <1>1, <1>3, <2>1, ProductMonotone
      <3>2. n * c = c * n /\ n * q \in Nat
        BY <1>1, <1>3
      <3> HIDE DEF t
      <3> QED  BY <1>2, <1>3, <3>1, <3>2
    <2> QED  BY <1>3, <2>1
  <1>6. q + 1 \in 1..c
    BY <1>3, <1>5
  <1>7. (t % n) + 1 \in 1..n
    BY <1>1, <1>4
  <1> QED  BY <1>6, <1>7 DEF q

\* The list that a scan reads pairs alerts that exist with tiers that exist.
LEMMA ListTypes ==
    ASSUME RowsOK, ScansOK, NEW s \in Scanners, ListAlerts(s)
    PROVE  ScansOK'
  <1> DEFINE new == {i \in DOMAIN alertRows : alertRows[i].status = "new"}
             c == Cardinality(new)
             n == Len(Threshold)
  <1>1. PICK open \in [1..c -> new] :
            scan' = [scan EXCEPT ![s] = [at |-> "pair", now |-> alertClock,
                todo |-> [j \in 1..(c * n) |->
                            <<open[((j - 1) \div n) + 1], ((j - 1) % n) + 1>>]]]
    BY DEF ListAlerts
  <1>2. new \subseteq 1..MaxAlerts
    BY RowsTyped
  <1>3. c \in Nat
    <2>1. IsFiniteSet(1..MaxAlerts)
      BY FS_Interval, EscalationAssumption
    <2>2. IsFiniteSet(new)
      BY <1>2, <2>1, FS_Subset
    <2> QED  BY <2>2, FS_CardinalityType
  <1>4. n \in Nat /\ Tiers = 1..n
    BY EscalationAssumption, LenProperties DEF Tiers
  <1> HIDE DEF new, c, n
  <1> DEFINE pair(j) == <<open[((j - 1) \div n) + 1], ((j - 1) % n) + 1>>
             todo == [j \in 1..(c * n) |-> pair(j)]
             x == [at |-> "pair", now |-> alertClock, todo |-> todo]
  <1>5. ASSUME NEW j \in 1..(c * n) PROVE pair(j) \in Escalation
    <2>1. ((j - 1) \div n) + 1 \in 1..c /\ ((j - 1) % n) + 1 \in 1..n
      BY <1>3, <1>4, PairsInRange
    <2>2. open[((j - 1) \div n) + 1] \in new
      BY <1>1, <2>1
    <2> QED  BY <1>2, <1>4, <2>1, <2>2 DEF Escalation
  <1> HIDE DEF pair
  <1>6. todo \in Seq(Escalation)
    <2>1. c * n \in Nat
      BY <1>3, <1>4
    <2>2. todo \in [1..(c * n) -> Escalation]
      BY <1>5
    <2> QED  BY <2>1, <2>2, SeqDef
  <1> HIDE DEF todo
  <1>7. x \in ScanState /\ x.at = "pair"
    BY <1>6 DEF ScanState, RowsOK
  <1> HIDE DEF x
  <1>8. scan' = [scan EXCEPT ![s] = x]
    BY <1>1 DEF x, todo, pair
  <1> QED  BY <1>7, <1>8, ScanBecomes

LEMMA EscalateTypes ==
    ASSUME ScansOK, JobsOK, NEW s \in Scanners, EscalatePair(s)
    PROVE  ScansOK' /\ escalations' \subseteq Escalation
  <1>0. scan[s] \in ScanState /\ scan[s].todo # <<>> /\ scan[s].at = "pair"
    BY DEF ScansOK, EscalatePair
  <1>1. Head(scan[s].todo) \in Escalation /\ Tail(scan[s].todo) \in Seq(Escalation)
    BY <1>0, ScanPairs
  <1> DEFINE e == Head(scan[s].todo)
             toAdd == [scan[s] EXCEPT !.at = "add"]
             goOn == [scan[s] EXCEPT !.todo = Tail(scan[s].todo)]
  <1>2. toAdd \in ScanState /\ toAdd.todo = scan[s].todo
    BY <1>0, <1>1, ScanParts
  <1>3. goOn \in ScanState /\ goOn.at = "pair"
    BY <1>0, <1>1, ScanParts
  <1> HIDE DEF e
  <1>4. \/ /\ scan' = [scan EXCEPT ![s].at = "add"]
           /\ escalations' = escalations \cup {e}
        \/ scan' = [scan EXCEPT ![s].todo = Tail(@)] /\ escalations' = escalations
    BY DEF EscalatePair, e
  <1>5. scan' = [scan EXCEPT ![s] = toAdd] \/ scan' = [scan EXCEPT ![s] = goOn]
    BY <1>4
  <1> HIDE DEF toAdd, goOn
  <1>6. ScansOK'
    BY <1>0, <1>2, <1>3, <1>5, ScanBecomes
  <1>7. escalations' \subseteq Escalation
    BY <1>1, <1>4 DEF JobsOK, e
  <1> QED  BY <1>6, <1>7

LEMMA AddTypes ==
    ASSUME ScansOK, JobsOK, NEW s \in Scanners, AddDelivery(s)
    PROVE  ScansOK' /\ JobsOK'
  <1>0. scan[s] \in ScanState /\ scan[s].todo # <<>>
    BY DEF ScansOK, AddDelivery
  <1> DEFINE e == Head(scan[s].todo)
             rest == Tail(scan[s].todo)
             y == [scan[s] EXCEPT !.at = "pair"]
             x == [y EXCEPT !.todo = rest]
  <1>1. e \in Escalation /\ rest \in Seq(Escalation)
    BY <1>0, ScanPairs
  <1>2. y \in ScanState /\ y.at = "pair"
    BY <1>0, <1>1, ScanParts
  <1> HIDE DEF rest, y
  <1>3. x \in ScanState /\ x.at = "pair"
    BY <1>1, <1>2, ScanParts
  <1>4. scan' = [scan EXCEPT ![s] = x]
    <2>1. scan' = [scan EXCEPT ![s].at = "pair", ![s].todo = Tail(@)]
      BY DEF AddDelivery
    <2>3. x = [scan[s] EXCEPT !.at = "pair", !.todo = rest]
      BY <1>0 DEF y, ScanState
    <2>4. s \in DOMAIN scan
      BY DEF ScansOK
    <2> QED  BY <2>1, <2>3, <2>4 DEF rest
  <1> HIDE DEF x
  <1>5. ScansOK'
    BY <1>3, <1>4, ScanBecomes
  <1> DEFINE job == [alert |-> e[1], tier |-> e[2], next |-> 1, failed |-> FALSE, stalled |-> FALSE]
  <1>6. job \in DeliveryJob
    BY <1>1, AlertAssumption DEF DeliveryJob, Escalation
  <1>7. /\ added' = [added EXCEPT ![e] = @ + 1] /\ deliveries' = deliveries \cup {job}
        /\ UNCHANGED <<escalations, unqueued>>
    BY DEF AddDelivery
  <1> HIDE DEF job, e
  <1>8. JobsOK'
    BY <1>1, <1>6, <1>7 DEF JobsOK
  <1> QED  BY <1>5, <1>8

\* What a job becomes is a job.
LEMMA JobParts ==
    ASSUME NEW j \in DeliveryJob
    PROVE  /\ \A served \in BOOLEAN :
                  j.next <= Len(Contacts) =>
                    [j EXCEPT !.next = @ + 1, !.failed = @ \/ ~served] \in DeliveryJob
           /\ [j EXCEPT !.next = 1, !.failed = FALSE, !.stalled = TRUE] \in DeliveryJob
  <1>1. ASSUME NEW next \in 1..(Len(Contacts) + 1), NEW failed \in BOOLEAN, NEW stalled \in BOOLEAN
        PROVE  /\ [j EXCEPT !.next = next, !.failed = failed] \in DeliveryJob
               /\ [j EXCEPT !.next = next, !.failed = failed, !.stalled = stalled] \in DeliveryJob
    BY DEF DeliveryJob
  <1>2. ASSUME NEW served \in BOOLEAN, j.next <= Len(Contacts)
        PROVE  [j EXCEPT !.next = @ + 1, !.failed = @ \/ ~served] \in DeliveryJob
    <2>1. j.next + 1 \in 1..(Len(Contacts) + 1)
      BY <1>2, AlertAssumption DEF DeliveryJob
    <2> DEFINE failed == j.failed \/ ~served
    <2>2. failed \in BOOLEAN
      OBVIOUS
    <2> HIDE DEF failed
    <2>3. [j EXCEPT !.next = j.next + 1, !.failed = failed] \in DeliveryJob
      BY <1>1, <2>1, <2>2
    <2> QED  BY <2>3 DEF failed
  <1>3. 1 \in 1..(Len(Contacts) + 1)
    BY AlertAssumption
  <1> QED  BY <1>1, <1>2, <1>3

LEMMA JobTypes ==
    ASSUME JobsOK, NEW j \in deliveries,
           TellContact(j) \/ PassOver(j) \/ DeliveryEnds(j) \/ DeliveryStalls(j)
    PROVE  JobsOK'
  <1>0. j \in DeliveryJob /\ UNCHANGED <<escalations, unqueued, added>>
    BY DEF JobsOK, TellContact, PassOver, DeliveryEnds, DeliveryStalls
  <1>1. CASE TellContact(j)
    <2>1. PICK served \in BOOLEAN :
            deliveries' = (deliveries \ {j}) \cup
                {[j EXCEPT !.next = @ + 1, !.failed = @ \/ ~served]}
      BY <1>1 DEF TellContact
    <2> DEFINE job == [j EXCEPT !.next = @ + 1, !.failed = @ \/ ~served]
    <2>2. job \in DeliveryJob
      BY <1>0, <1>1, JobParts DEF TellContact
    <2> HIDE DEF job
    <2>3. deliveries' = (deliveries \ {j}) \cup {job}
      BY <2>1 DEF job
    <2> QED  BY <1>0, <2>2, <2>3 DEF JobsOK
  <1>2. CASE DeliveryEnds(j)
    BY <1>0, <1>2 DEF DeliveryEnds, JobsOK
  <1>3. CASE DeliveryStalls(j)
    <2> DEFINE job == [j EXCEPT !.next = 1, !.failed = FALSE, !.stalled = TRUE]
    <2>1. job \in DeliveryJob
      BY <1>0, JobParts
    <2>2. \/ deliveries' = deliveries \ {j}
          \/ deliveries' = (deliveries \ {j}) \cup {job}
      BY <1>3 DEF DeliveryStalls
    <2> HIDE DEF job
    <2> QED  BY <1>0, <2>1, <2>2 DEF JobsOK
  <1>4. CASE PassOver(j)
    <2>1. j.next + 1 \in 1..(Len(Contacts) + 1)
      BY <1>0, <1>4, AlertAssumption DEF PassOver, DeliveryJob
    <2> DEFINE job == [j EXCEPT !.next = j.next + 1]
    <2>2. job \in DeliveryJob
      BY <1>0, <2>1 DEF DeliveryJob
    <2>3. deliveries' = (deliveries \ {j}) \cup {job}
      BY <1>4 DEF PassOver
    <2> HIDE DEF job
    <2> QED  BY <1>0, <2>2, <2>3 DEF JobsOK
  <1> QED  BY <1>1, <1>2, <1>3, <1>4

LEMMA AlertTypeStep == AlertTypeInv /\ [AlertNext]_alertVars => AlertTypeInv'
  <1> SUFFICES ASSUME AlertTypeInv, [AlertNext]_alertVars PROVE AlertTypeInv'
    OBVIOUS
  <1>0. RowsOK /\ ScansOK /\ JobsOK
    BY DEF AlertTypeInv
  <1>1. ASSUME UNCHANGED <<alertRows, alertClock>> PROVE RowsOK'
    BY <1>0, <1>1 DEF RowsOK
  <1>2. ASSUME UNCHANGED scan PROVE ScansOK'
    BY <1>0, <1>2 DEF ScansOK
  <1>3. ASSUME UNCHANGED <<escalations, unqueued, deliveries, added>> PROVE JobsOK'
    BY <1>0, <1>3 DEF JobsOK
  <1>4. ASSUME NEW k \in DedupKeys \cup {NoKey}, IngestAlert(k) PROVE AlertTypeInv'
    BY <1>0, <1>2, <1>3, <1>4, IngestTypes DEF IngestAlert, AlertTypeInv
  <1>5. ASSUME NEW i \in DOMAIN alertRows, Acknowledge(i) \/ Resolve(i) PROVE AlertTypeInv'
    BY <1>0, <1>2, <1>3, <1>5, StatusTypes DEF Acknowledge, Resolve, SetAlertStatus, AlertTypeInv
  <1>6. CASE Age
    <2>1. RowsOK'
      BY <1>0, <1>6, EscalationAssumption DEF Age, RowsOK
    <2> QED  BY <1>2, <1>3, <1>6, <2>1 DEF Age, AlertTypeInv
  <1>7. ASSUME NEW s \in Scanners, ListAlerts(s) PROVE AlertTypeInv'
    <2>1. UNCHANGED <<alertRows, alertClock, escalations, unqueued, deliveries, added>>
      BY <1>7 DEF ListAlerts
    <2> QED  BY <1>0, <1>1, <1>3, <1>7, <2>1, ListTypes DEF AlertTypeInv
  <1>8. ASSUME NEW s \in Scanners, EscalatePair(s) PROVE AlertTypeInv'
    <2>1. UNCHANGED <<alertRows, alertClock, unqueued, deliveries, added>>
      BY <1>8 DEF EscalatePair
    <2>2. ScansOK' /\ escalations' \subseteq Escalation
      BY <1>0, <1>8, EscalateTypes
    <2> QED  BY <1>0, <1>1, <2>1, <2>2 DEF JobsOK, AlertTypeInv
  <1>9. ASSUME NEW s \in Scanners, AddDelivery(s) PROVE AlertTypeInv'
    BY <1>0, <1>1, <1>9, AddTypes DEF AddDelivery, AlertTypeInv
  <1>10. ASSUME NEW s \in Scanners, ScanEnds(s) \/ ScanFails(s) PROVE AlertTypeInv'
    <2>1. /\ scan' = [scan EXCEPT ![s] = NoScan]
          /\ UNCHANGED <<alertRows, alertClock, escalations, deliveries, added>>
      BY <1>10 DEF ScanEnds, ScanFails
    <2>2. NoScan \in ScanState /\ NoScan.at # "add"
      BY EmptySeq, EscalationAssumption DEF NoScan, ScanState
    <2>3. ScansOK'
      BY <1>0, <2>1, <2>2, ScanBecomes
    <2>4. \/ unqueued' = unqueued
          \/ scan[s].at = "add" /\ unqueued' = unqueued \cup {Head(scan[s].todo)}
      BY <1>10 DEF ScanEnds, ScanFails
    <2>5. scan[s].at = "add" => Head(scan[s].todo) \in Escalation
      BY <1>0, ScanPairs DEF ScansOK
    <2>6. unqueued' \subseteq Escalation
      BY <1>0, <2>4, <2>5 DEF JobsOK
    <2> QED  BY <1>0, <1>1, <2>1, <2>3, <2>6 DEF JobsOK, AlertTypeInv
  <1>11. ASSUME NEW j \in deliveries,
                TellContact(j) \/ PassOver(j) \/ DeliveryEnds(j) \/ DeliveryStalls(j)
         PROVE  AlertTypeInv'
    <2>1. UNCHANGED <<alertRows, alertClock, scan>>
      BY <1>11 DEF TellContact, PassOver, DeliveryEnds, DeliveryStalls
    <2> QED  BY <1>0, <1>1, <1>2, <1>11, <2>1, JobTypes DEF AlertTypeInv
  <1>12. CASE UNCHANGED alertVars
    BY <1>1, <1>2, <1>3, <1>12 DEF alertVars, AlertTypeInv
  <1> QED  BY <1>4, <1>5, <1>6, <1>7, <1>8, <1>9, <1>10, <1>11, <1>12 DEF AlertNext, ScanStep

LEMMA AlertTypeInvImplies == AlertTypeInv => AlertTypeOK
  BY DEF AlertTypeInv, RowsOK, ScansOK, JobsOK, AlertTypeOK, AlertRow, ScanState, DeliveryJob

\* AlertTypeOK: a scan's list pairs alerts that exist with rules that exist, a scan that adds a job
\* has its pair at hand, and a job stands at a contact or behind the last, for any number of
\* scanners, alerts, tiers and contacts.
THEOREM AlertTypesCorrect == AlertSpec => []AlertTypeOK
  BY AlertTypeInit, AlertTypeStep, AlertTypeInvImplies, PTL DEF AlertSpec

-----------------------------------------------------------------------------
(* The metrics buffer keeps the order of the events.                       *)

Flight == [batch : Seq(Event), at : {"token", "post", "body"}, caller : {"push", "loop", "product"}]

\* One flush at a time holds a batch, which is not empty and is older than what waits.
OneFlight ==
    /\ flushing <=> flights # {}
    /\ \A f, g \in flights : f = g
    /\ \A f \in flights :
        /\ f.batch # <<>> /\ Ascending(f.batch)
        /\ \A e \in Elements(f.batch) : e <= pushed
        /\ \A e \in Elements(f.batch), w \in Elements(metricBuffer) : e < w

\* What waits was pushed, in this order.
WaitsInOrder ==
    /\ Ascending(metricBuffer)
    /\ \A w \in Elements(metricBuffer) : w <= pushed

MetricInv == MetricTypeOK /\ OneFlight /\ WaitsInOrder

LEMMA MetricInitInv == MetricInit => MetricInv
  <1> USE MetricsAssumption
  <1> SUFFICES ASSUME MetricInit PROVE MetricInv
    OBVIOUS
  <1>1. MetricTypeOK
    <2>1. <<>> \in Seq(Event) /\ {} \subseteq Flight
      OBVIOUS
    <2>2. ingested \subseteq Event /\ late \subseteq Seq(Event)
      BY DEF MetricInit
    <2>3. pushed \in 0..MaxEvents /\ metricFaults \in 0..MaxMetricFaults
      BY MetricsAssumption DEF MetricInit, MetricsAssumption
    <2>4. flushing \in BOOLEAN /\ flushTimer \in BOOLEAN /\ forgotten \subseteq Event
      BY DEF MetricInit
    <2>5. metricBuffer \in Seq(Event) /\ flights \subseteq Flight
      BY <2>1 DEF MetricInit
    <2> QED BY <2>2, <2>3, <2>4, <2>5 DEF MetricTypeOK, Flight
  <1>2. OneFlight /\ WaitsInOrder
    BY DEF MetricInit, OneFlight, WaitsInOrder, Ascending, Elements
  <1> QED BY <1>1, <1>2 DEF MetricInv

\* An event with the next number goes to the end.
LEMMA AppendInOrder ==
    ASSUME NEW s \in Seq(Nat), NEW n \in Nat, Ascending(s), \A e \in Elements(s) : e <= n
    PROVE  /\ Ascending(Append(s, n + 1)) /\ Append(s, n + 1) # <<>>
           /\ Elements(Append(s, n + 1)) = Elements(s) \cup {n + 1}
  <1> DEFINE t == Append(s, n + 1)
  <1>1. /\ Len(t) = Len(s) + 1 /\ DOMAIN t = 1..(Len(s) + 1) /\ DOMAIN s = 1..Len(s)
        /\ t[Len(s) + 1] = n + 1 /\ \A i \in 1..Len(s) : t[i] = s[i]
        /\ Len(s) \in Nat
    OBVIOUS
  <1>2. t # <<>>
    BY <1>1
  <1>3. \A i \in DOMAIN s : s[i] \in Nat /\ s[i] <= n
    BY <1>1 DEF Elements
  <1>4. Ascending(t)
    <2> SUFFICES ASSUME NEW i \in DOMAIN t, NEW j \in DOMAIN t, i < j PROVE t[i] < t[j]
      BY DEF Ascending
    <2>1. CASE j = Len(s) + 1
      BY <2>1, <1>1, <1>3
    <2>2. CASE j # Len(s) + 1
      BY <2>2, <1>1 DEF Ascending
    <2> QED BY <2>1, <2>2
  <1>5. Elements(t) = Elements(s) \cup {n + 1}
    <2> HIDE DEF t
    <2>1. \A i \in DOMAIN t : t[i] \in Elements(s) \cup {n + 1}
      BY <1>1 DEF Elements
    <2>2. \A i \in DOMAIN s : s[i] \in Elements(t)
      BY <1>1 DEF Elements
    <2>3. n + 1 \in Elements(t)
      BY <1>1 DEF Elements
    <2> QED BY <2>1, <2>2, <2>3 DEF Elements
  <1> QED BY <1>2, <1>4, <1>5

\* A batch before what waits is in order, and holds the events of both.
LEMMA ConcatInOrder ==
    ASSUME NEW s \in Seq(Nat), NEW t \in Seq(Nat), s # <<>>, Ascending(s), Ascending(t),
           \A e \in Elements(s), w \in Elements(t) : e < w
    PROVE  /\ Ascending(s \o t) /\ s \o t # <<>>
           /\ Elements(s \o t) = Elements(s) \cup Elements(t)
  <1> DEFINE u == s \o t
  <1>1. /\ Len(u) = Len(s) + Len(t) /\ DOMAIN u = 1..(Len(s) + Len(t))
        /\ DOMAIN s = 1..Len(s) /\ DOMAIN t = 1..Len(t)
        /\ Len(s) \in Nat /\ Len(t) \in Nat /\ Len(s) # 0
        /\ \A i \in 1..Len(s) : u[i] = s[i]
        /\ \A i \in 1..Len(t) : u[Len(s) + i] = t[i]
    OBVIOUS
  <1>2. u # <<>>
    BY <1>1
  <1> HIDE DEF u
  <1>3. \A i \in DOMAIN u : i \notin DOMAIN s => i - Len(s) \in DOMAIN t /\ u[i] = t[i - Len(s)]
    BY <1>1
  <1>4. Ascending(u)
    <2> SUFFICES ASSUME NEW i \in DOMAIN u, NEW j \in DOMAIN u, i < j PROVE u[i] < u[j]
      BY DEF Ascending
    <2>1. CASE j \in DOMAIN s
      <3>1. i \in DOMAIN s /\ u[i] = s[i] /\ u[j] = s[j]
        BY <2>1, <1>1
      <3> QED BY <2>1, <3>1 DEF Ascending
    <2>2. CASE i \in DOMAIN s /\ j \notin DOMAIN s
      <3>1. u[i] \in Elements(s) /\ u[j] \in Elements(t)
        BY <2>2, <1>1, <1>3 DEF Elements
      <3> QED BY <3>1
    <2>3. CASE i \notin DOMAIN s /\ j \notin DOMAIN s
      <3>1. i - Len(s) < j - Len(s)
        BY <1>1
      <3> QED BY <2>3, <3>1, <1>3 DEF Ascending
    <2> QED BY <2>1, <2>2, <2>3, <1>1
  <1>5. Elements(u) = Elements(s) \cup Elements(t)
    <2>1. \A i \in DOMAIN u : u[i] \in Elements(s) \cup Elements(t)
      BY <1>1, <1>3 DEF Elements
    <2>2. \A i \in DOMAIN s : s[i] \in Elements(u)
      BY <1>1 DEF Elements
    <2>3. \A i \in DOMAIN t : Len(s) + i \in DOMAIN u /\ u[Len(s) + i] = t[i]
      BY <1>1
    <2>4. \A i \in DOMAIN t : t[i] \in Elements(u)
      BY <2>3 DEF Elements
    <2> QED BY <2>1, <2>2, <2>4 DEF Elements
  <1> QED BY <1>2, <1>4, <1>5 DEF u

LEMMA EventsAreNumbers ==
    ASSUME NEW s \in Seq(Event)
    PROVE  s \in Seq(Nat) /\ Elements(s) \subseteq Event /\ Event \subseteq Nat
  <1>1. Event \subseteq Nat
    BY MetricsAssumption DEF Event
  <1>2. s \in Seq(Nat)
    <2> HIDE DEF Event
    <2> QED BY <1>1, SeqMonotonic
  <1>3. Elements(s) \subseteq Event
    BY DEF Elements
  <1> QED BY <1>1, <1>2, <1>3

\* A flush takes all that waits, for no other is under way.
LEMMA TakeKeeps ==
    ASSUME MetricInv, NEW b \in Seq(Event), b # <<>>, Ascending(b), ~flushing,
           pushed' \in 0..MaxEvents, pushed' >= pushed, \A e \in Elements(b) : e <= pushed',
           NEW caller \in {"push", "loop", "product"}, TakeBatch(b, caller)
    PROVE  /\ flights' \subseteq Flight /\ metricBuffer' \in Seq(Event) /\ flushing' \in BOOLEAN
           /\ OneFlight' /\ WaitsInOrder'
  <1>1. flights = {}
    BY DEF MetricInv, OneFlight
  <1> DEFINE f == [batch |-> b, at |-> "token", caller |-> caller]
  <1>2. flights' = {f} /\ metricBuffer' = <<>> /\ flushing' = TRUE
    BY <1>1 DEF TakeBatch
  <1>3. f \in Flight /\ f.batch = b
    BY DEF Flight
  <1> HIDE DEF f
  <1>4. Elements(metricBuffer') = {}
    BY <1>2 DEF Elements
  <1>5. WaitsInOrder'
    <2>1. DOMAIN metricBuffer' = {}
      BY <1>2
    <2> QED BY <1>4, <2>1 DEF WaitsInOrder, Ascending
  <1>6. OneFlight'
    <2>1. Elements(metricBuffer)' = {}
      BY <1>4 DEF Elements
    <2>2. \A g \in flights' : g.batch = b
      BY <1>2, <1>3
    <2>3. Ascending(b)' <=> Ascending(b)
      BY DEF Ascending
    <2>4. (Elements(b))' = Elements(b)
      BY DEF Elements
    <2>5. \A g \in flights' : /\ g.batch # <<>> /\ (Ascending(g.batch))'
                              /\ \A e \in (Elements(g.batch))' : e <= pushed'
      BY <2>2, <2>3, <2>4
    <2> QED BY <1>2, <2>1, <2>5 DEF OneFlight
  <1> QED BY <1>2, <1>3, <1>5, <1>6

\* A flight that moves on keeps its batch.
LEMMA FlightKeeps ==
    ASSUME MetricInv, NEW f \in flights, NEW at \in {"token", "post", "body"},
           flights' = (flights \ {f}) \cup {[f EXCEPT !.at = at]},
           UNCHANGED <<metricBuffer, pushed, flushing>>
    PROVE  flights' \subseteq Flight /\ OneFlight' /\ WaitsInOrder'
  <1> DEFINE g == [f EXCEPT !.at = at]
  <1>1. f \in Flight
    BY DEF MetricInv, MetricTypeOK, Flight
  <1>2. g \in Flight /\ g.batch = f.batch
    BY <1>1 DEF Flight
  <1> HIDE DEF g
  <1>3. flights = {f}
    BY DEF MetricInv, OneFlight
  <1>4. flights' = {g}
    BY <1>3 DEF g
  <1>5. WaitsInOrder'
    BY DEF MetricInv, WaitsInOrder, Ascending, Elements
  <1>6. OneFlight'
    BY <1>2, <1>3, <1>4 DEF MetricInv, OneFlight, Ascending, Elements
  <1> QED BY <1>2, <1>4, <1>5, <1>6

\* A flush that fails leaves its batch, what waits, or the one before the other.
LEMMA CatchKeeps ==
    ASSUME MetricInv, NEW f \in flights, NEW b,
           b = metricBuffer \/ b = f.batch \o metricBuffer,
           Catch(f, b), Finally(f, FALSE), UNCHANGED pushed
    PROVE  /\ flights' \subseteq Flight /\ metricBuffer' \in Seq(Event) /\ flushing' \in BOOLEAN
           /\ forgotten' \subseteq Event /\ OneFlight' /\ WaitsInOrder'
  <1>1. f \in Flight
    BY DEF MetricInv, MetricTypeOK, Flight
  <1>2. f.batch \in Seq(Event) /\ metricBuffer \in Seq(Event)
    BY <1>1 DEF Flight, MetricInv, MetricTypeOK
  <1>3. /\ f.batch # <<>> /\ Ascending(f.batch) /\ \A e \in Elements(f.batch) : e <= pushed
        /\ \A e \in Elements(f.batch), w \in Elements(metricBuffer) : e < w
        /\ flights = {f}
    BY DEF MetricInv, OneFlight
  <1>4. Ascending(metricBuffer) /\ \A w \in Elements(metricBuffer) : w <= pushed
    BY DEF MetricInv, WaitsInOrder
  <1>5. f.batch \in Seq(Nat) /\ metricBuffer \in Seq(Nat) /\ Elements(f.batch) \subseteq Event
    BY <1>2, EventsAreNumbers
  <1>6. b \in Seq(Event) /\ Ascending(b) /\ \A w \in Elements(b) : w <= pushed
    <2>1. CASE b = metricBuffer
      BY <2>1, <1>2, <1>4
    <2>2. CASE b = f.batch \o metricBuffer
      <3>1. Ascending(b) /\ Elements(b) = Elements(f.batch) \cup Elements(metricBuffer)
        BY <2>2, <1>3, <1>4, <1>5, ConcatInOrder
      <3>2. b \in Seq(Event)
        BY <2>2, <1>2
      <3> QED BY <3>1, <3>2, <1>3, <1>4
    <2> QED BY <2>1, <2>2
  <1>7. flights' = {} /\ flushing' = FALSE
    BY <1>3 DEF Finally
  <1>8. /\ metricBuffer' \in Seq(Event) /\ Ascending(metricBuffer')
        /\ \A w \in Elements(metricBuffer') : w <= pushed
    BY <1>2, <1>3, <1>6 DEF Catch
  <1>9. forgotten' \subseteq Event
    BY <1>5 DEF Catch, MetricInv, MetricTypeOK
  <1>10. WaitsInOrder'
    BY <1>8 DEF WaitsInOrder, Ascending, Elements
  <1>11. OneFlight'
    BY <1>7 DEF OneFlight
  <1> QED BY <1>7, <1>8, <1>9, <1>10, <1>11

\* The next process begins as the first one did, with later events.
LEMMA EndKeeps ==
    ASSUME MetricInv, ProcessEnds, UNCHANGED pushed
    PROVE  /\ flights' \subseteq Flight /\ metricBuffer' \in Seq(Event) /\ flushing' \in BOOLEAN
           /\ flushTimer' \in BOOLEAN /\ forgotten' \subseteq Event /\ OneFlight' /\ WaitsInOrder'
  <1>1. /\ metricBuffer \in Seq(Event) /\ forgotten \subseteq Event
        /\ \A f \in flights : f.batch \in Seq(Event)
    BY DEF MetricInv, MetricTypeOK
  <1>2. Unanswered \subseteq Event
    BY <1>1, EventsAreNumbers DEF Unanswered
  <1>3. flights' = {} /\ metricBuffer' = <<>> /\ flushing' = FALSE
    BY DEF ProcessEnds
  <1>4. OneFlight' /\ WaitsInOrder'
    BY <1>3 DEF OneFlight, WaitsInOrder, Ascending, Elements
  <1>5. flights' \subseteq Flight /\ metricBuffer' \in Seq(Event)
    BY <1>3
  <1>6. flushing' \in BOOLEAN /\ flushTimer' \in BOOLEAN /\ forgotten' \subseteq Event
    BY <1>1, <1>2 DEF ProcessEnds
  <1> QED BY <1>4, <1>5, <1>6

LEMMA RejectKeeps ==
    ASSUME MetricInv, NEW f \in flights, NEW b,
           b = metricBuffer \/ b = f.batch \o metricBuffer,
           Rejects(f, b), UNCHANGED pushed
    PROVE  /\ flights' \subseteq Flight /\ metricBuffer' \in Seq(Event) /\ flushing' \in BOOLEAN
           /\ flushTimer' \in BOOLEAN /\ forgotten' \subseteq Event /\ OneFlight' /\ WaitsInOrder'
  <1>1. CASE Catch(f, b) /\ Finally(f, FALSE) /\ UNCHANGED flushTimer
    <2>1. flushTimer' \in BOOLEAN
      BY <1>1 DEF MetricInv, MetricTypeOK
    <2> QED BY <1>1, <2>1, CatchKeeps
  <1>2. CASE ProcessEnds
    BY <1>2, EndKeeps
  <1> QED BY <1>1, <1>2 DEF Rejects

LEMMA MetricStep == MetricInv /\ [MetricNext]_metricVars => MetricInv'
  <1> SUFFICES ASSUME MetricInv, [MetricNext]_metricVars PROVE MetricInv'
    OBVIOUS
  <1> USE MetricsAssumption
  <1>1. /\ pushed \in 0..MaxEvents /\ metricBuffer \in Seq(Event)
        /\ flushing \in BOOLEAN /\ flushTimer \in BOOLEAN /\ flights \subseteq Flight
        /\ ingested \subseteq Event /\ late \subseteq Seq(Event) /\ forgotten \subseteq Event
        /\ metricFaults \in 0..MaxMetricFaults
        /\ OneFlight /\ WaitsInOrder
    BY DEF MetricInv, MetricTypeOK, Flight
  <1> DEFINE Typed == /\ pushed' \in 0..MaxEvents /\ flushTimer' \in BOOLEAN
                      /\ ingested' \subseteq Event /\ late' \subseteq Seq(Event)
                      /\ forgotten' \subseteq Event
                      /\ metricFaults' \in 0..MaxMetricFaults
             Ordered == /\ flights' \subseteq Flight /\ metricBuffer' \in Seq(Event)
                        /\ flushing' \in BOOLEAN /\ OneFlight' /\ WaitsInOrder'
  <1>2. Typed /\ Ordered => MetricInv'
    BY DEF MetricInv, MetricTypeOK, Flight
  <1>3. /\ metricBuffer \in Seq(Nat) /\ Ascending(metricBuffer)
        /\ \A w \in Elements(metricBuffer) : w <= pushed
    BY <1>1, EventsAreNumbers DEF WaitsInOrder
  <1>4. CASE PushMetric
    <2> DEFINE b == Append(metricBuffer, pushed + 1)
    <2>1. pushed' = pushed + 1 /\ pushed + 1 \in Event /\ pushed' \in 0..MaxEvents
      BY <1>1, <1>4 DEF PushMetric, Event
    <2>2. b \in Seq(Event)
      BY <1>1, <2>1
    <2>3. Ascending(b) /\ b # <<>> /\ Elements(b) = Elements(metricBuffer) \cup {pushed + 1}
      <3>1. pushed \in Nat
        BY <1>1
      <3> QED BY <1>3, <3>1, AppendInOrder
    <2>4. \A e \in Elements(b) : e <= pushed'
      <3>1. \A w \in Elements(metricBuffer) : w \in Nat
        BY <1>1, EventsAreNumbers
      <3> QED BY <1>1, <1>3, <2>1, <2>3, <3>1
    <2>5. \/ ~flushing /\ TakeBatch(b, "push")
          \/ metricBuffer' = b /\ UNCHANGED <<flushing, flights>>
      BY <1>4 DEF PushMetric, MayFlush
    <2>6. UNCHANGED <<flushTimer, ingested, late, forgotten, metricFaults>>
      BY <1>4 DEF PushMetric
    <2> HIDE DEF b
    <2>7. CASE ~flushing /\ TakeBatch(b, "push")
      BY <1>1, <1>2, <2>1, <2>2, <2>3, <2>4, <2>6, <2>7, TakeKeeps
    <2>8. CASE metricBuffer' = b /\ UNCHANGED <<flushing, flights>>
      <3>1. WaitsInOrder'
        BY <2>3, <2>4, <2>8 DEF WaitsInOrder, Ascending, Elements
      <3>2. \A f \in flights : \A e \in Elements(f.batch) : e \in Nat /\ e <= pushed
        BY <1>1, EventsAreNumbers DEF OneFlight, Flight
      <3>3. ASSUME NEW f \in flights, NEW e \in Elements(f.batch)
            PROVE  e <= pushed' /\ \A w \in Elements(b) : e < w
        <4>1. e \in Nat /\ e <= pushed /\ pushed \in Nat
          BY <1>1, <3>2
        <4>2. \A w \in Elements(metricBuffer) : e < w
          BY <1>1 DEF OneFlight
        <4>3. e < pushed + 1 /\ e <= pushed'
          BY <4>1, <2>1
        <4> QED BY <2>3, <4>2, <4>3
      <3>4. OneFlight'
        <4>1. Elements(metricBuffer)' = Elements(b)
          BY <2>8 DEF Elements
        <4>2. \A f \in flights : (Elements(f.batch))' = Elements(f.batch)
                                 /\ ((Ascending(f.batch))' <=> Ascending(f.batch))
          BY DEF Elements, Ascending
        <4> QED BY <1>1, <2>8, <3>3, <4>1, <4>2 DEF OneFlight
      <3> QED BY <1>1, <1>2, <2>1, <2>2, <2>6, <2>8, <3>1, <3>4
    <2> QED BY <2>5, <2>7, <2>8
  <1>5. CASE TickFlush \/ FlushByHand
    <2>1. PICK caller \in {"push", "loop", "product"} :
            /\ MayFlush(metricBuffer) /\ TakeBatch(metricBuffer, caller)
            /\ UNCHANGED <<pushed, flushTimer, ingested, late, forgotten, metricFaults>>
      BY <1>5 DEF TickFlush, FlushByHand
    <2>2. Ordered
      BY <1>1, <1>3, <2>1, TakeKeeps DEF MayFlush
    <2> QED BY <1>1, <1>2, <2>1, <2>2
  <1>6. CASE SetFlushLoop
    <2>1. /\ flushTimer' \in BOOLEAN
          /\ UNCHANGED <<pushed, metricBuffer, flushing, flights, ingested, late, forgotten,
                         metricFaults>>
      BY <1>6 DEF SetFlushLoop
    <2>2. OneFlight' /\ WaitsInOrder'
      BY <1>1, <2>1 DEF OneFlight, WaitsInOrder, Ascending, Elements
    <2> QED BY <1>1, <1>2, <2>1, <2>2
  <1>7. ASSUME NEW batch \in Seq(Event), Ingest(batch) PROVE ingested' \subseteq Event
    BY <1>1, <1>7, EventsAreNumbers DEF Ingest
  <1>8. ASSUME NEW f \in flights, GetToken(f) PROVE MetricInv'
    <2>1. /\ flights' = (flights \ {f}) \cup {[f EXCEPT !.at = "post"]}
          /\ UNCHANGED <<pushed, metricBuffer, flushing, flushTimer, ingested, late, forgotten,
                         metricFaults>>
      BY <1>8 DEF GetToken
    <2>2. flights' \subseteq Flight /\ OneFlight' /\ WaitsInOrder'
      BY <2>1, FlightKeeps
    <2> QED BY <1>1, <1>2, <2>1, <2>2
  <1>9. ASSUME NEW f \in flights, HubIngests(f) PROVE MetricInv'
    <2>1. /\ flights' = (flights \ {f}) \cup {[f EXCEPT !.at = "body"]} /\ Ingest(f.batch)
          /\ UNCHANGED <<pushed, metricBuffer, flushing, flushTimer, late, forgotten, metricFaults>>
      BY <1>9 DEF HubIngests
    <2>2. flights' \subseteq Flight /\ OneFlight' /\ WaitsInOrder'
      BY <2>1, FlightKeeps
    <2>3. f.batch \in Seq(Event)
      BY <1>1 DEF Flight
    <2> QED BY <1>1, <1>2, <1>7, <2>1, <2>2, <2>3
  <1>10. ASSUME NEW f \in flights, ReadAnswer(f) PROVE MetricInv'
    <2>1. /\ flushing' = FALSE /\ flights' = flights \ {f}
          /\ UNCHANGED <<pushed, metricBuffer, flushTimer, ingested, late, forgotten, metricFaults>>
      BY <1>10 DEF ReadAnswer, Finally
    <2>2. flights' = {}
      BY <1>1, <2>1 DEF OneFlight
    <2>3. OneFlight' /\ WaitsInOrder'
      BY <1>1, <2>1, <2>2 DEF OneFlight, WaitsInOrder, Ascending, Elements
    <2> QED BY <1>1, <1>2, <2>1, <2>3
  <1>11. ASSUME MetricFault PROVE metricFaults' \in 0..MaxMetricFaults
    BY <1>1, <1>11 DEF MetricFault
  <1>12. ASSUME NEW f \in flights, HubRefuses(f) PROVE MetricInv'
    <2> DEFINE b == f.batch \o metricBuffer
    <2>1. /\ metricFaults' = metricFaults \/ MetricFault
          /\ ingested' = ingested \/ Ingest(f.batch)
          /\ Rejects(f, b) /\ UNCHANGED <<pushed, late>>
      BY <1>12 DEF HubRefuses
    <2>2. b = f.batch \o metricBuffer
      OBVIOUS
    <2> HIDE DEF b
    <2>3. Ordered /\ forgotten' \subseteq Event /\ flushTimer' \in BOOLEAN
      BY <2>1, <2>2, RejectKeeps
    <2>4. ingested' \subseteq Event
      <3>1. f.batch \in Seq(Event)
        BY <1>1 DEF Flight
      <3> QED BY <1>1, <1>7, <2>1, <3>1
    <2>5. metricFaults' \in 0..MaxMetricFaults
      BY <1>1, <1>11, <2>1
    <2> QED BY <1>1, <1>2, <2>1, <2>3, <2>4, <2>5
  <1>13. ASSUME NEW f \in flights, RequestThrows(f) PROVE MetricInv'
    <2>1. /\ MetricFault /\ Rejects(f, metricBuffer) /\ UNCHANGED <<pushed, ingested>>
          /\ late' \subseteq late \cup {f.batch}
      BY <1>13 DEF RequestThrows
    <2>2. Ordered /\ forgotten' \subseteq Event /\ flushTimer' \in BOOLEAN
      BY <2>1, RejectKeeps
    <2>3. late' \subseteq Seq(Event)
      BY <1>1, <2>1 DEF Flight
    <2> QED BY <1>1, <1>2, <1>11, <2>1, <2>2, <2>3
  <1>15. CASE LateIngest
    <2>1. PICK batch \in late :
            /\ Ingest(batch) /\ late' = late \ {batch}
            /\ UNCHANGED <<pushed, metricBuffer, flushing, flights, flushTimer, forgotten,
                           metricFaults>>
      BY <1>15 DEF LateIngest
    <2>2. ingested' \subseteq Event
      BY <1>1, <1>7, <2>1
    <2>3. OneFlight' /\ WaitsInOrder'
      BY <1>1, <2>1 DEF OneFlight, WaitsInOrder, Ascending, Elements
    <2> QED BY <1>1, <1>2, <2>1, <2>2, <2>3
  <1>14. CASE UNCHANGED metricVars
    <2>1. UNCHANGED <<pushed, metricBuffer, flushing, flights, flushTimer, ingested, late, forgotten,
                      metricFaults>>
      BY <1>14 DEF metricVars
    <2>2. OneFlight' /\ WaitsInOrder'
      BY <1>1, <2>1 DEF OneFlight, WaitsInOrder, Ascending, Elements
    <2> QED BY <1>1, <1>2, <2>1, <2>2
  <1> QED
    BY <1>4, <1>5, <1>6, <1>8, <1>9, <1>10, <1>12, <1>13, <1>14, <1>15 DEF MetricNext

\* Type correctness of the metrics buffer: what waits and what is under way are events that were
\* pushed, and the flushes are at one of the places at which they wait (metricsClient.ts:80-116).
THEOREM MetricsTypeCorrect == MetricSpec => []MetricTypeOK
  <1>1. MetricInv => MetricTypeOK
    BY DEF MetricInv
  <1> QED BY MetricInitInv, MetricStep, <1>1, PTL DEF MetricSpec

\* MetricsInOrder: no event overtakes another on its way to the hub, whatever the size of the buffer,
\* the number of events and of failures (metricsClient.ts:80-105).
THEOREM MetricsKeepOrder == MetricSpec => []MetricsInOrder
  <1>1. MetricInv => MetricsInOrder
    BY DEF MetricInv, OneFlight, WaitsInOrder, MetricsInOrder
  <1> QED BY MetricInitInv, MetricStep, <1>1, PTL DEF MetricSpec

\* Every event that was pushed waits, is under way, has reached the hub, or was let go of; what waits
\* for the body of an answer has reached the hub.
EventsAccounted == 1..pushed \subseteq Unanswered \cup ingested \cup forgotten

AccountInv ==
    /\ EventsAccounted
    /\ \A f \in flights : f.at = "body" => Elements(f.batch) \subseteq ingested

LEMMA AccountStep == MetricInv /\ AccountInv /\ [MetricNext]_metricVars => AccountInv'
  <1> SUFFICES ASSUME MetricInv, AccountInv, [MetricNext]_metricVars PROVE AccountInv'
    OBVIOUS
  <1>1. /\ pushed \in Nat /\ metricBuffer \in Seq(Event) /\ flights \subseteq Flight
        /\ \A f, g \in flights : f = g
        /\ flushing <=> flights # {}
    BY MetricsAssumption DEF MetricInv, MetricTypeOK, Flight, OneFlight
  <1>2. ASSUME NEW b, NEW caller, TakeBatch(b, caller), ~flushing, UNCHANGED <<ingested, forgotten>>,
               1..pushed' \subseteq 1..pushed \cup Elements(b),
               Elements(metricBuffer) \subseteq Elements(b)
        PROVE  AccountInv'
    <2> DEFINE f == [batch |-> b, at |-> "token", caller |-> caller]
    <2>1. flights' = {f} /\ flights = {}
      BY <1>1, <1>2 DEF TakeBatch
    <2>2. f.batch = b /\ f.at # "body"
      OBVIOUS
    <2> HIDE DEF f
    <2>3. Unanswered = Elements(metricBuffer)
      BY <2>1 DEF Unanswered
    <2>4. Elements(b) \subseteq Unanswered'
      BY <2>1, <2>2 DEF Unanswered, Elements
    <2> QED BY <1>2, <2>1, <2>2, <2>3, <2>4 DEF AccountInv, EventsAccounted
  <1>3. ASSUME NEW f \in flights, NEW at \in {"token", "post", "body"},
               flights' = (flights \ {f}) \cup {[f EXCEPT !.at = at]},
               UNCHANGED <<pushed, metricBuffer, forgotten>>, ingested \subseteq ingested',
               at = "body" => Elements(f.batch) \subseteq ingested'
        PROVE  AccountInv'
    <2> DEFINE g == [f EXCEPT !.at = at]
    <2>1. g.batch = f.batch /\ g.at = at
      BY <1>1 DEF Flight
    <2>2. flights = {f} /\ flights' = {g}
      BY <1>1, <1>3
    <2> HIDE DEF g
    <2>3. Unanswered' = Unanswered
      BY <1>3, <2>1, <2>2 DEF Unanswered, Elements
    <2>4. (Elements(g.batch))' = Elements(f.batch)
      BY <2>1 DEF Elements
    <2> QED BY <1>3, <2>1, <2>2, <2>3, <2>4 DEF AccountInv, EventsAccounted, Elements
  <1>4. CASE PushMetric
    <2> DEFINE b == Append(metricBuffer, pushed + 1)
    <2>1. pushed' = pushed + 1 /\ UNCHANGED <<ingested, forgotten>>
      BY <1>4 DEF PushMetric
    <2>2. Elements(b) = Elements(metricBuffer) \cup {pushed + 1}
      BY <1>1, EventsAreNumbers, AppendInOrder DEF MetricInv, WaitsInOrder
    <2>3. 1..pushed' \subseteq 1..pushed \cup Elements(b)
      <3>1. \A e \in 1..(pushed + 1) : e \in 1..pushed \/ e = pushed + 1
        BY <1>1
      <3> HIDE DEF b
      <3> QED BY <2>1, <2>2, <3>1
    <2>4. \/ ~flushing /\ TakeBatch(b, "push")
          \/ metricBuffer' = b /\ UNCHANGED flights
      BY <1>4 DEF PushMetric, MayFlush
    <2> HIDE DEF b
    <2>5. CASE ~flushing /\ TakeBatch(b, "push")
      BY <1>2, <2>1, <2>2, <2>3, <2>5
    <2>6. CASE metricBuffer' = b /\ UNCHANGED flights
      <3>1. Unanswered' = Unanswered \cup Elements(b)
        BY <2>2, <2>6 DEF Unanswered, Elements
      <3> QED BY <2>1, <2>3, <2>6, <3>1 DEF AccountInv, EventsAccounted, Elements
    <2> QED BY <2>4, <2>5, <2>6
  <1>5. CASE TickFlush \/ FlushByHand
    BY <1>2, <1>5 DEF TickFlush, FlushByHand, MayFlush
  <1>6. CASE SetFlushLoop
    BY <1>6 DEF SetFlushLoop, AccountInv, EventsAccounted, Unanswered, Elements
  <1>7. ASSUME NEW f \in flights, GetToken(f) PROVE AccountInv'
    BY <1>3, <1>7 DEF GetToken
  <1>8. ASSUME NEW f \in flights, HubIngests(f) PROVE AccountInv'
    <2>1. /\ ingested' = ingested \cup Elements(f.batch)
          /\ flights' = (flights \ {f}) \cup {[f EXCEPT !.at = "body"]}
          /\ UNCHANGED <<pushed, metricBuffer, forgotten>>
      BY <1>8 DEF HubIngests, Ingest
    <2> QED BY <1>3, <2>1
  <1>9. ASSUME NEW f \in flights, ReadAnswer(f) PROVE AccountInv'
    <2>1. /\ f.at = "body" /\ flights = {f} /\ flights' = {}
          /\ UNCHANGED <<pushed, metricBuffer, ingested, forgotten>>
      BY <1>1, <1>9 DEF ReadAnswer, Finally
    <2>2. Unanswered = Elements(metricBuffer) \cup Elements(f.batch)
      BY <2>1 DEF Unanswered
    <2>3. Unanswered' = Elements(metricBuffer)
      BY <2>1 DEF Unanswered, Elements
    <2> QED BY <2>1, <2>2, <2>3 DEF AccountInv, EventsAccounted
  <1>10. ASSUME NEW f \in flights, NEW b, Rejects(f, b), pushed' = pushed,
                ingested \subseteq ingested',
                b = metricBuffer \/ b = f.batch \o metricBuffer
         PROVE  AccountInv'
    <2>1. flights = {f} /\ Unanswered = Elements(metricBuffer) \cup Elements(f.batch)
      BY <1>1 DEF Unanswered
    <2>2. flights' = {}
      BY <1>10, <2>1 DEF Rejects, Finally, ProcessEnds
    <2>3. Unanswered' = Elements(metricBuffer')
      BY <2>2 DEF Unanswered, Elements
    <2>4. Unanswered \subseteq Elements(metricBuffer') \cup forgotten' /\ forgotten \subseteq forgotten'
      <3>1. CASE ProcessEnds
        BY <3>1 DEF ProcessEnds
      <3>2. CASE Catch(f, metricBuffer)
        <4>1. metricBuffer = <<>> => Elements(metricBuffer) = {}
          BY DEF Elements
        <4> QED BY <2>1, <3>2, <4>1 DEF Catch
      <3>3. CASE Catch(f, b) /\ b = f.batch \o metricBuffer
        <4>1. f.batch \in Seq(Nat) /\ metricBuffer \in Seq(Nat)
          BY <1>1, EventsAreNumbers DEF Flight
        <4>2. b # <<>> /\ Elements(b) = Elements(f.batch) \cup Elements(metricBuffer)
          BY <3>3, <4>1, ConcatInOrder DEF MetricInv, OneFlight, WaitsInOrder
        <4> QED BY <2>1, <3>3, <4>2 DEF Catch
      <3> QED BY <1>10, <3>1, <3>2, <3>3 DEF Rejects
    <2> QED BY <1>10, <2>2, <2>3, <2>4 DEF AccountInv, EventsAccounted
  <1>11. ASSUME NEW f \in flights, HubRefuses(f) PROVE AccountInv'
    <2>1. /\ Rejects(f, f.batch \o metricBuffer) /\ pushed' = pushed
          /\ ingested \subseteq ingested'
      BY <1>11 DEF HubRefuses, Ingest
    <2> QED BY <1>10, <2>1
  <1>12. ASSUME NEW f \in flights, RequestThrows(f) PROVE AccountInv'
    BY <1>10, <1>12 DEF RequestThrows
  <1>13. CASE LateIngest
    BY <1>13 DEF LateIngest, Ingest, AccountInv, EventsAccounted, Unanswered, Elements
  <1>14. CASE UNCHANGED metricVars
    BY <1>14 DEF metricVars, AccountInv, EventsAccounted, Unanswered, Elements
  <1> QED
    BY <1>4, <1>5, <1>6, <1>7, <1>8, <1>9, <1>11, <1>12, <1>13, <1>14 DEF MetricNext

\* However flushes fail, an event that was pushed is in the buffer or in the batch under way, has
\* reached the hub, was in a batch that a failed request did not put back because new events had come,
\* or in a process that ended because of a rejection: no other step loses one (metricsClient.ts:74-116).
THEOREM NoEventVanishes == MetricSpec => []EventsAccounted
  <1>1. MetricInit => MetricInv /\ AccountInv
    <2> SUFFICES ASSUME MetricInit PROVE AccountInv
      BY MetricInitInv
    <2>1. 1..pushed = {} /\ flights = {}
      BY DEF MetricInit
    <2> QED BY <2>1 DEF AccountInv, EventsAccounted
  <1>2. MetricInv /\ AccountInv /\ [MetricNext]_metricVars => (MetricInv /\ AccountInv)'
    BY MetricStep, AccountStep
  <1>3. AccountInv => EventsAccounted
    BY DEF AccountInv
  <1> QED BY <1>1, <1>2, <1>3, PTL DEF MetricSpec

-----------------------------------------------------------------------------
(* A control that drops from pass to fail is notified.                     *)

\* The day of a drop is behind, and a notification is named by its control and its day.
DropInv ==
    /\ complianceDay \in Nat
    /\ \A d \in owed \cup dispatches : d.day \in 0..complianceDay
    /\ \A n \in notifications : n.day \in Nat /\ n.seed = [control |-> n.control, day |-> n.day]
    /\ DropIsNotified

LEMMA DropInit == ComplianceInit => DropInv
  BY DEF ComplianceInit, DropInv, DropIsNotified

LEMMA DropStep == DropInv /\ [ComplianceNext]_complianceVars => DropInv'
  <1> SUFFICES ASSUME DropInv, [ComplianceNext]_complianceVars PROVE DropInv'
    OBVIOUS
  <1>1. ASSUME complianceDay' \in {complianceDay, complianceDay + 1},
               UNCHANGED <<dispatches, notifications, owed, lostAlerts>>
        PROVE  DropInv'
    BY <1>1 DEF DropInv, DropIsNotified
  <1>2. ASSUME NEW c \in Controls, NEW day \in Days, IngestSignal(c, day) PROVE DropInv'
    BY <1>1, <1>2 DEF IngestSignal
  <1>3. CASE Promote \/ NextComplianceDay
    BY <1>1, <1>3 DEF Promote, NextComplianceDay
  <1>4. CASE BeginRun \/ ReadPrevious \/ InsertHistory \/ CompleteRun \/ ComputePosture
    BY <1>1, <1>4 DEF BeginRun, ReadPrevious, InsertHistory, CompleteRun, ComputePosture
  <1>5. ASSUME NEW c \in Controls, LookUpSignal(c) PROVE DropInv'
    BY <1>1, <1>5 DEF LookUpSignal
  <1>6. CASE EvaluationThrows
    BY <1>1, <1>6 DEF EvaluationThrows
  <1>7. CASE UpsertVerdict
    <2> DEFINE d == [control |-> evaluation.control, day |-> complianceDay]
    <2>1. PICK drop \in {{}, {d}} : dispatches' = dispatches \cup drop /\ owed' = owed \cup drop
      BY <1>7 DEF UpsertVerdict
    <2>2. UNCHANGED <<complianceDay, notifications, lostAlerts>>
      BY <1>7 DEF UpsertVerdict
    <2>3. d.day = complianceDay
      OBVIOUS
    <2> HIDE DEF d
    <2> QED BY <2>1, <2>2, <2>3 DEF DropInv, DropIsNotified
  <1>8. CASE EvaluationDies
    <2>1. /\ lostAlerts' = lostAlerts \cup dispatches /\ dispatches' = {}
          /\ UNCHANGED <<complianceDay, notifications, owed>>
      BY <1>8 DEF EvaluationDies
    <2> QED BY <2>1 DEF DropInv, DropIsNotified
  <1>9. ASSUME NEW d \in dispatches, DispatchFails(d) PROVE DropInv'
    <2>1. /\ lostAlerts' = lostAlerts \cup {d} /\ dispatches' = dispatches \ {d}
          /\ UNCHANGED <<complianceDay, notifications, owed>>
      BY <1>9 DEF DispatchFails
    <2> QED BY <2>1 DEF DropInv, DropIsNotified
  <1>10. ASSUME NEW d \in dispatches, DispatchAlert(d) PROVE DropInv'
    <2> DEFINE m == [control |-> d.control, day |-> complianceDay, seed |-> Seed(d)]
    <2>1. /\ notifications' = IF \E n \in notifications : n.seed = Seed(d) THEN notifications
                              ELSE notifications \cup {m}
          /\ dispatches' = dispatches \ {d} /\ UNCHANGED <<complianceDay, owed, lostAlerts>>
      BY <1>10 DEF DispatchAlert
    <2>2. m.control = d.control /\ m.day = complianceDay /\ m.seed = Seed(d)
      OBVIOUS
    <2>3. Seed(d) = [control |-> d.control, day |-> complianceDay]
      BY DEF Seed
    <2> HIDE DEF m
    <2>4. /\ notifications \subseteq notifications'
          /\ \A n \in notifications' : n.day \in Nat /\ n.seed = [control |-> n.control, day |-> n.day]
      BY <2>1, <2>2, <2>3 DEF DropInv
    <2>5. \E n \in notifications' : n.seed = Seed(d)
      BY <2>1, <2>2
    <2>6. \E n \in notifications' : n.control = d.control /\ n.day >= d.day
      <3>1. PICK n \in notifications' : n.seed = Seed(d)
        BY <2>5
      <3>2. n.control = d.control /\ n.day = complianceDay
        <4>1. [control |-> n.control, day |-> n.day] = [control |-> d.control, day |-> complianceDay]
          BY <2>3, <2>4, <3>1
        <4>2. /\ [control |-> n.control, day |-> n.day].control = n.control
              /\ [control |-> n.control, day |-> n.day].day = n.day
              /\ [control |-> d.control, day |-> complianceDay].control = d.control
              /\ [control |-> d.control, day |-> complianceDay].day = complianceDay
          OBVIOUS
        <4> QED BY ONLY <4>1, <4>2
      <3>3. complianceDay >= d.day
        BY DEF DropInv
      <3> QED BY <3>2, <3>3
    <2>7. \A o \in owed' \ (dispatches' \cup lostAlerts') :
            \E n \in notifications' : n.control = o.control /\ n.day >= o.day
      BY <2>1, <2>4, <2>6 DEF DropInv, DropIsNotified
    <2> QED BY <2>1, <2>4, <2>7 DEF DropInv, DropIsNotified
  <1>11. CASE UNCHANGED complianceVars
    BY <1>1, <1>11 DEF complianceVars
  <1> QED
    BY <1>2, <1>3, <1>4, <1>5, <1>6, <1>7, <1>8, <1>9, <1>10, <1>11 DEF ComplianceNext

\* DropIsNotified: every drop of an automated control is notified on its day or later, under way or
\* lost with its process, for any controls, runs, days and failures
\* (complianceEvaluationService.ts:138-144, complianceAlertService.ts:67-121).
THEOREM DropsAreNotified == ComplianceSpec => []DropIsNotified
  <1>1. DropInv => DropIsNotified
    BY DEF DropInv
  <1> QED BY DropInit, DropStep, <1>1, PTL DEF ComplianceSpec
-----------------------------------------------------------------------------
(* A completed run is whole.                                               *)

\* The fields of the job's record.
EvalRecord(x) ==
    x = [at |-> x.at, todo |-> x.todo, enforced |-> x.enforced, previous |-> x.previous,
         control |-> x.control, verdict |-> x.verdict, counts |-> x.counts, broken |-> x.broken]

RunCounts == [Verdict -> 0..Cardinality(Controls)]
InRun == {"begun", "next", "upsert", "history", "count"}

\* The rows of a run are one for each control that is not to do, and the counts are theirs.
Tallied(rows, counts, todo) ==
    /\ IsFiniteSet(rows) /\ todo \subseteq Controls
    /\ \A c \in Controls : c \notin todo => \E h \in rows : h.control = c
    /\ \A h \in rows : h.control \notin todo
    /\ Cardinality(rows) + Cardinality(todo) = Cardinality(Controls)
    /\ counts = [v \in Verdict |-> Cardinality({h \in rows : h.verdict = v})]

RunRecord(x) == x = [status |-> x.status, counts |-> x.counts]

RunsNumbered ==
    /\ ThisRun \in Nat /\ DOMAIN evalRuns = 1..ThisRun
    /\ \A r \in 1..ThisRun : RunRecord(evalRuns[r])
    /\ \A h \in history : h.run \in 1..ThisRun

\* The newest run is the one in hand, and what the job counts so far is what it has written.
RunInHand ==
    /\ EvalRecord(evaluation)
    /\ evaluation.at \in InRun \cup {"none", "again", "posture"}
    /\ evaluation.at \in InRun \cup {"posture"} => ThisRun > 0
    /\ evaluation.at \in InRun => evalRuns[ThisRun].status # "completed"
    /\ evaluation.at = "begun" => RowsOf(ThisRun) = {}
    /\ evaluation.at \in {"none", "again", "begun"} => evaluation.counts = NoCounts
    /\ evaluation.at \in InRun \ {"begun"} =>
            Tallied(RowsOf(ThisRun), evaluation.counts, evaluation.todo)
    /\ evaluation.at \in {"upsert", "history"} => evaluation.control \in evaluation.todo
    /\ evaluation.at = "count" => evaluation.todo = {}
    /\ evaluation.verdict \in Verdict

CompletedRows ==
    \A r \in DOMAIN evalRuns : evalRuns[r].status = "completed" =>
        Tallied(RowsOf(r), evalRuns[r].counts, {})

\* The second part of CompletedRunIsWhole.
PostureIsCurrent ==
    /\ evaluation.at = "none" /\ ~evaluation.broken
    /\ ThisRun > 0 /\ evalRuns[ThisRun].status = "completed"
    => posture = VerdictCounts

RunInv == RunsNumbered /\ RunInHand /\ CompletedRows /\ PostureIsCurrent

LEMMA BrokenIsRecord ==
    ASSUME NEW x, EvalRecord(x), NEW v
    PROVE  EvalRecord([x EXCEPT !.broken = v])
  BY DEF EvalRecord

LEMMA NoEvaluationIsRecord ==
    /\ EvalRecord(NoEvaluation) /\ NoEvaluation.at = "none" /\ NoEvaluation.counts = NoCounts
    /\ ~NoEvaluation.broken /\ NoEvaluation.verdict \in Verdict
  BY DEF EvalRecord, NoEvaluation, Verdict

\* Nothing is written and everything is to do.
LEMMA NoneTallied == Tallied({}, NoCounts, Controls)
  <1>1. \A v \in Verdict : {h \in {} : h.verdict = v} = {}
    OBVIOUS
  <1>2. IsFiniteSet({}) /\ Cardinality({}) = 0 /\ Cardinality(Controls) \in Nat
    BY ComplianceAssumption, FS_EmptySet, FS_CardinalityType DEF ComplianceAssumption
  <1>3. NoCounts = [v \in Verdict |-> Cardinality({h \in {} : h.verdict = v})]
    BY <1>1, <1>2 DEF NoCounts
  <1> QED BY <1>2, <1>3 DEF Tallied

\* One row is written for a control that was to do.
LEMMA OneMoreTallied ==
    ASSUME NEW rows, NEW counts, NEW todo, Tallied(rows, counts, todo),
           NEW c \in todo, NEW h, h.control = c, h.verdict \in Verdict
    PROVE  Tallied(rows \cup {h}, [counts EXCEPT ![h.verdict] = counts[h.verdict] + 1], todo \ {c})
  <1> DEFINE all == rows \cup {h}
             Of(S, v) == {x \in S : x.verdict = v}
  <1>1. IsFiniteSet(rows) /\ IsFiniteSet(todo) /\ todo \subseteq Controls
    <2>1. IsFiniteSet(rows) /\ todo \subseteq Controls
      BY DEF Tallied
    <2> QED BY <2>1, ComplianceAssumption, FS_Subset DEF ComplianceAssumption
  <1>0. h \notin rows
    BY DEF Tallied
  <1>2. IsFiniteSet(all) /\ Cardinality(all) = Cardinality(rows) + 1 /\ Cardinality(rows) \in Nat
    BY <1>1, <1>0, FS_AddElement, FS_CardinalityType
  <1>3. Cardinality(todo \ {c}) = Cardinality(todo) - 1 /\ Cardinality(todo) \in Nat
    BY <1>1, FS_RemoveElement, FS_CardinalityType
  <1>4. Cardinality(all) + Cardinality(todo \ {c}) = Cardinality(Controls)
    BY <1>2, <1>3 DEF Tallied
  <1>5. /\ \A d \in Controls : d \notin todo \ {c} => \E x \in all : x.control = d
        /\ \A x \in all : x.control \notin todo \ {c}
    BY DEF Tallied
  <1>6. ASSUME NEW v \in Verdict
        PROVE  Cardinality(Of(all, v)) =
                    IF v = h.verdict THEN Cardinality(Of(rows, v)) + 1 ELSE Cardinality(Of(rows, v))
    <2>1. IsFiniteSet(Of(rows, v))
      BY <1>1, FS_Subset
    <2>2. CASE v = h.verdict
      <3>1. Of(all, v) = Of(rows, v) \cup {h} /\ h \notin Of(rows, v)
        BY <1>0, <2>2
      <3> QED BY <2>1, <2>2, <3>1, FS_AddElement
    <2>3. CASE v # h.verdict
      <3>1. Of(all, v) = Of(rows, v)
        BY <2>3
      <3> QED BY <2>3, <3>1
    <2> QED BY <2>2, <2>3
  <1>7. counts = [v \in Verdict |-> Cardinality(Of(rows, v))]
    BY DEF Tallied
  <1>8. [counts EXCEPT ![h.verdict] = counts[h.verdict] + 1] =
            [v \in Verdict |-> Cardinality(Of(all, v))]
    <2> DEFINE N(v) == Cardinality(Of(rows, v))
               M(v) == Cardinality(Of(all, v))
    <2>1. counts = [v \in Verdict |-> N(v)]
      BY <1>7
    <2>2. \A v \in Verdict : M(v) = IF v = h.verdict THEN N(v) + 1 ELSE N(v)
      BY <1>6
    <2> HIDE DEF N, M
    <2>3. [counts EXCEPT ![h.verdict] = counts[h.verdict] + 1] = [v \in Verdict |-> M(v)]
      BY <2>1, <2>2
    <2> QED BY <2>3 DEF M
  <1> HIDE DEF all
  <1>9. todo \ {c} \subseteq Controls
    BY <1>1
  <1>10. Tallied(all, [counts EXCEPT ![h.verdict] = counts[h.verdict] + 1], todo \ {c})
    BY <1>2, <1>4, <1>5, <1>8, <1>9 DEF Tallied
  <1> QED BY <1>10 DEF all
LEMMA RunInit == ComplianceInit => RunInv
  <1> SUFFICES ASSUME ComplianceInit PROVE RunInv
    OBVIOUS
  <1>1. DOMAIN evalRuns = {} /\ history = {} /\ evaluation = NoEvaluation
    BY DEF ComplianceInit
  <1>2. ThisRun = 0
    BY <1>1, FS_EmptySet DEF ThisRun
  <1>3. RunsNumbered /\ CompletedRows
    BY <1>1, <1>2 DEF RunsNumbered, CompletedRows
  <1>4. RunInHand
    BY <1>1, NoEvaluationIsRecord DEF RunInHand, InRun
  <1>5. PostureIsCurrent
    BY <1>2 DEF PostureIsCurrent
  <1> QED BY <1>3, <1>4, <1>5 DEF RunInv

\* The rows and the runs stay as they are, but for the run in hand.
LEMMA RowsStay ==
    ASSUME RunInv, history' = history, DOMAIN evalRuns' = DOMAIN evalRuns,
           \A r \in 1..ThisRun : \/ evalRuns'[r] = evalRuns[r]
                                 \/ RunRecord(evalRuns'[r]) /\ evalRuns'[r].status # "completed"
    PROVE  RunsNumbered' /\ CompletedRows' /\ ThisRun' = ThisRun /\ \A r : RowsOf(r)' = RowsOf(r)
  <1>1. ThisRun' = ThisRun
    BY DEF ThisRun
  <1>2. \A r : RowsOf(r)' = RowsOf(r)
    BY DEF RowsOf
  <1>3. RunsNumbered'
    BY <1>1 DEF RunInv, RunsNumbered
  <1>4. ASSUME NEW r \in DOMAIN evalRuns', evalRuns'[r].status = "completed"
        PROVE  Tallied(RowsOf(r)', evalRuns'[r].counts, {})
    BY <1>2, <1>4 DEF RunInv, RunsNumbered, CompletedRows
  <1>5. CompletedRows'
    BY <1>4 DEF CompletedRows
  <1> QED BY <1>1, <1>2, <1>3, <1>5

LEMMA RunStep == RunInv /\ [ComplianceNext]_complianceVars => RunInv'
  <1> SUFFICES ASSUME RunInv, [ComplianceNext]_complianceVars PROVE RunInv'
    OBVIOUS
  <1> DEFINE n == ThisRun
             e == evaluation
  <1>1. /\ n \in Nat /\ DOMAIN evalRuns = 1..n
        /\ \A h \in history : h.run \in 1..n
        /\ \A r \in 1..n : RunRecord(evalRuns[r])
        /\ EvalRecord(e) /\ e.verdict \in Verdict
    BY DEF RunInv, RunsNumbered, RunInHand
  <1>2. ASSUME UNCHANGED <<evaluation, evalRuns, history, verdicts, posture>> PROVE RunInv'
    <2>1. RunsNumbered' /\ CompletedRows' /\ ThisRun' = n /\ RowsOf(ThisRun)' = RowsOf(n)
      BY <1>1, <1>2, RowsStay
    <2>2. RunInHand'
      BY <1>2, <2>1 DEF RunInv, RunInHand
    <2>3. PostureIsCurrent'
      <3>1. VerdictCounts' = VerdictCounts
        BY <1>2 DEF VerdictCounts, Quantify
      <3> QED BY <1>2, <2>1, <3>1 DEF RunInv, PostureIsCurrent
    <2> QED BY <2>1, <2>2, <2>3 DEF RunInv
  <1>3. ASSUME NEW c \in Controls, NEW day \in Days, IngestSignal(c, day) PROVE RunInv'
    BY <1>2, <1>3 DEF IngestSignal
  <1>4. CASE Promote \/ NextComplianceDay
    BY <1>2, <1>4 DEF Promote, NextComplianceDay
  <1>5. ASSUME NEW d \in dispatches, DispatchAlert(d) \/ DispatchFails(d) PROVE RunInv'
    BY <1>2, <1>5 DEF DispatchAlert, DispatchFails
  <1>6. CASE UNCHANGED complianceVars
    BY <1>2, <1>6 DEF complianceVars
  <1>7. CASE BeginRun
    <2> DEFINE b == [e EXCEPT !.at = "begun"]
               c == [b EXCEPT !.broken = (e.at = "again")]
    <2>1. /\ e.at \in {"none", "again"} /\ history' = history /\ evaluation' = c
          /\ evalRuns' = [r \in 1..(n + 1) |-> IF r <= n THEN evalRuns[r]
                                               ELSE [status |-> "running", counts |-> NoCounts]]
      BY <1>7 DEF BeginRun
    <2>2. EvalRecord(b) /\ b.at = "begun" /\ b.counts = e.counts /\ b.verdict = e.verdict
      BY <1>1 DEF EvalRecord
    <2> HIDE DEF b
    <2>3. EvalRecord(c) /\ c.at = "begun" /\ c.counts = e.counts /\ c.verdict = e.verdict
      BY <2>2 DEF EvalRecord
    <2> HIDE DEF c
    <2>4. ThisRun' = n + 1 /\ DOMAIN evalRuns' = 1..(n + 1)
      <3>1. DOMAIN evalRuns' = 1..(n + 1)
        BY <2>1
      <3>2. Cardinality(1..(n + 1)) = n + 1
        BY <1>1, FS_Interval
      <3> QED BY <3>1, <3>2 DEF ThisRun
    <2>5. \A r : RowsOf(r)' = RowsOf(r)
      BY <2>1 DEF RowsOf
    <2>6. RowsOf(n + 1) = {}
      BY <1>1 DEF RowsOf
    <2>7. /\ evalRuns'[n + 1].status = "running" /\ \A r \in 1..n : evalRuns'[r] = evalRuns[r]
          /\ RunRecord(evalRuns'[n + 1])
      BY <1>1, <2>1 DEF RunRecord
    <2>8. RunsNumbered'
      BY <1>1, <2>1, <2>4, <2>7 DEF RunsNumbered
    <2>9. CompletedRows'
      <3>1. ASSUME NEW r \in 1..(n + 1), evalRuns'[r].status = "completed"
            PROVE  Tallied(RowsOf(r)', evalRuns'[r].counts, {})
        <4>1. r \in 1..n
          BY <1>1, <2>7, <3>1
        <4> QED BY <1>1, <2>5, <2>7, <3>1, <4>1 DEF RunInv, CompletedRows
      <3> QED BY <2>4, <3>1 DEF CompletedRows
    <2>10. e.counts = NoCounts
      BY <2>1 DEF RunInv, RunInHand
    <2>11. RunInHand'
      <3>1. RowsOf(ThisRun)' = {}
        BY <2>1, <2>4, <2>6 DEF RowsOf
      <3> QED BY <1>1, <2>1, <2>3, <2>4, <2>7, <2>10, <3>1 DEF RunInHand, InRun
    <2>12. PostureIsCurrent'
      BY <2>1, <2>3 DEF PostureIsCurrent
    <2> QED BY <2>8, <2>9, <2>11, <2>12 DEF RunInv
  <1>8. ASSUME history' = history, evalRuns' = evalRuns
        PROVE  /\ RunsNumbered' /\ CompletedRows' /\ ThisRun' = n
               /\ RowsOf(ThisRun)' = RowsOf(n)
    <2>1. RunsNumbered' /\ CompletedRows' /\ ThisRun' = n
      BY <1>8, RowsStay
    <2>2. RowsOf(ThisRun)' = RowsOf(n)
      BY <1>8, <2>1 DEF RowsOf
    <2> QED BY <2>1, <2>2
  <1>9. CASE ReadPrevious
    <2> DEFINE at == IF Controls = {} THEN "count" ELSE "next"
               x == [e EXCEPT !.at = at]
               y == [x EXCEPT !.todo = Controls]
               z == [y EXCEPT !.previous = verdicts]
               w == [z EXCEPT !.enforced = (burnIn = "enforced")]
    <2>1. e.at = "begun" /\ evaluation' = w /\ history' = history /\ evalRuns' = evalRuns
      BY <1>9 DEF ReadPrevious
    <2>2. EvalRecord(x) /\ x.at = at /\ x.counts = e.counts /\ x.verdict = e.verdict
      BY <1>1 DEF EvalRecord
    <2> HIDE DEF x
    <2>3. EvalRecord(y) /\ y.at = at /\ y.counts = e.counts /\ y.verdict = e.verdict /\ y.todo = Controls
      BY <2>2 DEF EvalRecord
    <2> HIDE DEF y
    <2>4. EvalRecord(z) /\ z.at = at /\ z.counts = e.counts /\ z.verdict = e.verdict /\ z.todo = Controls
      BY <2>3 DEF EvalRecord
    <2> HIDE DEF z
    <2>5. EvalRecord(w) /\ w.at = at /\ w.counts = e.counts /\ w.verdict = e.verdict /\ w.todo = Controls
      BY <2>4 DEF EvalRecord
    <2> HIDE DEF w
    <2>6. RowsOf(n) = {} /\ e.counts = NoCounts /\ n > 0 /\ evalRuns[n].status # "completed"
      BY <2>1 DEF RunInv, RunInHand, InRun
    <2>7. Tallied(RowsOf(n), w.counts, w.todo)
      BY <2>5, <2>6, NoneTallied
    <2>8. RunInHand'
      <3>1. w.at \in {"count", "next"} /\ (w.at = "count" => Controls = {})
        BY <2>5
      <3>2. ThisRun' = n /\ RowsOf(ThisRun)' = RowsOf(n) /\ evaluation' = w /\ evalRuns' = evalRuns
        BY <1>8, <2>1
      <3> HIDE DEF at
      <3> QED BY <1>1, <2>5, <2>6, <2>7, <3>1, <3>2 DEF RunInHand, InRun
    <2>9. PostureIsCurrent'
      BY <2>1, <2>5 DEF PostureIsCurrent
    <2> QED BY <1>8, <2>1, <2>8, <2>9 DEF RunInv
  <1>10. ASSUME NEW c \in Controls, LookUpSignal(c) PROVE RunInv'
    <2> DEFINE x == [e EXCEPT !.at = "upsert"]
               y == [x EXCEPT !.control = c]
               z == [y EXCEPT !.verdict = VerdictOn(c)]
    <2>1. /\ e.at = "next" /\ c \in e.todo
          /\ evaluation' = z /\ history' = history /\ evalRuns' = evalRuns
      BY <1>10 DEF LookUpSignal
    <2>2. EvalRecord(x) /\ x.at = "upsert" /\ x.counts = e.counts /\ x.todo = e.todo
      BY <1>1 DEF EvalRecord
    <2> HIDE DEF x
    <2>3. /\ EvalRecord(y) /\ y.at = "upsert" /\ y.counts = e.counts /\ y.todo = e.todo
          /\ y.control = c
      BY <2>2 DEF EvalRecord
    <2> HIDE DEF y
    <2>4. /\ EvalRecord(z) /\ z.at = "upsert" /\ z.counts = e.counts /\ z.todo = e.todo
          /\ z.control = c /\ z.verdict = VerdictOn(c)
      BY <2>3 DEF EvalRecord
    <2> HIDE DEF z
    <2>5. VerdictOn(c) \in Verdict
      BY DEF VerdictOn, Verdict
    <2>6. Tallied(RowsOf(n), e.counts, e.todo) /\ n > 0 /\ evalRuns[n].status # "completed"
      BY <2>1 DEF RunInv, RunInHand, InRun
    <2>7. RunInHand'
      BY <1>1, <1>8, <2>1, <2>4, <2>5, <2>6 DEF RunInHand, InRun
    <2>8. PostureIsCurrent'
      BY <2>1, <2>4 DEF PostureIsCurrent
    <2> QED BY <1>8, <2>1, <2>7, <2>8 DEF RunInv
  <1>11. CASE UpsertVerdict
    <2> DEFINE x == [e EXCEPT !.at = "history"]
    <2>1. /\ e.at = "upsert" /\ evaluation' = x /\ history' = history /\ evalRuns' = evalRuns
      BY <1>11 DEF UpsertVerdict
    <2>2. /\ EvalRecord(x) /\ x.at = "history" /\ x.counts = e.counts /\ x.todo = e.todo
          /\ x.control = e.control /\ x.verdict = e.verdict
      BY <1>1 DEF EvalRecord
    <2> HIDE DEF x
    <2>3. /\ Tallied(RowsOf(n), e.counts, e.todo) /\ n > 0 /\ evalRuns[n].status # "completed"
          /\ e.control \in e.todo
      BY <2>1 DEF RunInv, RunInHand, InRun
    <2>4. RunInHand'
      BY <1>1, <1>8, <2>1, <2>2, <2>3 DEF RunInHand, InRun
    <2>5. PostureIsCurrent'
      BY <2>1, <2>2 DEF PostureIsCurrent
    <2> QED BY <1>8, <2>1, <2>4, <2>5 DEF RunInv
  <1>12. CASE InsertHistory
    <2> DEFINE c == e.control
               left == e.todo \ {c}
               h == [run |-> n, control |-> c, verdict |-> e.verdict]
               at == IF left = {} THEN "count" ELSE "next"
               counts == [e.counts EXCEPT ![e.verdict] = e.counts[e.verdict] + 1]
               x == [e EXCEPT !.todo = left]
               y == [x EXCEPT !.counts = counts]
               z == [y EXCEPT !.at = at]
    <2>1. e.at = "history" /\ history' = history \cup {h} /\ evalRuns' = evalRuns
      BY <1>12 DEF InsertHistory
    <2>2. /\ EvalRecord(x) /\ x.counts = e.counts /\ x.todo = left /\ x.verdict = e.verdict
      <3> HIDE DEF left
      <3> QED BY <1>1 DEF EvalRecord
    <2>3. evaluation' = z
      BY <1>12, <2>2 DEF InsertHistory
    <2> HIDE DEF x
    <2>4. /\ EvalRecord(y) /\ y.counts = counts /\ y.todo = left /\ y.verdict = e.verdict
      BY <2>2 DEF EvalRecord
    <2> HIDE DEF y
    <2>5. EvalRecord(z) /\ z.at = at /\ z.counts = counts /\ z.todo = left /\ z.verdict = e.verdict
      BY <2>4 DEF EvalRecord
    <2> HIDE DEF z
    <2>6. /\ Tallied(RowsOf(n), e.counts, e.todo) /\ n > 0 /\ evalRuns[n].status # "completed"
          /\ c \in e.todo
      BY <2>1 DEF RunInv, RunInHand, InRun
    <2>7. h.run = n /\ h.control = c /\ h.verdict = e.verdict
      OBVIOUS
    <2> HIDE DEF h
    <2>8. Tallied(RowsOf(n) \cup {h}, counts, left)
      BY <1>1, <2>6, <2>7, OneMoreTallied
    <2>9. ThisRun' = n /\ RowsOf(ThisRun)' = RowsOf(n) \cup {h}
      <3>1. ThisRun' = n
        BY <2>1 DEF ThisRun
      <3> QED BY <2>1, <2>7, <3>1 DEF RowsOf
    <2>10. \A r \in 1..n : r # n => RowsOf(r)' = RowsOf(r)
      BY <2>1, <2>7 DEF RowsOf
    <2>11. RunsNumbered'
      BY <1>1, <2>1, <2>6, <2>7, <2>9 DEF RunsNumbered
    <2>12. CompletedRows'
      <3>1. ASSUME NEW r \in 1..n, evalRuns[r].status = "completed"
            PROVE  Tallied(RowsOf(r)', evalRuns[r].counts, {})
        <4>1. r # n
          BY <2>6, <3>1
        <4> QED BY <1>1, <2>10, <3>1, <4>1 DEF RunInv, CompletedRows
      <3> QED BY <1>1, <2>1, <3>1 DEF CompletedRows
    <2> HIDE DEF counts, left
    <2>13. RunInHand'
      BY <1>1, <2>1, <2>3, <2>5, <2>6, <2>8, <2>9 DEF RunInHand, InRun
    <2>14. PostureIsCurrent'
      BY <2>3, <2>5 DEF PostureIsCurrent
    <2> QED BY <2>11, <2>12, <2>13, <2>14 DEF RunInv
  <1>13. CASE CompleteRun
    <2> DEFINE x == [e EXCEPT !.at = "posture"]
               row == [status |-> "completed", counts |-> e.counts]
    <2>1. /\ e.at = "count" /\ evaluation' = x /\ history' = history
          /\ evalRuns' = [evalRuns EXCEPT ![n] = row]
      BY <1>13 DEF CompleteRun
    <2>2. EvalRecord(x) /\ x.at = "posture" /\ x.verdict = e.verdict
      BY <1>1 DEF EvalRecord
    <2> HIDE DEF x
    <2>3. Tallied(RowsOf(n), e.counts, {}) /\ n > 0
      BY <2>1 DEF RunInv, RunInHand, InRun
    <2>4. DOMAIN evalRuns' = 1..n /\ \A r \in 1..n : evalRuns'[r] = IF r = n THEN row ELSE evalRuns[r]
      BY <1>1, <2>1
    <2>5. ThisRun' = n
      BY <1>1, <2>4 DEF ThisRun
    <2>6. \A r : RowsOf(r)' = RowsOf(r)
      BY <2>1 DEF RowsOf
    <2>7. row.counts = e.counts /\ RunRecord(row)
      BY DEF RunRecord
    <2> HIDE DEF row
    <2>8. RunsNumbered'
      BY <1>1, <2>1, <2>4, <2>5, <2>7 DEF RunsNumbered
    <2>9. ASSUME NEW r \in 1..n, evalRuns'[r].status = "completed"
          PROVE  Tallied(RowsOf(r)', evalRuns'[r].counts, {})
      <3>1. CASE r = n
        BY <2>3, <2>4, <2>6, <2>7, <3>1
      <3>2. CASE r # n
        BY <1>1, <2>4, <2>6, <2>9, <3>2 DEF RunInv, CompletedRows
      <3> QED BY <3>1, <3>2
    <2>10. CompletedRows'
      BY <2>4, <2>9 DEF CompletedRows
    <2>11. RunInHand'
      BY <1>1, <2>1, <2>2, <2>3, <2>5 DEF RunInHand, InRun
    <2>12. PostureIsCurrent'
      BY <2>1, <2>2 DEF PostureIsCurrent
    <2> QED BY <2>8, <2>10, <2>11, <2>12 DEF RunInv
  <1>14. CASE ComputePosture
    <2>1. /\ posture' = VerdictCounts /\ evaluation' = NoEvaluation
          /\ verdicts' = verdicts /\ history' = history /\ evalRuns' = evalRuns
      BY <1>14 DEF ComputePosture
    <2>2. RunInHand'
      BY <2>1, NoEvaluationIsRecord DEF RunInHand, InRun
    <2>3. PostureIsCurrent'
      <3>1. VerdictCounts' = VerdictCounts
        BY <2>1 DEF VerdictCounts, Quantify
      <3> QED BY <2>1, <3>1 DEF PostureIsCurrent
    <2> QED BY <1>8, <2>1, <2>2, <2>3 DEF RunInv
  <1>15. CASE EvaluationThrows
    <2>1. e.at \notin {"none", "again"} /\ n > 0
      BY <1>15 DEF EvaluationThrows, RunInv, RunInHand
    <2>2. CASE /\ evalRuns' = [evalRuns EXCEPT ![n].status = "failed"] /\ evaluation' = NoEvaluation
               /\ history' = history
      <3> DEFINE row == [evalRuns[n] EXCEPT !.status = "failed"]
      <3>1. /\ DOMAIN evalRuns' = 1..n
            /\ \A r \in 1..n : evalRuns'[r] = IF r = n THEN row ELSE evalRuns[r]
        BY <1>1, <2>2
      <3>2. row.status # "completed" /\ RunRecord(row)
        BY <1>1, <2>1 DEF RunRecord
      <3> HIDE DEF row
      <3>3. RunsNumbered' /\ CompletedRows' /\ ThisRun' = n
        BY <1>1, <2>2, <3>1, <3>2, RowsStay
      <3>4. RunInHand'
        BY <2>2, NoEvaluationIsRecord DEF RunInHand, InRun
      <3>5. PostureIsCurrent'
        BY <1>1, <2>1, <3>1, <3>2, <3>3 DEF PostureIsCurrent
      <3> QED BY <3>3, <3>4, <3>5 DEF RunInv
    <2>3. CASE /\ evaluation' = [NoEvaluation EXCEPT !.broken = TRUE] /\ evalRuns' = evalRuns
               /\ history' = history
      <3> DEFINE x == [NoEvaluation EXCEPT !.broken = TRUE]
      <3>1. /\ EvalRecord(x) /\ x.at = "none" /\ x.counts = NoCounts /\ x.verdict \in Verdict
        <4>1. EvalRecord(x)
          BY NoEvaluationIsRecord, BrokenIsRecord
        <4> QED BY <4>1 DEF NoEvaluation, Verdict
      <3>2. x.broken
        BY DEF NoEvaluation
      <3>3. evaluation' = x
        BY <2>3
      <3> HIDE DEF x
      <3>4. RunInHand'
        BY <3>1, <3>3 DEF RunInHand, InRun
      <3>5. PostureIsCurrent'
        BY <3>2, <3>3 DEF PostureIsCurrent
      <3> QED BY <1>8, <2>3, <3>4, <3>5 DEF RunInv
    <2> QED BY <1>15, <2>2, <2>3 DEF EvaluationThrows
  <1>16. CASE EvaluationDies
    <2> DEFINE at == IF e.broken THEN "none" ELSE "again"
               x == [NoEvaluation EXCEPT !.at = at]
               y == [x EXCEPT !.broken = TRUE]
    <2>1. evaluation' = y /\ evalRuns' = evalRuns /\ history' = history
      BY <1>16 DEF EvaluationDies
    <2>2. EvalRecord(x) /\ x.at = at /\ x.counts = NoCounts /\ x.verdict \in Verdict
      BY NoEvaluationIsRecord DEF EvalRecord
    <2> HIDE DEF x
    <2>3. EvalRecord(y) /\ y.at = at /\ y.counts = NoCounts /\ y.verdict \in Verdict
      <3> HIDE DEF at
      <3>1. EvalRecord(y)
        BY <2>2, BrokenIsRecord
      <3>2. y.at = x.at /\ y.counts = x.counts /\ y.verdict = x.verdict
        BY <2>2 DEF EvalRecord
      <3> QED BY <2>2, <3>1, <3>2
    <2>4. y.broken
      <3>1. "broken" \in DOMAIN x
        BY <2>2 DEF EvalRecord
      <3> QED BY <3>1
    <2> HIDE DEF y
    <2>5. RunInHand'
      BY <2>1, <2>3 DEF RunInHand, InRun
    <2>6. PostureIsCurrent'
      BY <2>1, <2>4 DEF PostureIsCurrent
    <2> QED BY <1>8, <2>1, <2>5, <2>6 DEF RunInv
  <1> QED
    BY <1>3, <1>4, <1>5, <1>6, <1>7, <1>9, <1>10, <1>11, <1>12, <1>13, <1>14, <1>15, <1>16
    DEF ComplianceNext
\* CompletedRunIsWhole: a completed run counts its own rows, one for each control, and the posture is
\* that of the current verdicts, for any controls and any number of runs, failures and deaths
\* (complianceEvaluationService.ts:31-60, 126-155).
THEOREM CompletedRunsAreWhole == ComplianceSpec => []CompletedRunIsWhole
  <1>1. ASSUME RunInv PROVE CompletedRunIsWhole
    <2>1. ASSUME NEW r \in DOMAIN evalRuns, evalRuns[r].status = "completed"
          PROVE  /\ evalRuns[r].counts =
                        [v \in Verdict |-> Quantify(RowsOf(r), LAMBDA h : h.verdict = v)]
                 /\ \A c \in Controls : \E h \in RowsOf(r) : h.control = c
                 /\ Cardinality(RowsOf(r)) = Cardinality(Controls)
      <3>1. Tallied(RowsOf(r), evalRuns[r].counts, {})
        BY <1>1, <2>1 DEF RunInv, CompletedRows
      <3>2. /\ Cardinality(RowsOf(r)) = Cardinality(Controls)
            /\ \A c \in Controls : \E h \in RowsOf(r) : h.control = c
        BY <3>1, FS_EmptySet, FS_CardinalityType DEF Tallied
      <3>3. evalRuns[r].counts =
                [v \in Verdict |-> Quantify(RowsOf(r), LAMBDA h : h.verdict = v)]
        BY <3>1 DEF Tallied, Quantify
      <3> QED BY <3>2, <3>3
    <2> QED BY <1>1, <2>1 DEF CompletedRunIsWhole, RunInv, PostureIsCurrent
  <1> QED BY RunInit, RunStep, <1>1, PTL DEF ComplianceSpec
\* What a run counts is at most the number of controls.
LEMMA TalliedIsTyped ==
    ASSUME NEW rows, NEW counts, NEW todo, Tallied(rows, counts, todo)
    PROVE  counts \in RunCounts
  <1>1. IsFiniteSet(rows) /\ Cardinality(rows) \in Nat
    BY FS_CardinalityType DEF Tallied
  <1>2. Cardinality(rows) <= Cardinality(Controls) /\ Cardinality(Controls) \in Nat
    <2>1. IsFiniteSet(todo) /\ IsFiniteSet(Controls)
      BY ComplianceAssumption, FS_Subset DEF ComplianceAssumption, Tallied
    <2>2. Cardinality(todo) \in Nat /\ Cardinality(Controls) \in Nat
      BY <2>1, FS_CardinalityType
    <2> QED BY <1>1, <2>2 DEF Tallied
  <1>3. ASSUME NEW v \in Verdict
        PROVE  Cardinality({h \in rows : h.verdict = v}) \in 0..Cardinality(Controls)
    <2> DEFINE S == {h \in rows : h.verdict = v}
    <2>1. IsFiniteSet(S) /\ Cardinality(S) <= Cardinality(rows)
      BY <1>1, FS_Subset
    <2>2. Cardinality(S) \in Nat
      BY <2>1, FS_CardinalityType
    <2> QED BY <1>1, <1>2, <2>1, <2>2
  <1> QED BY <1>3 DEF Tallied, RunCounts

LEMMA PostureIsTyped == VerdictCounts \in RunCounts
  <1>1. IsFiniteSet(Controls) /\ Cardinality(Controls) \in Nat
    BY ComplianceAssumption, FS_CardinalityType DEF ComplianceAssumption
  <1>2. ASSUME NEW v \in Verdict
        PROVE  Cardinality({c \in Controls : verdicts[c] = v}) \in 0..Cardinality(Controls)
    <2> DEFINE S == {c \in Controls : verdicts[c] = v}
    <2>1. IsFiniteSet(S) /\ Cardinality(S) <= Cardinality(Controls)
      BY <1>1, FS_Subset
    <2>2. Cardinality(S) \in Nat
      BY <2>1, FS_CardinalityType
    <2> QED BY <1>1, <2>1, <2>2
  <1> QED BY <1>2 DEF VerdictCounts, Quantify, RunCounts

LEMMA NoCountsTyped == NoCounts \in RunCounts
  <1>1. Cardinality(Controls) \in Nat
    BY ComplianceAssumption, FS_CardinalityType DEF ComplianceAssumption
  <1> QED BY <1>1 DEF NoCounts, RunCounts

LEMMA ComplianceTypeInit == ComplianceInit => ComplianceTypeOK
  <1> SUFFICES ASSUME ComplianceInit PROVE ComplianceTypeOK
    OBVIOUS
  <1>1. complianceDay \in Days
    BY ComplianceAssumption DEF ComplianceInit, Days, ComplianceAssumption
  <1>2. posture \in RunCounts
    BY NoCountsTyped DEF ComplianceInit
  <1>3. evaluation.at = "none" /\ evaluation.todo = {} /\ evaluation.verdict \in Verdict
    BY DEF ComplianceInit, NoEvaluation, Verdict
  <1>4. DOMAIN evalRuns = {}
    BY DEF ComplianceInit
  <1> QED
    BY <1>1, <1>2, <1>3, <1>4 DEF ComplianceInit, ComplianceTypeOK, RunCounts

LEMMA ComplianceTypeStep ==
    ComplianceTypeOK /\ RunInv /\ [ComplianceNext]_complianceVars => ComplianceTypeOK'
  <1> SUFFICES ASSUME ComplianceTypeOK, RunInv, [ComplianceNext]_complianceVars
               PROVE  ComplianceTypeOK'
    OBVIOUS
  <1> DEFINE e == evaluation
             n == ThisRun
             Drop == [control : Controls, day : Days]
             Note == [control : Controls, day : Days,
                      seed : [control : Controls \cup {Unevaluated}, day : Days]]
             Run == [status : {"running", "completed", "failed"}, counts : RunCounts]
             Places == {"none", "again", "begun", "next", "upsert", "history", "count", "posture"}
             Day == complianceDay \in Days /\ burnIn \in {"observe", "enforced"}
                    /\ evidence \subseteq [control : Controls, observed : Days, gap : BOOLEAN]
             Alerts == dispatches \subseteq Drop /\ owed \subseteq Drop /\ lostAlerts \subseteq Drop
                       /\ notifications \subseteq Note
             Results == verdicts \in [Controls -> Verdict \cup {Unevaluated}] /\ posture \in RunCounts
             RunRows == /\ history \subseteq [run : DOMAIN evalRuns, control : Controls, verdict : Verdict]
                        /\ \A r \in DOMAIN evalRuns : evalRuns[r] \in Run
             Job == evaluation.at \in Places /\ evaluation.todo \subseteq Controls
                    /\ evaluation.verdict \in Verdict
  <1>1. Day /\ Alerts /\ Results /\ RunRows /\ Job
    BY DEF ComplianceTypeOK, RunCounts
  <1>2. Day' /\ Alerts' /\ Results' /\ RunRows' /\ Job' => ComplianceTypeOK'
    BY DEF ComplianceTypeOK, RunCounts
  <1>3. /\ UNCHANGED <<complianceDay, burnIn, evidence>> => Day'
        /\ UNCHANGED <<dispatches, owed, lostAlerts, notifications>> => Alerts'
        /\ UNCHANGED <<verdicts, posture>> => Results'
        /\ UNCHANGED <<history, evalRuns>> => RunRows'
        /\ UNCHANGED evaluation => Job'
    BY <1>1
  <1>4. /\ n \in Nat /\ DOMAIN evalRuns = 1..n /\ EvalRecord(e)
    BY DEF RunInv, RunsNumbered, RunInHand
  <1>5. RunInv'
    BY RunStep
  <1> HIDE DEF Day, Alerts, Results, RunRows, Job
  <1>6. ASSUME NEW c \in Controls, NEW day \in Days, IngestSignal(c, day) PROVE ComplianceTypeOK'
    <2> DEFINE s == [control |-> c, observed |-> day, gap |-> burnIn = "observe"]
    <2>1. s \in [control : Controls, observed : Days, gap : BOOLEAN]
      <3>1. (burnIn = "observe") \in BOOLEAN
        OBVIOUS
      <3> QED BY <3>1, Zenon
    <2>2. evidence' = evidence \cup {s} /\ UNCHANGED <<complianceDay, burnIn>>
      BY <1>6 DEF IngestSignal
    <2> HIDE DEF s
    <2>3. Day'
      BY <1>1, <2>1, <2>2 DEF Day
    <2> QED BY <1>1, <1>2, <1>3, <1>6, <2>3 DEF IngestSignal
  <1>7. CASE Promote
    <2>1. Day'
      BY <1>1, <1>7 DEF Promote, Day
    <2> QED BY <1>1, <1>2, <1>3, <1>7, <2>1 DEF Promote
  <1>8. CASE NextComplianceDay
    <2>1. Day'
      BY <1>1, <1>8, ComplianceAssumption DEF NextComplianceDay, Day, Days, ComplianceAssumption
    <2> QED BY <1>1, <1>2, <1>3, <1>8, <2>1 DEF NextComplianceDay
  <1>9. CASE BeginRun
    <2>1. UNCHANGED <<complianceDay, burnIn, evidence, verdicts, history, posture, dispatches,
                      notifications, owed, lostAlerts>>
      BY <1>9 DEF BeginRun
    <2>2. RunRows'
      <3> DEFINE new == [status |-> "running", counts |-> NoCounts]
      <3>1. evalRuns' = [r \in 1..(n + 1) |-> IF r <= n THEN evalRuns[r] ELSE new]
        BY <1>9 DEF BeginRun
      <3>2. new \in Run
        BY NoCountsTyped
      <3> HIDE DEF new
      <3>3. DOMAIN evalRuns' = 1..(n + 1) /\ DOMAIN evalRuns \subseteq DOMAIN evalRuns'
        BY <1>4, <3>1
      <3>4. \A r \in 1..(n + 1) : evalRuns'[r] \in Run
        BY <1>1, <1>4, <3>1, <3>2 DEF RunRows
      <3> QED BY <1>1, <2>1, <3>3, <3>4 DEF RunRows
    <2>3. Job'
      <3> DEFINE x == [e EXCEPT !.at = "begun"]
                 y == [x EXCEPT !.broken = (e.at = "again")]
      <3>1. evaluation' = y
        BY <1>9 DEF BeginRun
      <3>2. EvalRecord(x) /\ x.at = "begun" /\ x.todo = e.todo /\ x.verdict = e.verdict
        BY <1>4 DEF EvalRecord
      <3> HIDE DEF x
      <3>3. y.at = "begun" /\ y.todo = e.todo /\ y.verdict = e.verdict
        BY <3>2 DEF EvalRecord
      <3> HIDE DEF y
      <3> QED BY <1>1, <3>1, <3>3 DEF Job
    <2> QED BY <1>1, <1>2, <1>3, <2>1, <2>2, <2>3
  <1>10. CASE ReadPrevious
    <2>1. UNCHANGED <<complianceDay, burnIn, evidence, verdicts, history, evalRuns, posture,
                      dispatches, notifications, owed, lostAlerts>>
      BY <1>10 DEF ReadPrevious
    <2>2. evaluation'.todo = Controls
      BY <1>4, <1>10 DEF ReadPrevious, EvalRecord
    <2>3. Job'
      BY <1>5, <2>2 DEF Job, RunInv, RunInHand, InRun
    <2> QED BY <1>1, <1>2, <1>3, <2>1, <2>3
  <1>11. ASSUME evaluation.todo' \subseteq evaluation.todo PROVE Job'
    BY <1>1, <1>5, <1>11 DEF Job, RunInv, RunInHand, InRun
  <1>12. ASSUME NEW c \in Controls, LookUpSignal(c) PROVE ComplianceTypeOK'
    <2>1. UNCHANGED <<complianceDay, burnIn, evidence, verdicts, history, evalRuns, posture,
                      dispatches, notifications, owed, lostAlerts>>
      BY <1>12 DEF LookUpSignal
    <2>2. evaluation'.todo = e.todo
      BY <1>4, <1>12 DEF LookUpSignal, EvalRecord
    <2> QED BY <1>1, <1>2, <1>3, <1>11, <2>1, <2>2
  <1>13. e.at \in {"upsert", "history"} => e.control \in Controls
    BY DEF RunInv, RunInHand, InRun, Tallied
  <1>14. CASE UpsertVerdict
    <2> DEFINE d == [control |-> e.control, day |-> complianceDay]
    <2>1. /\ e.at = "upsert" /\ verdicts' = [verdicts EXCEPT ![e.control] = e.verdict]
          /\ evaluation' = [e EXCEPT !.at = "history"]
          /\ UNCHANGED <<complianceDay, burnIn, evidence, history, evalRuns, posture, notifications,
                         lostAlerts>>
      BY <1>14 DEF UpsertVerdict
    <2>2. PICK drop \in {{}, {d}} : dispatches' = dispatches \cup drop /\ owed' = owed \cup drop
      BY <1>14 DEF UpsertVerdict
    <2>3. d \in Drop
      BY <1>1, <1>13, <2>1 DEF Day
    <2> HIDE DEF d
    <2>4. Alerts'
      BY <1>1, <2>1, <2>2, <2>3 DEF Alerts
    <2>5. Results'
      BY <1>1, <1>13, <2>1 DEF Results, Job
    <2>6. evaluation'.todo = e.todo
      BY <1>4, <2>1 DEF EvalRecord
    <2> QED BY <1>1, <1>2, <1>3, <1>11, <2>1, <2>4, <2>5, <2>6
  <1>15. CASE InsertHistory
    <2> DEFINE h == [run |-> n, control |-> e.control, verdict |-> e.verdict]
    <2>1. /\ e.at = "history" /\ history' = history \cup {h} /\ evalRuns' = evalRuns
          /\ UNCHANGED <<complianceDay, burnIn, evidence, verdicts, posture, dispatches,
                         notifications, owed, lostAlerts>>
      BY <1>15 DEF InsertHistory
    <2>2. h \in [run : DOMAIN evalRuns, control : Controls, verdict : Verdict]
      <3>1. n \in 1..n
        BY <1>4, <2>1 DEF RunInv, RunInHand, InRun
      <3> QED BY <1>1, <1>4, <1>13, <2>1, <3>1 DEF Job
    <2> HIDE DEF h
    <2>3. RunRows'
      BY <1>1, <2>1, <2>2 DEF RunRows
    <2>4. evaluation'.todo \subseteq e.todo
      <3> DEFINE left == e.todo \ {e.control}
                 x == [e EXCEPT !.todo = left]
                 y == [x EXCEPT !.counts = [e.counts EXCEPT ![e.verdict] = e.counts[e.verdict] + 1]]
                 z == [y EXCEPT !.at = IF left = {} THEN "count" ELSE "next"]
      <3>1. EvalRecord(x) /\ x.counts = e.counts /\ x.todo = left
        <4> HIDE DEF left
        <4> QED BY <1>4 DEF EvalRecord
      <3>2. evaluation' = z
        BY <1>15, <3>1 DEF InsertHistory
      <3> HIDE DEF x
      <3>3. EvalRecord(y) /\ y.todo = left
        <4> HIDE DEF left
        <4> QED BY <3>1 DEF EvalRecord
      <3> HIDE DEF y
      <3>4. z.todo = left
        <4> HIDE DEF left
        <4> QED BY <3>3 DEF EvalRecord
      <3> HIDE DEF z
      <3> QED BY <3>2, <3>4
    <2> QED BY <1>1, <1>2, <1>3, <1>11, <2>1, <2>3, <2>4
  <1>16. CASE CompleteRun
    <2> DEFINE row == [status |-> "completed", counts |-> e.counts]
    <2>1. /\ e.at = "count" /\ evalRuns' = [evalRuns EXCEPT ![n] = row]
          /\ evaluation' = [e EXCEPT !.at = "posture"]
          /\ UNCHANGED <<complianceDay, burnIn, evidence, verdicts, history, posture, dispatches,
                         notifications, owed, lostAlerts>>
      BY <1>16 DEF CompleteRun
    <2>2. row \in Run
      BY <2>1, TalliedIsTyped DEF RunInv, RunInHand, InRun
    <2> HIDE DEF row
    <2>3. RunRows'
      BY <1>1, <2>1, <2>2 DEF RunRows
    <2>4. evaluation'.todo = e.todo
      BY <1>4, <2>1 DEF EvalRecord
    <2> QED BY <1>1, <1>2, <1>3, <1>11, <2>1, <2>3, <2>4
  <1>17. NoEvaluation.todo = {}
    BY DEF NoEvaluation
  <1>18. CASE ComputePosture
    <2>1. /\ posture' = VerdictCounts /\ evaluation' = NoEvaluation
          /\ UNCHANGED <<complianceDay, burnIn, evidence, verdicts, history, evalRuns, dispatches,
                         notifications, owed, lostAlerts>>
      BY <1>18 DEF ComputePosture
    <2>2. Results'
      BY <1>1, <2>1, PostureIsTyped DEF Results
    <2> QED BY <1>1, <1>2, <1>3, <1>11, <1>17, <2>1, <2>2
  <1>19. CASE EvaluationThrows
    <2>1. UNCHANGED <<complianceDay, burnIn, evidence, verdicts, history, posture, dispatches,
                      notifications, owed, lostAlerts>>
      BY <1>19 DEF EvaluationThrows
    <2>2. evaluation'.todo = {}
      BY <1>17, <1>19 DEF EvaluationThrows, NoEvaluation
    <2>3. RunRows'
      <3>1. CASE evalRuns' = [evalRuns EXCEPT ![n].status = "failed"]
        <4> DEFINE row == [evalRuns[n] EXCEPT !.status = "failed"]
        <4>1. n \in 1..n
          BY <1>4, <1>19 DEF EvaluationThrows, RunInv, RunInHand
        <4>2. row \in Run
          BY <1>1, <1>4, <4>1 DEF RunRows
        <4>3. evalRuns' = [evalRuns EXCEPT ![n] = row]
          BY <3>1
        <4> HIDE DEF row
        <4> QED BY <1>1, <2>1, <4>2, <4>3 DEF RunRows
      <3>2. CASE evalRuns' = evalRuns
        BY <1>3, <2>1, <3>2
      <3> QED BY <1>19, <3>1, <3>2 DEF EvaluationThrows
    <2> QED BY <1>1, <1>2, <1>3, <1>11, <2>1, <2>2, <2>3
  <1>20. CASE EvaluationDies
    <2>1. /\ lostAlerts' = lostAlerts \cup dispatches /\ dispatches' = {}
          /\ UNCHANGED <<complianceDay, burnIn, evidence, verdicts, history, evalRuns, posture,
                         notifications, owed>>
      BY <1>20 DEF EvaluationDies
    <2>2. evaluation'.todo = {}
      BY <1>17, <1>20 DEF EvaluationDies, NoEvaluation
    <2>3. Alerts'
      BY <1>1, <2>1 DEF Alerts
    <2> QED BY <1>1, <1>2, <1>3, <1>11, <2>1, <2>2, <2>3
  <1>21. ASSUME NEW d \in dispatches, DispatchAlert(d) PROVE ComplianceTypeOK'
    <2> DEFINE m == [control |-> d.control, day |-> complianceDay, seed |-> Seed(d)]
    <2>1. /\ notifications' = notifications \/ notifications' = notifications \cup {m}
          /\ dispatches' = dispatches \ {d}
          /\ UNCHANGED <<complianceDay, burnIn, evidence, verdicts, history, evalRuns, posture,
                         evaluation, owed, lostAlerts>>
      BY <1>21 DEF DispatchAlert
    <2>2. m \in Note
      BY <1>1 DEF Alerts, Day, Seed
    <2> HIDE DEF m
    <2>3. Alerts'
      BY <1>1, <2>1, <2>2 DEF Alerts
    <2> QED BY <1>1, <1>2, <1>3, <2>1, <2>3
  <1>22. ASSUME NEW d \in dispatches, DispatchFails(d) PROVE ComplianceTypeOK'
    <2>1. Alerts'
      BY <1>1, <1>22 DEF DispatchFails, Alerts
    <2> QED BY <1>1, <1>2, <1>3, <1>22, <2>1 DEF DispatchFails
  <1>23. CASE UNCHANGED complianceVars
    BY <1>1, <1>2, <1>3, <1>23 DEF complianceVars
  <1> QED
    BY <1>6, <1>7, <1>8, <1>9, <1>10, <1>12, <1>14, <1>15, <1>16, <1>18, <1>19, <1>20, <1>21, <1>22,
       <1>23 DEF ComplianceNext

\* Type correctness of the evaluation: verdicts, rows, runs and the job hold what they are declared
\* to hold, and no run or posture counts more than the product's controls
\* (complianceEvaluationService.ts:24-155).
THEOREM ComplianceTypesCorrect == ComplianceSpec => []ComplianceTypeOK
  <1>1. ComplianceInit => ComplianceTypeOK /\ RunInv
    BY ComplianceTypeInit, RunInit
  <1>2. ComplianceTypeOK /\ RunInv /\ [ComplianceNext]_complianceVars => (ComplianceTypeOK /\ RunInv)'
    BY ComplianceTypeStep, RunStep
  <1> QED BY <1>1, <1>2, PTL DEF ComplianceSpec
-----------------------------------------------------------------------------
(* The roll-up of a closed bucket is whole.                                *)

\* An event of the bucket before that of t, or of a later one, lies within two buckets' lengths.
LEMMA TwoBucketsBack ==
    ASSUME NEW t \in Nat, NEW at \in Nat, BucketOf(at) >= BucketOf(t) - 1
    PROVE  at >= t - 2 * BucketLength
  <1> DEFINE k == BucketLength
             a == at \div k
             b == t \div k
  <1>1. k \in Nat \ {0}
    BY RollupAssumption DEF RollupAssumption
  <1>2. a \in Nat /\ k * a <= at
    BY <1>1, DivisionBounds
  <1>3. b \in Nat /\ t < k * b + k
    BY <1>1, DivisionBounds
  <1>4. a >= b - 1
    BY DEF BucketOf
  <1> HIDE DEF k, a, b
  <1>5. k * (b - 1) <= k * a
    BY <1>1, <1>2, <1>3, <1>4, ProductMonotone
  <1>6. k * (b - 1) = k * b - k
    BY <1>1, <1>3
  <1>7. k * a \in Nat /\ k * b \in Nat
    BY <1>1, <1>2, <1>3
  <1>8. at >= t - 2 * k
    BY <1>1, <1>2, <1>3, <1>5, <1>6, <1>7
  <1> QED BY <1>8 DEF k

\* What the last run found is still there; what a bucket counts is stored, and occurred in it.
StoredStay ==
    /\ lastRun.at \in Nat /\ lastRun.stored \subseteq DOMAIN metricEvents
    /\ \A b \in Buckets : rollups[b] \subseteq DOMAIN metricEvents

RollupInv == RollupTypeOK /\ StoredStay /\ ClosedBucketIsWhole

LEMMA RollupInitInv == RollupInit => RollupInv
  <1> SUFFICES ASSUME RollupInit PROVE RollupInv
    OBVIOUS
  <1>1. /\ tick = 0 /\ DOMAIN metricEvents = {} /\ rollups = [b \in Buckets |-> {}]
        /\ rollupJobs = 0 /\ lastRun.at = 0 /\ lastRun.stored = {} /\ rollupsDone = FALSE
    BY DEF RollupInit
  <1>2. RollupTypeOK
    BY <1>1, RollupAssumption DEF RollupTypeOK, RollupAssumption
  <1>3. StoredStay
    BY <1>1 DEF StoredStay
  <1>4. ClosedBucketIsWhole
    BY <1>1 DEF ClosedBucketIsWhole
  <1> QED BY <1>2, <1>3, <1>4 DEF RollupInv

LEMMA RollupStep == RollupInv /\ [RollupNext]_rollupVars => RollupInv'
  <1> SUFFICES ASSUME RollupInv, [RollupNext]_rollupVars PROVE RollupInv'
    OBVIOUS
  <1>1. /\ tick \in 0..LastTick /\ LastTick \in Nat /\ rollupJobs \in Nat
        /\ DOMAIN metricEvents \subseteq MetricEvents
        /\ \A e \in DOMAIN metricEvents : metricEvents[e] \in Times
        /\ rollups \in [Buckets -> SUBSET MetricEvents]
        /\ StoredStay /\ ClosedBucketIsWhole
    BY RollupAssumption DEF RollupInv, RollupTypeOK, RollupAssumption
  <1>2. ASSUME tick' \in 0..LastTick, rollupJobs' \in Nat,
               UNCHANGED <<metricEvents, rollups, lastRun, rollupsDone>>
        PROVE  RollupInv'
    BY <1>1, <1>2 DEF RollupInv, RollupTypeOK, StoredStay, ClosedBucketIsWhole
  <1>3. CASE PassTick
    BY <1>1, <1>2, <1>3 DEF PassTick
  <1>4. CASE RollupFails
    BY <1>1, <1>2, <1>4 DEF RollupFails
  <1>5. ASSUME NEW e \in MetricEvents, NEW at \in Times, IngestMetric(e, at) PROVE RollupInv'
    <2>1. /\ e \notin DOMAIN metricEvents
          /\ metricEvents' = [f \in DOMAIN metricEvents \cup {e} |->
                                IF f = e THEN at ELSE metricEvents[f]]
          /\ UNCHANGED <<tick, rollups, rollupJobs, lastRun, rollupsDone>>
      BY <1>5 DEF IngestMetric
    <2>2. /\ DOMAIN metricEvents' = DOMAIN metricEvents \cup {e} /\ metricEvents'[e] = at
          /\ \A f \in DOMAIN metricEvents : metricEvents'[f] = metricEvents[f]
      BY <2>1
    <2>3. RollupTypeOK'
      BY <1>1, <2>1, <2>2 DEF RollupTypeOK
    <2>4. StoredStay'
      BY <1>1, <2>1, <2>2 DEF StoredStay
    <2>5. ClosedBucketIsWhole'
      BY <1>1, <2>1, <2>2 DEF StoredStay, ClosedBucketIsWhole
    <2> QED BY <2>3, <2>4, <2>5 DEF RollupInv
  <1>6. CASE RunRollup
    <2>1. /\ rollupJobs > 0 /\ rollupJobs' = rollupJobs - 1
          /\ rollups' = [b \in Buckets |-> IF Group(b) # {} THEN Group(b) ELSE rollups[b]]
          /\ lastRun' = [at |-> tick, stored |-> DOMAIN metricEvents]
          /\ UNCHANGED <<tick, metricEvents>>
      BY <1>6 DEF RunRollup
    <2>2. \A b \in Buckets : Group(b) \subseteq DOMAIN metricEvents
      BY DEF Group
    <2>3. \A b \in Buckets : rollups'[b] = Group(b) \/ rollups'[b] = rollups[b]
      BY <2>1
    <2>4. RollupTypeOK'
      <3>1. rollups' \in [Buckets -> SUBSET MetricEvents]
        BY <1>1, <2>1, <2>2
      <3> QED BY <1>1, <2>1, <3>1 DEF RollupTypeOK
    <2>5. lastRun'.at = tick /\ lastRun'.stored = DOMAIN metricEvents
      BY <2>1
    <2>6. StoredStay'
      BY <1>1, <2>1, <2>2, <2>3, <2>5 DEF StoredStay
    <2>7. ASSUME NEW e \in DOMAIN metricEvents, BucketOf(metricEvents[e]) >= BucketOf(tick) - 1
          PROVE  e \in rollups'[BucketOf(metricEvents[e])]
      <3>1. metricEvents[e] \in Times /\ metricEvents[e] \in Nat /\ tick \in Nat
        BY <1>1, RollupAssumption DEF Times, RollupAssumption
      <3>2. metricEvents[e] >= Lookback
        BY <2>7, <3>1, TwoBucketsBack DEF Lookback
      <3>3. e \in Group(BucketOf(metricEvents[e]))
        BY <3>2 DEF Group
      <3>4. BucketOf(metricEvents[e]) \in Buckets
        BY <3>1 DEF Buckets
      <3> QED BY <2>1, <3>3, <3>4
    <2>8. ASSUME NEW b \in Buckets, NEW e \in rollups'[b] PROVE BucketOf(metricEvents[e]) = b
      BY <1>1, <2>3, <2>8 DEF ClosedBucketIsWhole, Group
    <2>9. ClosedBucketIsWhole'
      BY <2>1, <2>5, <2>7, <2>8 DEF ClosedBucketIsWhole
    <2> QED BY <2>4, <2>6, <2>9 DEF RollupInv
  <1>7. CASE UNCHANGED rollupVars
    BY <1>1, <1>2, <1>7 DEF rollupVars
  <1> QED BY <1>3, <1>4, <1>5, <1>6, <1>7 DEF RollupNext

\* ClosedBucketIsWhole: a run leaves the bucket that has just closed and the ones after it with every
\* event stored by then, whatever a bucket's length, the minute of the cron, the age at which events
\* may come and the runs that were missed: two lengths back from any moment of a bucket reach the
\* start of the one before (rollupService.ts:105-128).
THEOREM ClosedBucketsAreWhole == RollupSpec => []ClosedBucketIsWhole
  <1>1. RollupInv => ClosedBucketIsWhole
    BY DEF RollupInv
  <1> QED BY RollupInitInv, RollupStep, <1>1, PTL DEF RollupSpec

\* Type correctness of the roll-ups: buckets hold events that were stored (rollupService.ts:60-135).
THEOREM RollupTypesCorrect == RollupSpec => []RollupTypeOK
  <1>1. RollupInv => RollupTypeOK
    BY DEF RollupInv
  <1> QED BY RollupInitInv, RollupStep, <1>1, PTL DEF RollupSpec
-----------------------------------------------------------------------------
(* The grants of a quarterly plan.                                         *)

MonthNumbers == 1..Len(MonthDays)

\* The grant of the subscription's month m: its quarter, counted from the first day, and its place.
GrantOf(m) == [cycle |-> <<1 + 3 * (m \div 3), firstDay[2]>>, position |-> (m % 3) + 1, month |-> m]

\* If every month has the first day's day, all renewals fall on it, and a grant is its month's.
QuarterlyInv ==
    /\ firstDay \in Date /\ firstDay[1] = 1
    /\ today \in Date /\ NotAfter(firstDay, today)
    /\ periodStart \in Date /\ NotAfter(periodStart, today)
    /\ grants \subseteq [cycle : Date, position : 1..3, month : 0..Len(MonthDays)]
    /\ EveryMonthHas(firstDay[2]) =>
         /\ \E k \in Nat : periodStart = <<1 + 3 * k, firstDay[2]>>
         /\ \A g \in grants : \E m \in 0..(Len(MonthDays) - 1) : g = GrantOf(m)

LEMMA Calendar ==
    /\ Len(MonthDays) \in Nat \ {0} /\ DOMAIN MonthDays = MonthNumbers
    /\ \A m \in MonthNumbers : MonthDays[m] \in Nat \ {0}
    /\ \A d \in AnchorDays : d \in 1..MonthDays[1]
    /\ \A m, n \in MonthNumbers : MonthDays[m] <= 2 * MonthDays[n]
    /\ 1 \in MonthNumbers
  BY AnchorAssumption DEF AnchorAssumption, MonthNumbers

LEMMA Dates ==
    ASSUME NEW x \in Date
    PROVE  /\ x[1] \in MonthNumbers /\ x[2] \in 1..MonthDays[x[1]] /\ x = <<x[1], x[2]>>
           /\ x[1] \in Nat /\ x[2] \in Nat
  <1>1. x[1] \in MonthNumbers /\ x[2] \in 1..MonthDays[x[1]] /\ x = <<x[1], x[2]>>
    BY Calendar DEF Date
  <1> QED BY <1>1 DEF MonthNumbers

LEMMA DatesMade ==
    ASSUME NEW m \in MonthNumbers, NEW d \in 1..MonthDays[m]
    PROVE  <<m, d>> \in Date
  BY Calendar DEF Date

\* The number of anniversaries of the first day that are not after today.
Anniversaries == (today[1] - 1) - (IF today[2] < Anniversary(today[1] - 1)[2] THEN 1 ELSE 0)

\* The anniversary in a month of the calendar is a day of it.
LEMMA AnniversaryDay ==
    ASSUME QuarterlyInv, NEW m \in MonthNumbers
    PROVE  /\ Anniversary(m - 1) \in Date /\ Anniversary(m - 1)[1] = m
           /\ EveryMonthHas(firstDay[2]) => Anniversary(m - 1) = <<m, firstDay[2]>>
  <1>1. firstDay[1] = 1 /\ firstDay[2] \in Nat \ {0} /\ m \in Nat
    BY Calendar, Dates DEF QuarterlyInv, MonthNumbers
  <1>2. firstDay[1] + (m - 1) = m /\ m \in DOMAIN MonthDays /\ MonthDays[m] \in Nat \ {0}
    BY <1>1, Calendar
  <1>3. Anniversary(m - 1) = <<m, IF MonthDays[m] < firstDay[2] THEN MonthDays[m] ELSE firstDay[2]>>
    BY <1>2 DEF Anniversary
  <1>4. (IF MonthDays[m] < firstDay[2] THEN MonthDays[m] ELSE firstDay[2]) \in 1..MonthDays[m]
    BY <1>1, <1>2
  <1>5. EveryMonthHas(firstDay[2]) => ~ (MonthDays[m] < firstDay[2])
    BY <1>1, <1>2 DEF EveryMonthHas
  <1> QED BY <1>3, <1>4, <1>5, DatesMade

LEMMA AnniversaryMonth ==
    ASSUME QuarterlyInv, NEW n \in Nat
    PROVE  Anniversary(n)[1] = n + 1 /\ Anniversary(n)[2] \in Nat
  <1>1. firstDay[1] = 1 /\ firstDay[2] \in Nat
    BY Dates DEF QuarterlyInv
  <1>2. \A m \in DOMAIN MonthDays : MonthDays[m] \in Nat
    BY Calendar
  <1> QED BY <1>1, <1>2 DEF Anniversary

\* today is in the month that its anniversaries count, and in no other if they fall on one day.
LEMMA MonthOfToday ==
    ASSUME QuarterlyInv
    PROVE  /\ MonthOf(today) \in 0..Len(MonthDays)
           /\ Anniversaries \in 0..(Len(MonthDays) - 1)
           /\ MonthOf(today) = Anniversaries
  <1>1. /\ today[1] \in MonthNumbers /\ today[1] \in Nat /\ today[2] \in Nat
        /\ firstDay[1] = 1 /\ firstDay[2] \in Nat /\ Len(MonthDays) \in Nat
        /\ 1 <= today[1] /\ today[1] <= Len(MonthDays) /\ today[1] - 1 \in Nat
    BY Calendar, Dates DEF QuarterlyInv, MonthNumbers
  <1>2. \A n \in Nat : Anniversary(n)[1] = n + 1 /\ Anniversary(n)[2] \in Nat
    BY AnniversaryMonth
  <1>3. Anniversary(today[1] - 1)[2] \in Nat
    BY <1>1, <1>2
  <1>4. Anniversaries \in 0..(Len(MonthDays) - 1)
    <2>1. CASE today[1] = 1
      <3>1. firstDay[2] <= today[2]
        BY <1>1, <2>1 DEF QuarterlyInv, NotAfter, Before
      <3>2. Anniversary(today[1] - 1)[2] <= firstDay[2]
        BY <1>1, <2>1, Calendar DEF Anniversary
      <3> QED BY <1>1, <1>3, <2>1, <3>1, <3>2 DEF Anniversaries
    <2>2. CASE today[1] # 1
      BY <1>1, <2>2 DEF Anniversaries
    <2> QED BY <2>1, <2>2
  <1>5. ASSUME NEW n \in 0..Len(MonthDays)
        PROVE  (NotAfter(Anniversary(n), today) /\ Before(today, Anniversary(n + 1))) <=> n = Anniversaries
    <2>1. n \in Nat /\ n + 1 \in Nat
      BY <1>1
    <2>2. /\ Anniversary(n)[1] = n + 1 /\ Anniversary(n)[2] \in Nat
          /\ Anniversary(n + 1)[1] = n + 2 /\ Anniversary(n + 1)[2] \in Nat
      BY <1>2, <2>1
    <2>3. CASE n = today[1] - 1
      BY <1>1, <1>3, <2>2, <2>3 DEF NotAfter, Before, Anniversaries
    <2>4. CASE n + 1 = today[1] - 1
      BY <1>1, <1>3, <2>2, <2>4 DEF NotAfter, Before, Anniversaries
    <2>5. CASE n # today[1] - 1 /\ n + 1 # today[1] - 1
      BY <1>1, <1>3, <2>1, <2>2, <2>5 DEF NotAfter, Before, Anniversaries
    <2> QED BY <2>3, <2>4, <2>5
  <1>6. Anniversaries \in 0..Len(MonthDays)
    BY <1>1, <1>4
  <1>7. MonthOf(today) = Anniversaries
    BY <1>5, <1>6 DEF MonthOf
  <1> QED BY <1>4, <1>6, <1>7

\* The cycle's first day is a day of the calendar, even where setUTCMonth runs over.
LEMMA CycleStarts ==
    ASSUME QuarterlyInv
    PROVE  CycleOf(periodStart, today).start \in Date /\ CycleOf(periodStart, today).position \in 1..3
  <1> DEFINE p == periodStart[1]
             d == periodStart[2]
             elapsed == MonthsElapsed(periodStart, today)
             m == p + (elapsed \div 3) * 3
  <1>1. /\ p \in Nat /\ d \in Nat /\ 1 <= p /\ 1 <= d /\ p \in MonthNumbers /\ d <= MonthDays[p]
        /\ today[1] \in Nat /\ today[2] \in Nat /\ today[1] \in MonthNumbers
        /\ today[2] <= MonthDays[today[1]] /\ MonthDays[today[1]] \in Nat /\ MonthDays[p] \in Nat
    BY Calendar, Dates DEF QuarterlyInv, MonthNumbers
  <1>2. ~ (today[1] < p) /\ ~ (today[1] = p /\ today[2] < d)
    BY DEF QuarterlyInv, NotAfter, Before
  <1>3. /\ elapsed = (today[1] - p) - (IF today[2] < d THEN 1 ELSE 0)
        /\ CycleOf(periodStart, today).start = AddMonths(periodStart, (elapsed \div 3) * 3)
        /\ CycleOf(periodStart, today).position = (elapsed % 3) + 1
    BY DEF MonthsElapsed, CycleOf
  <1>4. elapsed \in Nat
    BY <1>1, <1>2, <1>3
  <1>5. AddMonths(periodStart, (elapsed \div 3) * 3)
            = IF m \in DOMAIN MonthDays /\ d > MonthDays[m] THEN <<m + 1, d - MonthDays[m]>> ELSE <<m, d>>
    BY DEF AddMonths
  <1> HIDE DEF elapsed
  <1>6. /\ m \in Nat /\ m <= p + elapsed /\ 1 <= m /\ (elapsed % 3) + 1 \in 1..3
    BY <1>1, <1>4
  <1> HIDE DEF m, p, d
  <1>7. m <= today[1] /\ (today[2] < d => m < today[1])
    BY <1>1, <1>3, <1>4, <1>6
  <1>8. m \in MonthNumbers
    BY <1>1, <1>6, <1>7, Calendar DEF MonthNumbers
  <1>9. MonthDays[m] \in Nat \ {0} /\ DOMAIN MonthDays = MonthNumbers
    BY <1>8, Calendar
  <1>10. CASE d > MonthDays[m]
    <2>1. m # today[1]
      BY <1>1, <1>7, <1>9, <1>10
    <2>2. m + 1 \in MonthNumbers
      BY <1>1, <1>6, <1>7, <2>1, Calendar DEF MonthNumbers
    <2>3. /\ MonthDays[p] <= 2 * MonthDays[m] /\ MonthDays[p] <= 2 * MonthDays[m + 1]
          /\ MonthDays[m + 1] \in Nat
      BY <1>1, <1>8, <2>2, Calendar
    <2>4. d - MonthDays[m] \in 1..MonthDays[m + 1]
      BY <1>1, <1>9, <1>10, <2>3
    <2>5. <<m + 1, d - MonthDays[m]>> \in Date
      BY <2>2, <2>4, DatesMade
    <2> QED BY <1>3, <1>5, <1>6, <1>8, <1>9, <1>10, <2>5
  <1>11. CASE ~ (d > MonthDays[m])
    <2>1. d \in 1..MonthDays[m]
      BY <1>1, <1>9, <1>11
    <2>2. <<m, d>> \in Date
      BY <1>8, <2>1, DatesMade
    <2> QED BY <1>3, <1>5, <1>6, <1>11, <2>2
  <1> QED BY <1>10, <1>11

\* Whatever renewal the row knows of, the cycle and the position are those of the month.
LEMMA CycleOfMonth ==
    ASSUME QuarterlyInv, EveryMonthHas(firstDay[2])
    PROVE  /\ CycleOf(periodStart, today).start = <<1 + 3 * (Anniversaries \div 3), firstDay[2]>>
           /\ CycleOf(periodStart, today).position = (Anniversaries % 3) + 1
  <1>1. PICK k \in Nat : periodStart = <<1 + 3 * k, firstDay[2]>>
    BY DEF QuarterlyInv
  <1>2. /\ today[1] \in Nat /\ today[2] \in Nat /\ firstDay[2] \in Nat /\ today[1] \in MonthNumbers
    BY Calendar, Dates DEF QuarterlyInv, MonthNumbers
  <1> DEFINE elapsed == MonthsElapsed(periodStart, today)
  <1>3. elapsed = Anniversaries - 3 * k /\ Anniversaries \in Int /\ elapsed \in Int
    <2>1. Anniversary(today[1] - 1)[2] = firstDay[2]
      BY <1>2, AnniversaryDay
    <2> QED BY <1>1, <1>2, <2>1 DEF MonthsElapsed, Anniversaries
  <1>4. /\ 1 + 3 * k + (elapsed \div 3) * 3 = 1 + 3 * (Anniversaries \div 3)
        /\ elapsed % 3 = Anniversaries % 3 /\ elapsed \div 3 \in Int
    BY <1>3
  <1>5. AddMonths(periodStart, (elapsed \div 3) * 3) = <<1 + 3 * (Anniversaries \div 3), firstDay[2]>>
    <2>1. \A m \in DOMAIN MonthDays : ~ (firstDay[2] > MonthDays[m])
      BY <1>2, Calendar DEF EveryMonthHas
    <2> QED BY <1>1, <1>4, <2>1 DEF AddMonths
  <1> QED BY <1>4, <1>5 DEF CycleOf

LEMMA QuarterlyInitInv == QuarterlyInit => QuarterlyInv
  <1> SUFFICES ASSUME QuarterlyInit PROVE QuarterlyInv
    OBVIOUS
  <1>1. PICK d \in AnchorDays : firstDay = <<1, d>>
    BY DEF QuarterlyInit
  <1>2. today = firstDay /\ periodStart = firstDay /\ grants = {} /\ firstDay[2] = d /\ d \in Nat
    BY <1>1, Calendar DEF QuarterlyInit
  <1>3. firstDay \in Date /\ firstDay[1] = 1
    BY <1>1, <1>2, Calendar, DatesMade
  <1>4. periodStart = <<1 + 3 * 0, firstDay[2]>>
    BY <1>1, <1>2
  <1>5. NotAfter(firstDay, today) /\ NotAfter(periodStart, today)
    BY <1>1, <1>2 DEF NotAfter, Before
  <1> QED BY <1>2, <1>3, <1>4, <1>5 DEF QuarterlyInv

LEMMA QuarterlyStep == QuarterlyInv /\ [QuarterlyNext]_quarterlyVars => QuarterlyInv'
  <1> SUFFICES ASSUME QuarterlyInv, [QuarterlyNext]_quarterlyVars PROVE QuarterlyInv'
    OBVIOUS
  <1>0. UNCHANGED firstDay => (EveryMonthHas(firstDay[2])' <=> EveryMonthHas(firstDay[2]))
    BY DEF EveryMonthHas
  <1>1. CASE NextDay
    <2>1. /\ UNCHANGED <<firstDay, periodStart, grants>> /\ today' \in Date
          /\ today' = <<today[1], today[2] + 1>> \/ today' = <<today[1] + 1, 1>>
      BY <1>1 DEF NextDay
    <2>2. /\ today[1] \in Nat /\ today[2] \in Nat
          /\ \/ today'[1] = today[1] /\ today'[2] = today[2] + 1
             \/ today'[1] = today[1] + 1
      BY <2>1, Dates DEF QuarterlyInv
    <2>3. ASSUME NEW x \in Date, NotAfter(x, today) PROVE NotAfter(x, today')
      <3>1. x[1] \in Nat /\ x[2] \in Nat
        BY Dates
      <3> QED BY <2>2, <2>3, <3>1 DEF NotAfter, Before
    <2>4. NotAfter(firstDay, today') /\ NotAfter(periodStart, today')
      BY <2>3 DEF QuarterlyInv
    <2> QED BY <1>0, <2>1, <2>4 DEF QuarterlyInv, NotAfter, Before, GrantOf
  <1>2. CASE RenewalArrives
    <2>1. PICK k \in 0..Len(MonthDays) :
            periodStart' = Anniversary(3 * k) /\ NotAfter(periodStart', today)
      BY <1>2 DEF RenewalArrives
    <2>2. UNCHANGED <<today, firstDay, grants>>
      BY <1>2 DEF RenewalArrives
    <2>3. k \in Nat /\ 3 * k \in Nat /\ 3 * k + 1 \in Nat /\ (3 * k + 1) - 1 = 3 * k
      BY <2>1, Calendar
    <2>4. periodStart'[1] = 3 * k + 1 /\ today[1] \in MonthNumbers
      BY <2>1, <2>3, AnniversaryMonth, Dates DEF QuarterlyInv
    <2>5. 3 * k + 1 \in MonthNumbers
      BY <2>1, <2>3, <2>4, Calendar DEF NotAfter, Before, MonthNumbers
    <2>6. /\ periodStart' \in Date
          /\ EveryMonthHas(firstDay[2]) => periodStart' = <<3 * k + 1, firstDay[2]>>
      BY <2>1, <2>3, <2>5, AnniversaryDay
    <2>7. EveryMonthHas(firstDay[2]) => periodStart' = <<1 + 3 * k, firstDay[2]>>
      BY <2>3, <2>6
    <2> QED BY <1>0, <2>1, <2>2, <2>3, <2>6, <2>7 DEF QuarterlyInv, NotAfter, Before, GrantOf
  <1>3. CASE SubUnlock
    <2> DEFINE cycle == CycleOf(periodStart, today)
               new == [cycle |-> CycleId(periodStart, cycle.start), position |-> cycle.position,
                       month |-> MonthOf(today)]
    <2>1. /\ UNCHANGED <<today, firstDay, periodStart>>
          /\ grants' = grants \/ grants' = grants \cup {new}
      BY <1>3 DEF SubUnlock
    <2>2. new \in [cycle : Date, position : 1..3, month : 0..Len(MonthDays)]
      BY CycleStarts, MonthOfToday DEF CycleId
    <2>3. EveryMonthHas(firstDay[2]) => new = GrantOf(Anniversaries)
      BY CycleOfMonth, MonthOfToday DEF GrantOf, CycleId
    <2> HIDE DEF new
    <2>4. EveryMonthHas(firstDay[2]) =>
            \A g \in grants' : \E m \in 0..(Len(MonthDays) - 1) : g = GrantOf(m)
      BY <2>1, <2>3, MonthOfToday DEF QuarterlyInv
    <2>5. \A m : GrantOf(m)' = GrantOf(m)
      BY <2>1 DEF GrantOf
    <2>6. grants' \subseteq [cycle : Date, position : 1..3, month : 0..Len(MonthDays)]
      BY <2>1, <2>2 DEF QuarterlyInv
    <2> QED BY <1>0, <2>1, <2>4, <2>5, <2>6 DEF QuarterlyInv, NotAfter, Before
  <1>4. CASE UNCHANGED quarterlyVars
    BY <1>0, <1>4 DEF quarterlyVars, QuarterlyInv, NotAfter, Before, GrantOf
  <1> QED BY <1>1, <1>2, <1>3, <1>4 DEF QuarterlyNext

\* NoMonthGrantedTwice: for a subscription that began on a day every month of the calendar has, the
\* grant is a function of the subscription's month alone, whichever renewal the row knows of
\* (quarterlyCycleService.ts:116-133).
THEOREM MonthsAreGrantedOnce == QuarterlySpec => []NoMonthGrantedTwice
  <1>1. ASSUME QuarterlyInv PROVE NoMonthGrantedTwice
    <2>1. ASSUME NEW m, NEW n, GrantOf(m).month = GrantOf(n).month PROVE GrantOf(m) = GrantOf(n)
      BY <2>1 DEF GrantOf
    <2> QED BY <1>1, <2>1 DEF QuarterlyInv, NoMonthGrantedTwice
  <1> QED BY QuarterlyInitInv, QuarterlyStep, <1>1, PTL DEF QuarterlySpec

LEMMA QuarterlyTypes == QuarterlyInv => QuarterlyTypeOK
  BY DEF QuarterlyInv, QuarterlyTypeOK

\* Type correctness of the cycles, for subscriptions that begin on any day: however setUTCMonth runs
\* over, a grant names a day of the calendar, one of the three months of a cycle and a month of the
\* subscription (quarterlyCycleService.ts:36-133).
THEOREM QuarterlyTypesCorrect == QuarterlySpec => []QuarterlyTypeOK
  BY QuarterlyInitInv, QuarterlyStep, QuarterlyTypes, PTL DEF QuarterlySpec
================================================================================
