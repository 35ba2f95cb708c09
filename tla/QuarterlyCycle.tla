----------------------------- MODULE QuarterlyCycle -----------------------------
(***************************************************************************)
(* The quota a quarterly plan unlocks month by month                       *)
(* (quarterlyCycleService.ts): the cycle a day falls into, computed from   *)
(* the period start in the subscription's row, and the nightly job that    *)
(* grants the cycle's months. Stripe renews every three months; the row    *)
(* learns of it when, and in the order in which, webhooks arrive.          *)
(*                                                                         *)
(* A date is a month and a day; times of day are left out. One tenant, one *)
(* dimension: grants of others never meet in the unique key.               *)
(*                                                                         *)
(* Where a month has no such day Stripe renews on its last one, and        *)
(* setUTCMonth runs over into the month after.                             *)
(***************************************************************************)
EXTENDS Integers, Sequences

CONSTANTS
    MonthDays,          \* the length of each month of the calendar
    AnchorDays          \* days of the month on which subscriptions begin

\* What runs over one month ends in the next: 28 days are more than half of 31.
ASSUME AnchorAssumption ==
    /\ MonthDays \in Seq(Nat \ {0}) /\ MonthDays # <<>>
    /\ \A d \in AnchorDays : d \in 1..MonthDays[1]
    /\ \A m, n \in DOMAIN MonthDays : MonthDays[m] <= 2 * MonthDays[n]

VARIABLES
    today,              \* the job's now
    firstDay,           \* the date the subscription began
    periodStart,        \* stripe_subscriptions.current_period_start
    grants              \* quarterly_cycle_grants; history: the month each was written in

quarterlyVars == <<today, firstDay, periodStart, grants>>

Date == UNION {{<<m, d>> : d \in 1..MonthDays[m]} : m \in DOMAIN MonthDays}
Before(a, b) == a[1] < b[1] \/ (a[1] = b[1] /\ a[2] < b[2])
NotAfter(a, b) == ~Before(b, a)

\* setUTCMonth keeps the day of the month, and runs over if the month is too short.
AddMonths(date, n) ==
    LET m == date[1] + n
    IN IF m \in DOMAIN MonthDays /\ date[2] > MonthDays[m]
       THEN <<m + 1, date[2] - MonthDays[m]>>
       ELSE <<m, date[2]>>

-----------------------------------------------------------------------------
(* getCurrentQuarterlyCycle.                                               *)

MonthsElapsed(anchor, day) ==
    (day[1] - anchor[1]) - (IF day[2] < anchor[2] THEN 1 ELSE 0)

CycleOf(anchor, day) ==
    LET elapsed == MonthsElapsed(anchor, day)
        start == AddMonths(anchor, (elapsed \div 3) * 3)
        monthStart == AddMonths(start, elapsed % 3)
    IN [start |-> start, end |-> AddMonths(start, 3), position |-> (elapsed % 3) + 1,
        monthStart |-> monthStart, monthEnd |-> AddMonths(monthStart, 1)]

\* Mutant: the cycle is named by the anchor.
CycleIdOfAnchor(anchor, start) == anchor

\* computeCycleId hashes the start of the cycle.
CycleId(anchor, start) == start

-----------------------------------------------------------------------------
\* The n-th monthly anniversary of the subscription, by Stripe (external).
Anniversary(n) ==
    LET m == firstDay[1] + n
    IN <<m, IF m \in DOMAIN MonthDays /\ MonthDays[m] < firstDay[2] THEN MonthDays[m] ELSE firstDay[2]>>

\* The month of the subscription a day is in: how many anniversaries it has behind it.
MonthOf(day) ==
    CHOOSE n \in 0..Len(MonthDays) :
        NotAfter(Anniversary(n), day) /\ Before(day, Anniversary(n + 1))

QuarterlyInit ==
    /\ firstDay \in {<<1, d>> : d \in AnchorDays}
    /\ today = firstDay /\ periodStart = firstDay
    /\ grants = {}

NextDay ==
    /\ today' \in {<<today[1], today[2] + 1>>, <<today[1] + 1, 1>>} \cap Date
    /\ today'[1] # today[1] => today[2] = MonthDays[today[1]]
    /\ UNCHANGED <<firstDay, periodStart, grants>>

\* A webhook of any renewal so far sets the period of the row.
RenewalArrives ==
    /\ periodStart' \in {d \in {Anniversary(3 * k) : k \in 0..Len(MonthDays)} : NotAfter(d, today)}
    /\ UNCHANGED <<today, firstDay, grants>>

\* runQuotaSubUnlock, INSERT ... ON CONFLICT (tenant, dimension, cycle, position) DO NOTHING.
SubUnlock ==
    LET cycle == CycleOf(periodStart, today)
        id == CycleId(periodStart, cycle.start)
    IN /\ grants' = IF \E g \in grants : g.cycle = id /\ g.position = cycle.position
                    THEN grants
                    ELSE grants \cup {[cycle |-> id, position |-> cycle.position, month |-> MonthOf(today)]}
       /\ UNCHANGED <<today, firstDay, periodStart>>

QuarterlyNext == NextDay \/ RenewalArrives \/ SubUnlock

QuarterlySpec == QuarterlyInit /\ [][QuarterlyNext]_quarterlyVars

-----------------------------------------------------------------------------
\* Type invariant of the calendar, the row and the grants.
QuarterlyTypeOK ==
    /\ today \in Date /\ firstDay \in Date /\ periodStart \in Date
    /\ grants \subseteq [cycle : Date, position : 1..3, month : 0..Len(MonthDays)]

EveryMonthHas(day) == \A m \in DOMAIN MonthDays : day <= MonthDays[m]

\* No month of a subscription that began on a day every month has is granted twice, though the job
\* runs any number of times, misses nights, and computes the cycle from a period start that lags or
\* goes back because webhooks are late or out of order (quarterlyCycleService.ts:116-133).
NoMonthGrantedTwice ==
    EveryMonthHas(firstDay[2]) => \A g, h \in grants : g.month = h.month => g = h

\* What quarterlyCycleService.ts:29-30 says of every subscription, that re-runs "hit ON CONFLICT DO
\* NOTHING instead of double-granting": no position of a cycle is granted twice within a month.
ReRunsGrantOnce ==
    \A g, h \in grants : g.month = h.month /\ g.position = h.position => g = h
================================================================================
