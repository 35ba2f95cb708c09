--------------------------------- MODULE Rollup ---------------------------------
(***************************************************************************)
(* The roll-ups of one metric in one window (rollupService.ts): raw events *)
(* come in late and out of order, and a job that the cron adds shortly     *)
(* after each bucket closes writes the aggregates of the events in its     *)
(* lookback over the ones of earlier runs.                                 *)
(*                                                                         *)
(* An aggregate (sum, average, maximum, last) is a function of the events  *)
(* it is computed from, so a roll-up is modelled by the set of them.  A    *)
(* batch that is sent again adds new rows: they are new events here.       *)
(* Left out: the validation of events, and the retention of raw ones,      *)
(* which nothing in the repository does yet.                               *)
(***************************************************************************)
EXTENDS Integers, FiniteSets

CONSTANTS
    BucketLength,       \* length of an hour, a day or a month, in ticks
    CronOffset,         \* ticks between the end of a bucket and the job
    OldestEvent,        \* MIN_AGE_MS
    FutureSkew,         \* MAX_FUTURE_MS
    MetricEvents,       \* rows of metric_events
    LastTick            \* bound: the clock

ASSUME RollupAssumption ==
    /\ BucketLength \in Nat \ {0} /\ CronOffset \in 0..(BucketLength - 1)
    /\ OldestEvent \in Nat /\ FutureSkew \in Nat /\ LastTick \in Nat

VARIABLES
    tick,               \* the time
    metricEvents,       \* metric_events: when each event occurred
    rollups,            \* metric_rollups: bucket -> the events aggregated
    rollupJobs,         \* jobs that wait in the queue
    lastRun,            \* history: when the last run was, and what was stored then
    rollupsDone         \* history: a run has been made

rollupVars == <<tick, metricEvents, rollups, rollupJobs, lastRun, rollupsDone>>

Times == 0..(LastTick + FutureSkew)

\* DATE_TRUNC: the number of the bucket that the time t falls in.
BucketOf(t) == t \div BucketLength
Buckets == {BucketOf(t) : t \in Times}

RollupInit ==
    /\ tick = 0
    /\ metricEvents = [e \in {} |-> 0]
    /\ rollups = [b \in Buckets |-> {}]
    /\ rollupJobs = 0
    /\ lastRun = [at |-> 0, stored |-> {}] /\ rollupsDone = FALSE

-----------------------------------------------------------------------------
\* Fresh enough, and not too far in the future.
IngestMetric(e, at) ==
    /\ e \notin DOMAIN metricEvents
    /\ at \in (tick - OldestEvent)..(tick + FutureSkew)
    /\ metricEvents' = [f \in DOMAIN metricEvents \cup {e} |-> IF f = e THEN at ELSE metricEvents[f]]
    /\ UNCHANGED <<tick, rollups, rollupJobs, lastRun, rollupsDone>>

\* The clock, and the cron that adds a job at its minute.
PassTick ==
    /\ tick < LastTick
    /\ tick' = tick + 1
    /\ rollupJobs' = rollupJobs + (IF tick' % BucketLength = CronOffset THEN 1 ELSE 0)
    /\ UNCHANGED <<metricEvents, rollups, lastRun, rollupsDone>>

\* Mutant: one bucket's length back from the run.
LookbackOfOne == tick - BucketLength

\* The start of the lookback: two buckets' lengths back from the run, wherever in a bucket it is.
Lookback == tick - 2 * BucketLength

\* The statement's groups: the events of bucket b that lie within the lookback.
Group(b) ==
    {e \in DOMAIN metricEvents : metricEvents[e] >= Lookback /\ BucketOf(metricEvents[e]) = b}

\* One job: a bucket that has events in the lookback is overwritten, the others stay.
RunRollup ==
    /\ rollupJobs > 0
    /\ rollupJobs' = rollupJobs - 1
    /\ rollups' = [b \in Buckets |-> IF Group(b) # {} THEN Group(b) ELSE rollups[b]]
    /\ lastRun' = [at |-> tick, stored |-> DOMAIN metricEvents] /\ rollupsDone' = TRUE
    /\ UNCHANGED <<tick, metricEvents>>

\* The statement throws, or the worker dies: the scheduled job is not tried again.
RollupFails ==
    /\ rollupJobs > 0
    /\ rollupJobs' = rollupJobs - 1
    /\ UNCHANGED <<tick, metricEvents, rollups, lastRun, rollupsDone>>

RollupNext ==
    \/ PassTick \/ RunRollup \/ RollupFails
    \/ \E e \in MetricEvents, at \in Times : IngestMetric(e, at)

RollupSpec == RollupInit /\ [][RollupNext]_rollupVars

-----------------------------------------------------------------------------
\* Type invariant of the events, the roll-ups and the queue.
RollupTypeOK ==
    /\ tick \in 0..LastTick
    /\ DOMAIN metricEvents \subseteq MetricEvents
    /\ \A e \in DOMAIN metricEvents : metricEvents[e] \in Times
    /\ rollups \in [Buckets -> SUBSET MetricEvents]
    /\ rollupJobs \in Nat

\* A run leaves the bucket that has just closed and the ones after it with all the events stored by
\* then, however late, out of order or after how many runs that were skipped or came late; what a
\* bucket counts, it counts in its own (rollupService.ts:105-128).
ClosedBucketIsWhole ==
    /\ rollupsDone =>
        \A e \in lastRun.stored :
            BucketOf(metricEvents[e]) >= BucketOf(lastRun.at) - 1
                => e \in rollups[BucketOf(metricEvents[e])]
    /\ \A b \in Buckets : \A e \in rollups[b] : BucketOf(metricEvents[e]) = b
================================================================================
