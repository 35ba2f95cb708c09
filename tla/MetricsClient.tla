----------------------------- MODULE MetricsClient ------------------------------
(***************************************************************************)
(* The SDK's metrics buffer (metricsClient.ts): push, the flush that takes *)
(* the whole buffer and posts it, and the loop that flushes on a timer.    *)
(* JavaScript runs each step up to an await; pushes come in between.       *)
(* Events are numbered in the order in which they are pushed.              *)
(*                                                                         *)
(* The hub (POST /bi/metrics) stores a batch whole or not at all, refuses  *)
(* a large one, and does not know that a client has given up: it may store *)
(* a batch after the client's timeout.                                     *)
(*                                                                         *)
(* External: the token, the network and when the hub gets to a batch.      *)
(* Left out: the catalogue of names, and which events of a batch the hub   *)
(* drops.                                                                  *)
(***************************************************************************)
EXTENDS Naturals, Sequences

CONSTANTS
    MaxBufferSize,      \* maxBufferSize
    MaxBatch,           \* the largest batch that the hub takes: 1000
    MaxEvents,          \* bound: events pushed
    MaxMetricFaults     \* bound: requests that do not end well

ASSUME MetricsAssumption ==
    /\ MaxBufferSize \in Nat \ {0} /\ MaxBatch \in Nat \ {0}
    /\ MaxEvents \in Nat /\ MaxMetricFaults \in Nat

VARIABLES
    pushed,             \* how many events have been pushed
    metricBuffer,       \* this.buffer
    flushing,           \* this.flushing
    flights,            \* the flushes under way: batch, what they wait for, who called flush()
    flushTimer,         \* the interval is set
    ingested,           \* events the hub has stored
    late,               \* batches given up that the hub may still store
    forgotten,          \* history: events the client let go of without an answer
    metricFaults

metricVars == <<pushed, metricBuffer, flushing, flights, flushTimer, ingested, late, forgotten,
                metricFaults>>

Event == 1..MaxEvents
Elements(s) == {s[i] : i \in DOMAIN s}

MetricInit ==
    /\ pushed = 0 /\ metricBuffer = <<>>
    /\ flushing = FALSE /\ flights = {}
    /\ flushTimer = FALSE
    /\ ingested = {} /\ late = {} /\ forgotten = {}
    /\ metricFaults = 0

-----------------------------------------------------------------------------
\* The events that the client still has.
Unanswered == Elements(metricBuffer) \cup UNION {Elements(f.batch) : f \in flights}

MayFlush(buffer) == buffer # <<>> /\ ~flushing

TakeBatch(buffer, caller) ==
    /\ flushing' = TRUE
    /\ flights' = flights \cup {[batch |-> buffer, at |-> "token", caller |-> caller]}
    /\ metricBuffer' = <<>>

\* A full buffer is flushed in the same turn, by a call whose rejection nobody handles.
PushMetric ==
    /\ pushed < MaxEvents
    /\ pushed' = pushed + 1
    /\ LET buffer == Append(metricBuffer, pushed + 1)
       IN IF Len(buffer) >= MaxBufferSize /\ MayFlush(buffer)
          THEN TakeBatch(buffer, "push")
          ELSE metricBuffer' = buffer /\ UNCHANGED <<flushing, flights>>
    /\ UNCHANGED <<flushTimer, ingested, late, forgotten, metricFaults>>

\* A tick of the loop.
TickFlush ==
    /\ flushTimer
    /\ MayFlush(metricBuffer)
    /\ TakeBatch(metricBuffer, "loop")
    /\ UNCHANGED <<pushed, flushTimer, ingested, late, forgotten, metricFaults>>

\* flush() called by the product, to which a rejection goes.
FlushByHand ==
    /\ MayFlush(metricBuffer)
    /\ TakeBatch(metricBuffer, "product")
    /\ UNCHANGED <<pushed, flushTimer, ingested, late, forgotten, metricFaults>>

\* startFlushLoop and stopFlushLoop.
SetFlushLoop ==
    /\ flushTimer' = ~flushTimer
    /\ UNCHANGED <<pushed, metricBuffer, flushing, flights, ingested, late, forgotten, metricFaults>>

-----------------------------------------------------------------------------
MetricFault == metricFaults < MaxMetricFaults /\ metricFaults' = metricFaults + 1

TooLarge(batch) == Len(batch) > MaxBatch

\* One transaction for the whole batch.
Ingest(batch) == ~TooLarge(batch) /\ ingested' = ingested \cup Elements(batch)

\* Mutant: the batch is put back whether the buffer is empty or not.
CatchAlways(f, buffer) ==
    /\ metricBuffer' = f.batch \o buffer
    /\ UNCHANGED forgotten

\* catch: the batch goes back only into an empty buffer.
Catch(f, buffer) ==
    IF buffer = <<>>
    THEN metricBuffer' = f.batch /\ UNCHANGED forgotten
    ELSE /\ metricBuffer' = buffer
         /\ forgotten' = forgotten \cup (Elements(f.batch) \ Elements(buffer))

\* Mutant: only a flush that ends well releases the next one.
FinallyAfterSuccess(f, ok) == flushing' = (flushing /\ ~ok) /\ flights' = flights \ {f}

\* finally.
Finally(f, ok) == flushing' = FALSE /\ flights' = flights \ {f}

\* Node ends a process for a rejection that nobody handles, unless the product tells it otherwise;
\* the next process begins with an empty buffer and without a loop.
ProcessEnds ==
    /\ metricBuffer' = <<>> /\ flushing' = FALSE /\ flights' = {} /\ flushTimer' = FALSE
    /\ forgotten' = forgotten \cup Unanswered

Rejects(f, buffer) ==
    \/ Catch(f, buffer) /\ Finally(f, FALSE) /\ UNCHANGED flushTimer
    \/ f.caller = "push" /\ ProcessEnds

GetToken(f) ==
    /\ f.at = "token"
    /\ flights' = (flights \ {f}) \cup {[f EXCEPT !.at = "post"]}
    /\ UNCHANGED <<pushed, metricBuffer, flushing, flushTimer, ingested, late, forgotten,
                   metricFaults>>

HubIngests(f) ==
    /\ f.at = "post"
    /\ Ingest(f.batch)
    /\ flights' = (flights \ {f}) \cup {[f EXCEPT !.at = "body"]}
    /\ UNCHANGED <<pushed, metricBuffer, flushing, flushTimer, late, forgotten, metricFaults>>

ReadAnswer(f) ==
    /\ f.at = "body"
    /\ Finally(f, TRUE)
    /\ UNCHANGED <<pushed, metricBuffer, flushTimer, ingested, late, forgotten, metricFaults>>

\* A status that is not OK puts the batch back, then throws into the catch.  A large batch always
\* gets one; after the transaction it may come from the audit entry.
HubRefuses(f) ==
    /\ f.at = "post"
    /\ IF TooLarge(f.batch) THEN UNCHANGED <<ingested, metricFaults>>
       ELSE MetricFault /\ (Ingest(f.batch) \/ UNCHANGED ingested)
    /\ Rejects(f, f.batch \o metricBuffer)
    /\ UNCHANGED <<pushed, late>>

\* No token, no connection, no JSON or no answer in time: the hub may yet store what was posted.
RequestThrows(f) ==
    /\ MetricFault
    /\ late' = late \cup {b \in {f.batch} : f.at = "post" /\ ~TooLarge(b)}
    /\ Rejects(f, metricBuffer)
    /\ UNCHANGED <<pushed, ingested>>

LateIngest ==
    \E batch \in late :
        /\ Ingest(batch)
        /\ late' = late \ {batch}
        /\ UNCHANGED <<pushed, metricBuffer, flushing, flights, flushTimer, forgotten, metricFaults>>

MetricNext ==
    \/ PushMetric \/ TickFlush \/ FlushByHand \/ SetFlushLoop \/ LateIngest
    \/ \E f \in flights :
        GetToken(f) \/ HubIngests(f) \/ ReadAnswer(f) \/ HubRefuses(f) \/ RequestThrows(f)

FlightStep ==
    \E f \in flights :
        GetToken(f) \/ HubIngests(f) \/ ReadAnswer(f) \/ (TooLarge(f.batch) /\ HubRefuses(f))

\* A timer that is set keeps ticking; a request ends, for it has a timeout.
MetricSpec == /\ MetricInit /\ [][MetricNext]_metricVars
              /\ WF_metricVars(TickFlush) /\ WF_metricVars(FlightStep)

-----------------------------------------------------------------------------
\* Type invariant of the buffer, the flushes and what the hub has.
MetricTypeOK ==
    /\ pushed \in 0..MaxEvents
    /\ metricBuffer \in Seq(Event)
    /\ flushing \in BOOLEAN /\ flushTimer \in BOOLEAN
    /\ flights \subseteq [batch : Seq(Event), at : {"token", "post", "body"},
                         caller : {"push", "loop", "product"}]
    /\ ingested \subseteq Event /\ forgotten \subseteq Event /\ late \subseteq Seq(Event)
    /\ metricFaults \in 0..MaxMetricFaults

Ascending(s) == \A i, j \in DOMAIN s : i < j => s[i] < s[j]

\* However flushes fail, what waits is in the order in which it was pushed, nothing waits twice, and
\* what is under way is older than what waits, so the client posts no event before an older one that
\* it keeps (metricsClient.ts:80-105).
MetricsInOrder ==
    /\ Ascending(metricBuffer)
    /\ \A f, g \in flights : f = g
    /\ \A f \in flights : /\ Ascending(f.batch)
                          /\ \A e \in Elements(f.batch), w \in Elements(metricBuffer) : e < w

\* No failure of a flush stops the loop: while it runs, an event that waits reaches the hub or is let
\* go of, as long as no more wait than the hub takes in one batch.  Beyond that the buffer never
\* drains: every flush posts all of it and is refused (metricsClient.ts:82-116, biMetrics.ts:48-50).
MetricsDrain ==
    \A e \in Event : e \in Elements(metricBuffer) ~>
                        (e \in ingested \cup forgotten \/ ~flushTimer \/ TooLarge(metricBuffer))
================================================================================
