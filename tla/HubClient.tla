------------------------------- MODULE HubClient -------------------------------
(***************************************************************************)
(* The SDK's HubClient (src/packages/hub-sdk/src/HubClient.ts): the access *)
(* token and the refresh its requests share, the usage buffer with its     *)
(* size trigger and its interval, connect() and disconnect().              *)
(*                                                                         *)
(* The client is one thread: a process runs from one await to the next,    *)
(* and goes on in a step of its own when what it awaits has settled, even  *)
(* if that is at once: between the two the application and the other       *)
(* processes may run, in any order.  Usage events are numbered as recorded.*)
(***************************************************************************)
EXTENDS Naturals, Sequences

CONSTANTS
    Connects,           \* calls of connect(), with the version report each sends
    Disconnects,        \* calls of disconnect()
    Pings,              \* other requests: ping(), getLease(), later version reports
    Flush,              \* #flush(), of which #flushing lets one run at a time
    Refreshes,          \* acquisitions of a token that may be in flight together
    None,               \* null
    MaxBufferSize,
    MaxEvents           \* bound: how many usage events are recorded

Requests == Connects \cup Pings \cup {Flush}
Procs == Requests \cup Disconnects

ASSUME ProcsAssumption ==
    /\ Connects \cap Disconnects = {} /\ Connects \cap Pings = {}
    /\ Disconnects \cap Pings = {}
    /\ Flush \notin Connects \cup Disconnects \cup Pings
    /\ None \notin Refreshes \cup Connects
ASSUME SizesAssumption == MaxBufferSize \in Nat \ {0} /\ MaxEvents \in Nat

VARIABLES
    token,              \* token: null, about to expire, or good for a while
    shared,             \* refreshPromise
    acquiring,          \* acquisitions in flight
    pc,                 \* what each process awaits
    awaits,             \* the acquisition it awaits
    connected,          \* #connected
    loops,              \* flush intervals that are running, by the connect() that set it
    timer,              \* #flushTimer
    buffer, batch,      \* #buffer, and what #flush() has taken out of it
    tracked,            \* events recorded so far
    stored,             \* events the Hub has
    late                \* batches given up here that the Hub may still be storing

authVars == <<token, shared, acquiring, awaits>>
timerVars == <<connected, loops, timer>>
bufferVars == <<buffer, batch, tracked, stored, late>>
vars == <<token, shared, acquiring, pc, awaits, connected, loops, timer, buffer, batch,
          tracked, stored, late>>

\* What a process awaits: a token ("connect", "await", "reawait"), an answer ("sent",
\* "resent"), the final flush ("race"), or only its turn ("enter", "send", "resend", "fail",
\* "clear").
Steps == {"idle", "connect", "enter", "await", "send", "sent", "reawait", "resend", "resent",
          "fail", "race", "clear", "over"}

\* A promise that is shared, or that a process awaits, is one of an acquisition in flight.
TypeOK ==
    /\ token \in {"none", "stale", "fresh"}
    /\ acquiring \in SUBSET Refreshes
    /\ shared \in acquiring \cup {None}
    /\ pc \in [Procs -> Steps]
    /\ awaits \in [Procs -> acquiring \cup {None}]
    /\ connected \in BOOLEAN
    /\ loops \in SUBSET Connects
    /\ timer \in Connects \cup {None}
    /\ buffer \in Seq(1..MaxEvents) /\ batch \in Seq(1..MaxEvents)
    /\ tracked \in 0..MaxEvents
    /\ stored \in SUBSET (1..MaxEvents)
    /\ late \in SUBSET SUBSET (1..MaxEvents)

Init ==
    /\ token = "none" /\ shared = None /\ acquiring = {}
    /\ pc = [w \in Procs |-> "idle"]
    /\ awaits = [w \in Procs |-> None]
    /\ connected = FALSE /\ loops = {} /\ timer = None
    /\ buffer = <<>> /\ batch = <<>> /\ tracked = 0 /\ stored = {}
    /\ late = {}

-----------------------------------------------------------------------------
(* ensureFreshToken and what it leaves undone when it has to wait.         *)

\* The refresh in flight is joined, or one is started.
Join(w, promise) ==
    \E r \in Refreshes :
        /\ IF promise = None THEN r \notin acquiring ELSE r = promise
        /\ shared' = r
        /\ acquiring' = acquiring \cup {r}
        /\ awaits' = [awaits EXCEPT ![w] = r]

\* With a fresh token the process only awaits its turn.
EnsureFreshToken(w, next, wait) ==
    \/ /\ token = "fresh"
       /\ pc' = next
       /\ UNCHANGED <<shared, acquiring, awaits>>
    \/ /\ token # "fresh"
       /\ pc' = wait
       /\ Join(w, shared)

Goto(w, step) == [pc EXCEPT ![w] = step]
Send(w) == EnsureFreshToken(w, Goto(w, "send"), Goto(w, "await"))

Flushing == pc[Flush] # "idle"

\* #flush() takes all that is in the buffer.
TakeBatch(events) == batch' = events /\ buffer' = <<>>
BeginFlush(events) == TakeBatch(events) /\ Send(Flush)

\* disconnect() ends: the token is forgotten, whoever still waits for one or for its turn.
ClearAuth == token' = "none" /\ shared' = None

\* Mutant: the batch is put back behind the events recorded meanwhile.
PutBackLast(q, ok) ==
    /\ batch' = IF q = Flush THEN <<>> ELSE batch
    /\ buffer' = IF q = Flush /\ ~ok THEN buffer \o batch ELSE buffer

PutBack(q, ok) ==
    /\ batch' = IF q = Flush THEN <<>> ELSE batch
    /\ buffer' = IF q = Flush /\ ~ok THEN batch \o buffer ELSE buffer

StartFlushLoop(q) ==
    \/ q \in Connects /\ loops' = loops \cup {q} /\ timer' = q
    \/ q \notin Connects /\ UNCHANGED <<loops, timer>>

\* The request q ends.  A flush that failed puts its batch back before what was recorded
\* meanwhile; connect() goes on after its version report, however that ended, and starts
\* the interval; it is the turn of the disconnect() that waited for the flush.
End(q, ok) ==
    /\ pc' = [w \in Procs |-> IF w = q THEN IF q \in Connects THEN "over" ELSE "idle"
                              ELSE IF q = Flush /\ pc[w] = "race" THEN "clear" ELSE pc[w]]
    /\ PutBack(q, ok)
    /\ StartFlushLoop(q)

-----------------------------------------------------------------------------
(* The calls of the application.                                           *)

TrackUsage ==
    /\ tracked < MaxEvents
    /\ tracked' = tracked + 1
    /\ LET events == Append(buffer, tracked') IN
          \/ /\ Len(events) >= MaxBufferSize /\ ~Flushing
             /\ BeginFlush(events)
          \/ /\ Len(events) < MaxBufferSize \/ Flushing
             /\ buffer' = events
             /\ UNCHANGED <<batch, pc, shared, acquiring, awaits>>
    /\ UNCHANGED <<token, timerVars, stored, late>>

Connect(c) ==
    /\ pc[c] = "idle"
    /\ EnsureFreshToken(c, Goto(c, "enter"), Goto(c, "connect"))
    /\ UNCHANGED <<token, timerVars, bufferVars>>

Ping(q) ==
    /\ pc[q] = "idle"
    /\ Send(q)
    /\ UNCHANGED <<token, timerVars, bufferVars>>

\* The final flush races with a timeout; there is none when the buffer is empty, and
\* #flush() returns at once when one is in flight.
Disconnect(d) ==
    /\ pc[d] = "idle"
    /\ connected' = FALSE
    /\ loops' = loops \ {timer} /\ timer' = None
    /\ \/ /\ buffer = <<>>
          /\ pc' = Goto(d, "over")
          /\ ClearAuth
          /\ UNCHANGED <<acquiring, awaits, buffer, batch>>
       \/ /\ buffer # <<>> /\ Flushing
          /\ pc' = Goto(d, "clear")
          /\ UNCHANGED <<authVars, buffer, batch>>
       \/ /\ buffer # <<>> /\ ~Flushing
          /\ TakeBatch(buffer)
          /\ EnsureFreshToken(Flush, [Goto(d, "race") EXCEPT ![Flush] = "send"],
                                     [Goto(d, "race") EXCEPT ![Flush] = "await"])
          /\ UNCHANGED token
    /\ UNCHANGED <<tracked, stored, late>>

-----------------------------------------------------------------------------
(* What a process does when its turn has come.                             *)

\* Of the connect() calls that come this far the first sets #connected and sends its report.
Enter(c) ==
    /\ pc[c] = "enter"
    /\ \/ connected /\ pc' = Goto(c, "over") /\ UNCHANGED <<shared, acquiring, awaits>>
       \/ ~connected /\ Send(c)
    /\ connected' = TRUE
    /\ UNCHANGED <<token, loops, timer, bufferVars>>

\* The request goes out with whatever the token is by now.
SendNow(q) ==
    /\ \/ pc[q] = "send" /\ pc' = Goto(q, "sent")
       \/ pc[q] = "resend" /\ pc' = Goto(q, "resent")
    /\ UNCHANGED <<authVars, timerVars, bufferVars>>

\* The refresh it waited for has failed, and the request throws.
Fail(q) ==
    /\ pc[q] = "fail"
    /\ End(q, FALSE)
    /\ UNCHANGED <<authVars, connected, tracked, stored, late>>

Clear(d) ==
    /\ pc[d] = "clear"
    /\ pc' = Goto(d, "over")
    /\ ClearAuth
    /\ UNCHANGED <<acquiring, awaits, timerVars, bufferVars>>

Resume(w) == \/ w \in Connects /\ Enter(w)
             \/ w \in Requests /\ (SendNow(w) \/ Fail(w))
             \/ w \in Disconnects /\ Clear(w)

-----------------------------------------------------------------------------
(* What the Hub, the network and the clock do.                             *)

DisconnectTimeout(d) ==
    /\ pc[d] = "race"
    /\ pc' = Goto(d, "clear")
    /\ UNCHANGED <<authVars, timerVars, bufferVars>>

\* Mutant: #flush() of the interval looks at the buffer only when it is full.
TickWhenFull ==
    /\ loops # {} /\ Len(buffer) >= MaxBufferSize /\ ~Flushing
    /\ BeginFlush(buffer)
    /\ UNCHANGED <<token, timerVars, tracked, stored, late>>

FlushTick ==
    /\ loops # {} /\ buffer # <<>> /\ ~Flushing
    /\ BeginFlush(buffer)
    /\ UNCHANGED <<token, timerVars, tracked, stored, late>>

TokenAges ==
    /\ token = "fresh"
    /\ token' = "stale"
    /\ UNCHANGED <<shared, acquiring, pc, awaits, timerVars, bufferVars>>

\* Those that await an acquisition go on when it succeeds, and throw when it fails: connect()
\* before it is connected, the requests of the others.
GoOn == [step \in Steps |-> IF step = "connect" THEN "enter"
                            ELSE IF step = "reawait" THEN "resend" ELSE "send"]
GiveUp == [step \in Steps |-> IF step = "connect" THEN "over" ELSE "fail"]

\* The acquisition r settles, and it is the turn of all that await it.
Settle(r, next) ==
    /\ r \in acquiring
    /\ acquiring' = acquiring \ {r}
    /\ pc' = [w \in Procs |-> IF awaits[w] = r THEN next[pc[w]] ELSE pc[w]]
    /\ awaits' = [w \in Procs |-> IF awaits[w] = r THEN None ELSE awaits[w]]
    /\ UNCHANGED <<timerVars, bufferVars>>

\* Mutant: a refresh that is no longer the shared one does not set the token.
SharedRefreshSucceeds(r) ==
    /\ Settle(r, GoOn)
    /\ token' = IF r = shared THEN "fresh" ELSE token
    /\ shared' = None

\* refreshPromise is cleared, whichever refresh it is by now.
RefreshSucceeds(r) ==
    /\ Settle(r, GoOn)
    /\ token' = "fresh"
    /\ shared' = None

\* Mutant: a refresh that fails stays the shared one.
RefreshFailsForGood(r) ==
    /\ Settle(r, GiveUp)
    /\ UNCHANGED <<token, shared>>

RefreshFails(r) ==
    /\ Settle(r, GiveUp)
    /\ shared' = None
    /\ UNCHANGED token

\* A request is answered, fails on the way, or has a second 401.  When a flush fails the Hub
\* may have its events or still be at them.
RequestEnds(q, ok) ==
    LET events == {batch[k] : k \in 1..Len(batch)} IN
    /\ pc[q] \in {"sent", "resent"}
    /\ End(q, ok)
    /\ \/ q = Flush /\ ok /\ stored' = stored \cup events /\ UNCHANGED late
       \/ q = Flush /\ ~ok /\ late' = late \cup {events} /\ UNCHANGED stored
       \/ q # Flush /\ UNCHANGED <<stored, late>>
    /\ UNCHANGED <<authVars, connected, tracked>>

\* The Hub goes on with a batch whose sender has given it up.
LateIngest(events) ==
    /\ events \in late
    /\ late' = late \ {events}
    /\ stored' = stored \cup events
    /\ UNCHANGED <<pc, authVars, timerVars, buffer, batch, tracked>>

\* The first 401: the token and any refresh in flight are forgotten.
Unauthorized(q) ==
    /\ pc[q] = "sent"
    /\ pc' = Goto(q, "reawait")
    /\ token' = "none"
    /\ Join(q, None)
    /\ UNCHANGED <<timerVars, bufferVars>>

-----------------------------------------------------------------------------
Call == \/ TrackUsage
        \/ \E c \in Connects : Connect(c)
        \/ \E q \in Pings : Ping(q)
        \/ \E d \in Disconnects : Disconnect(d)

Answer == \/ \E r \in Refreshes : RefreshSucceeds(r) \/ RefreshFails(r)
          \/ \E q \in Requests : Unauthorized(q) \/ \E ok \in BOOLEAN : RequestEnds(q, ok)
          \/ \E events \in late : LateIngest(events)

Next == \/ Call \/ Answer \/ FlushTick \/ TokenAges
        \/ \E w \in Procs : Resume(w)
        \/ \E d \in Disconnects : DisconnectTimeout(d)

Spec == Init /\ [][Next]_vars

\* The interval fires, a process whose turn it is goes on, and every fetch ends: acquireToken
\* aborts its own, Node's default timeouts end the others.  Nothing makes an answer a good one.
Fairness ==
    /\ WF_vars(FlushTick)
    /\ \A w \in Procs : WF_vars(Resume(w))
    /\ \A r \in Refreshes : WF_vars(RefreshSucceeds(r) \/ RefreshFails(r))
    /\ \A q \in Requests : WF_vars(Unauthorized(q) \/ \E ok \in BOOLEAN : RequestEnds(q, ok))

-----------------------------------------------------------------------------
\* Every event recorded is with the Hub, in the batch or in the buffer, and what is not yet
\* acknowledged is sent in the order of recording: no failed flush, 401 or disconnect() in
\* between drops an event or lets a later one overtake it.
NothingLostOrReordered ==
    LET kept == batch \o buffer IN
    /\ \A j, k \in 1..Len(kept) : j < k => kept[j] < kept[k]
    /\ 1..tracked = stored \cup {kept[k] : k \in 1..Len(kept)}

\* A request whose turn has come has a token, and only the end of a disconnect() or another
\* request's 401 takes it away before it is sent ("token!"): no refresh that was forgotten
\* meanwhile, and no connect() that others overtake, lets one out without.
TokenUntilForgotten ==
    [][\A q \in Requests : pc'[q] \in {"send", "resend"} /\ token' = "none"
          => /\ pc[q] = pc'[q]
             /\ \/ token = "none"
                \/ \E d \in Disconnects : pc[d] # "over" /\ pc'[d] = "over"
                \/ \E o \in Requests : pc[o] = "sent" /\ pc'[o] = "reawait"]_vars

\* Once an interval runs for good and the Hub no longer fails, every event recorded gets
\* there, whatever the refreshes and flushes before did to the token and the buffer.
EventsDelivered ==
    /\ <>[](loops # {})
    /\ <>[][/\ \A r \in Refreshes : ~RefreshFails(r)
            /\ ~RequestEnds(Flush, FALSE) /\ ~Unauthorized(Flush)]_vars
    => \A k \in 1..MaxEvents : (tracked >= k) ~> (k \in stored)

-----------------------------------------------------------------------------
(* What the client promises the Hub: a channel without gaps.               *)

Channel == INSTANCE EventChannel WITH
    recorded <- tracked,
    received <- stored,
    released <- tracked - (Len(batch) + Len(buffer))

\* Whatever tokens, flushes and disconnects do, the buffer is such a channel.
RefinesChannel == Channel!Spec

-----------------------------------------------------------------------------
(* What a test of the code says and its steps do not keep.                 *)

\* "stops the flush interval so no more ingest calls fire after disconnect()": no
\* interval runs when the client is not connected.
NoLoopAfterDisconnect == loops # {} => connected
================================================================================
