------------------------ MODULE StripeWebhooksProofs ------------------------
(***************************************************************************)
(* Proofs about StripeWebhooks, for any number of events and invoices and  *)
(* any number of deliveries.                                               *)
(***************************************************************************)
EXTENDS StripeWebhooks, TLAPS

\* Nothing has started for an event whose row is not there.
RowFirst == \A e \in Events : table[e] = "none" => request[e] = "none"

\* The job of an event is added by its request, or never.
JobFromRequest == \A e \in Events : request[e] \in {"none", "add"} => job[e] = "none"

\* The event is in a queue, or was; no step takes this back.
Queued(e) == job[e] # "none" \/ e \in dlq

\* A request that is about to write "dispatched" has seen the add succeed.
AddedFirst == \A e \in Events : request[e] = "dispatched" => Queued(e)

RouteInv == TypeOK /\ RowFirst /\ JobFromRequest /\ AddedFirst /\ DispatchedHasJob

-----------------------------------------------------------------------------
(* Types.                                                                  *)

LEMMA InitType == Init => TypeOK
  BY DEF Init, TypeOK

LEMMA RequestType ==
    ASSUME TypeOK, NEW e \in Events, RequestStep(e)
    PROVE  TypeOK'
  <1>1. CASE Deliver(e)
    BY <1>1 DEF TypeOK, Deliver, Move, queueVars, billingVars
  <1>2. CASE Add(e)
    BY <1>2 DEF TypeOK, Add, AddJob, Move, billingVars
  <1>3. CASE AddThrows(e)
    BY <1>3 DEF TypeOK, AddThrows, AddJob, Move, queueVars, billingVars
  <1>4. CASE MarkDispatched(e)
    BY <1>4 DEF TypeOK, MarkDispatched, Answer200, Move, queueVars, billingVars
  <1>5. CASE MarkFailed(e)
    BY <1>5 DEF TypeOK, MarkFailed, Answer200, Move, queueVars, billingVars
  <1>6. CASE RequestDies(e)
    BY <1>6 DEF TypeOK, RequestDies, Move, queueVars, billingVars
  <1> QED  BY <1>1, <1>2, <1>3, <1>4, <1>5, <1>6 DEF RequestStep

\* What every step of a job leaves alone, and what it does to the job.
LEMMA JobType ==
    ASSUME TypeOK, NEW e \in Events, JobStep(e) \/ JobStalls(e)
    PROVE  TypeOK'
  <1> Of[e] \in Invoices
    BY EventsAssumption
  <1>1. CASE HandleSubscriptionUpdated(e)
    BY <1>1 DEF TypeOK, HandleSubscriptionUpdated, Proceed, Finish, End
  <1>2. CASE HandleInvoiceCreated(e)
    BY <1>2 DEF TypeOK, HandleInvoiceCreated, Proceed, Finish, End, billingVars
  <1>3. CASE HandleInvoiceFinalized(e)
    BY <1>3 DEF TypeOK, HandleInvoiceFinalized, UpdateInvoice, Finish, End
  <1>4. CASE HandleInvoicePaymentSucceeded(e)
    BY <1>4 DEF TypeOK, HandleInvoicePaymentSucceeded, UpdateInvoice, Finish, End
  <1>5. CASE HandleInvoicePaymentFailed(e)
    BY <1>5 DEF TypeOK, HandleInvoicePaymentFailed, UpdateInvoice, Proceed, Finish, End
  <1>6. CASE SubscriptionMissing(e)
    BY <1>6 DEF TypeOK, SubscriptionMissing, End, billingVars
  <1>7. CASE JobFails(e)
    BY <1>7 DEF TypeOK, JobFails, End, billingVars
  <1>8. CASE JobStalls(e)
    BY <1>8 DEF TypeOK, JobStalls, End, billingVars
  <1> QED  BY <1>1, <1>2, <1>3, <1>4, <1>5, <1>6, <1>7, <1>8 DEF JobStep

LEMMA ListenerType ==
    ASSUME TypeOK, NEW e \in Events, FailedListener(e)
    PROVE  TypeOK'
  BY DEF TypeOK, FailedListener, billingVars

LEMMA NextType ==
    ASSUME TypeOK, [Next]_vars
    PROVE  TypeOK'
  <1>1. CASE UNCHANGED vars
    BY <1>1 DEF TypeOK, vars
  <1>2. CASE Next
    BY <1>2, RequestType, JobType, ListenerType DEF Next
  <1> QED  BY <1>1, <1>2

\* TypeOK: every table, request and job of the webhook route, the queues and the invoice
\* handlers holds what its type says.
THEOREM WebhooksTypeCorrect == Spec => []TypeOK
  <1>1. Init => TypeOK
    BY InitType
  <1>2. TypeOK /\ [Next]_vars => TypeOK'
    BY NextType
  <1> QED  BY <1>1, <1>2, PTL DEF Spec

-----------------------------------------------------------------------------
(* The route and the queue.                                                *)

\* A step of the worker starts no job and ends no request: it moves a job that was added.
LEMMA JobMoves ==
    ASSUME TypeOK, NEW e \in Events, JobStep(e) \/ JobStalls(e)
    PROVE  /\ job[e] \in {"waiting", "write", "enqueue"}
           /\ job'[e] # "none"
           /\ \A d \in Events \ {e} : job'[d] = job[d]
           /\ dlq' = dlq /\ table' = table /\ request' = request
  <1>1. CASE HandleSubscriptionUpdated(e)
    BY <1>1 DEF TypeOK, HandleSubscriptionUpdated, Proceed, Finish, End
  <1>2. CASE HandleInvoiceCreated(e)
    BY <1>2 DEF TypeOK, HandleInvoiceCreated, Proceed, Finish, End
  <1>3. CASE HandleInvoiceFinalized(e)
    BY <1>3 DEF TypeOK, HandleInvoiceFinalized, Finish, End
  <1>4. CASE HandleInvoicePaymentSucceeded(e)
    BY <1>4 DEF TypeOK, HandleInvoicePaymentSucceeded, Finish, End
  <1>5. CASE HandleInvoicePaymentFailed(e)
    BY <1>5 DEF TypeOK, HandleInvoicePaymentFailed, Proceed, Finish, End
  <1>6. CASE SubscriptionMissing(e)
    BY <1>6 DEF TypeOK, SubscriptionMissing, End
  <1>7. CASE JobFails(e)
    BY <1>7 DEF TypeOK, JobFails, Active, End
  <1>8. CASE JobStalls(e)
    BY <1>8 DEF TypeOK, JobStalls, End
  <1> QED  BY <1>1, <1>2, <1>3, <1>4, <1>5, <1>6, <1>7, <1>8 DEF JobStep

\* The failed listener changes a row that is there, never to "dispatched".
LEMMA ListenerMoves ==
    ASSUME TypeOK, NEW e \in Events, FailedListener(e)
    PROVE  /\ job[e] = "dead" /\ job'[e] = "buried"
           /\ \A d \in Events \ {e} : job'[d] = job[d]
           /\ table'[e] \in {table[e], "failed"}
           /\ \A d \in Events \ {e} : table'[d] = table[d]
           /\ dlq' = dlq /\ request' = request
  BY DEF TypeOK, FailedListener

LEMMA InitRoute == Init => RouteInv
  BY InitType DEF Init, RouteInv, RowFirst, JobFromRequest, AddedFirst, DispatchedHasJob

LEMMA RequestKeepsRoute ==
    ASSUME RouteInv, NEW e \in Events, RequestStep(e)
    PROVE  RouteInv'
  <1> TypeOK'
    BY RequestType DEF RouteInv
  <1>1. CASE Deliver(e)
    BY <1>1 DEF RouteInv, TypeOK, RowFirst, JobFromRequest, AddedFirst, Queued,
                DispatchedHasJob, Deliver, Move, queueVars
  <1>2. CASE Add(e)
    BY <1>2 DEF RouteInv, TypeOK, RowFirst, JobFromRequest, AddedFirst, Queued,
                DispatchedHasJob, Add, AddJob, Move
  <1>3. CASE AddThrows(e)
    BY <1>3 DEF RouteInv, TypeOK, RowFirst, JobFromRequest, AddedFirst, Queued,
                DispatchedHasJob, AddThrows, AddJob, Move, queueVars
  <1>4. CASE MarkDispatched(e)
    BY <1>4 DEF RouteInv, TypeOK, RowFirst, JobFromRequest, AddedFirst, Queued,
                DispatchedHasJob, MarkDispatched, Answer200, Move, queueVars
  <1>5. CASE MarkFailed(e)
    BY <1>5 DEF RouteInv, TypeOK, RowFirst, JobFromRequest, AddedFirst, Queued,
                DispatchedHasJob, MarkFailed, Answer200, Move, queueVars
  <1>6. CASE RequestDies(e)
    BY <1>6 DEF RouteInv, TypeOK, RowFirst, JobFromRequest, AddedFirst, Queued,
                DispatchedHasJob, RequestDies, Open, Move, queueVars
  <1> QED  BY <1>1, <1>2, <1>3, <1>4, <1>5, <1>6 DEF RequestStep

LEMMA NextRoute ==
    ASSUME RouteInv, [Next]_vars
    PROVE  RouteInv'
  <1> TypeOK /\ TypeOK'
    BY NextType DEF RouteInv
  <1>1. CASE UNCHANGED vars
    BY <1>1 DEF RouteInv, RowFirst, JobFromRequest, AddedFirst, Queued, DispatchedHasJob, vars
  <1>2. ASSUME NEW e \in Events, JobStep(e) \/ JobStalls(e)
        PROVE  RouteInv'
    BY <1>2, JobMoves
       DEF RouteInv, RowFirst, JobFromRequest, AddedFirst, Queued, DispatchedHasJob
  <1>3. ASSUME NEW e \in Events, FailedListener(e)
        PROVE  RouteInv'
    BY <1>3, ListenerMoves
       DEF RouteInv, RowFirst, JobFromRequest, AddedFirst, Queued, DispatchedHasJob
  <1> QED  BY <1>1, <1>2, <1>3, RequestKeepsRoute DEF Next

LEMMA RouteCorrect == Spec => []RouteInv
  <1>1. Init => RouteInv
    BY InitRoute
  <1>2. RouteInv /\ [Next]_vars => RouteInv'
    BY NextRoute
  <1> QED  BY <1>1, <1>2, PTL DEF Spec

\* DispatchedHasJob: a row of stripe_webhook_events that says dispatched is of an event
\* whose job was added, whatever failed between the add and the UPDATE.
THEOREM DispatchedIsQueued == Spec => []DispatchedHasJob
  <1>1. RouteInv => DispatchedHasJob
    BY DEF RouteInv
  <1> QED  BY <1>1, RouteCorrect, PTL

\* ProcessedOnce: neither a duplicate delivery nor a job that stalls starts a handler
\* again that has ended.
THEOREM EventProcessedOnce == Spec => ProcessedOnce
  <1> DEFINE HasEnded(e) == job[e] \in {"completed", "dead", "buried"}
             StaysEnded == \A e \in Events : HasEnded(e) =>
                               job'[e] \notin {"waiting", "write", "enqueue"}
  <1>1. ASSUME RouteInv, [Next]_vars
        PROVE  [StaysEnded]_vars
    <2> SUFFICES ASSUME NEW d \in Events, HasEnded(d)
                 PROVE  job'[d] \notin {"waiting", "write", "enqueue"}
      OBVIOUS
    <2>1. CASE UNCHANGED vars
      BY <2>1 DEF vars
    <2>2. ASSUME NEW e \in Events, RequestStep(e)
          PROVE  job'[d] = job[d]
      BY <1>1, <2>2 DEF RouteInv, TypeOK, JobFromRequest, RequestStep, Deliver, Add, AddThrows,
         AddJob, MarkDispatched, MarkFailed, RequestDies, queueVars
    <2>3. ASSUME NEW e \in Events, JobStep(e) \/ JobStalls(e)
          PROVE  job'[d] = job[d]
      BY <1>1, <2>3, JobMoves DEF RouteInv
    <2>4. ASSUME NEW e \in Events, FailedListener(e)
          PROVE  job'[d] \in {job[d], "buried"}
      BY <1>1, <2>4, ListenerMoves DEF RouteInv
    <2> QED  BY <1>1, <2>1, <2>2, <2>3, <2>4 DEF Next
  <1> HIDE DEF HasEnded, StaysEnded
  <1>2. RouteInv /\ [Next]_vars => [StaysEnded]_vars
    BY <1>1
  <1>3. Spec => [][StaysEnded]_vars
    BY <1>2, RouteCorrect, PTL DEF Spec
  <1> QED  BY <1>3 DEF ProcessedOnce, StaysEnded, HasEnded

-----------------------------------------------------------------------------
(* The life of an event.                                                   *)

\* What is set aside was set aside by the request that stored the event.
SetAsideByRequest == \A e \in Events : request[e] \in {"none", "add"} => e \notin dlq

LifeInv == RouteInv /\ SetAsideByRequest

\* A step is about one event: the job, the request and the row of the others stay.
OthersStay(e) ==
    \A d \in Events \ {e} : /\ job'[d] = job[d] /\ request'[d] = request[d]
                            /\ table'[d] = table[d]
                            /\ d \in dlq' <=> d \in dlq

\* What a request does to its event.
LEMMA RequestMoves ==
    ASSUME TypeOK, NEW e \in Events, RequestStep(e)
    PROVE  OthersStay(e)
  <1>1. CASE Deliver(e)
    BY <1>1 DEF TypeOK, OthersStay, Deliver, Move, queueVars
  <1>2. CASE Add(e)
    BY <1>2 DEF TypeOK, OthersStay, Add, AddJob, Move
  <1>3. CASE AddThrows(e)
    BY <1>3 DEF TypeOK, OthersStay, AddThrows, AddJob, Move, queueVars
  <1>4. CASE MarkDispatched(e)
    BY <1>4 DEF TypeOK, OthersStay, MarkDispatched, Answer200, Move, queueVars
  <1>5. CASE MarkFailed(e)
    BY <1>5 DEF TypeOK, OthersStay, MarkFailed, Answer200, Move, queueVars
  <1>6. CASE RequestDies(e)
    BY <1>6 DEF TypeOK, OthersStay, RequestDies, Move, queueVars
  <1> QED  BY <1>1, <1>2, <1>3, <1>4, <1>5, <1>6 DEF RequestStep

LEMMA NextLife ==
    ASSUME LifeInv, [Next]_vars
    PROVE  LifeInv'
  <1>1. RouteInv /\ RouteInv'
    BY NextRoute DEF LifeInv
  <1>2. CASE UNCHANGED vars
    BY <1>1, <1>2 DEF LifeInv, SetAsideByRequest, vars
  <1>3. ASSUME NEW e \in Events, RequestStep(e)
        PROVE  SetAsideByRequest'
    <2> OthersStay(e)
      BY <1>1, <1>3, RequestMoves DEF RouteInv
    <2>1. request'[e] \in {"none", "add"} => e \notin dlq'
      BY <1>1, <1>3 DEF LifeInv, SetAsideByRequest, RouteInv, TypeOK, RowFirst, RequestStep,
         Deliver, Add, AddThrows, MarkDispatched, MarkFailed, RequestDies, Answer200, Move,
         queueVars
    <2> QED  BY <2>1 DEF LifeInv, SetAsideByRequest, OthersStay
  <1>4. ASSUME NEW e \in Events, JobStep(e) \/ JobStalls(e)
        PROVE  SetAsideByRequest'
    BY <1>1, <1>4, JobMoves DEF LifeInv, SetAsideByRequest, RouteInv
  <1>5. ASSUME NEW e \in Events, FailedListener(e)
        PROVE  SetAsideByRequest'
    BY <1>1, <1>5, ListenerMoves DEF LifeInv, SetAsideByRequest, RouteInv
  <1> QED  BY <1>1, <1>2, <1>3, <1>4, <1>5 DEF LifeInv, Next

LEMMA LifeCorrect == Spec => []LifeInv
  <1>1. Init => LifeInv
    BY InitRoute DEF Init, LifeInv, SetAsideByRequest
  <1>2. LifeInv /\ [Next]_vars => LifeInv'
    BY NextLife
  <1> QED  BY <1>1, <1>2, PTL DEF Spec

Stays(e) == StageOf(e)' = StageOf(e)
MovesOn(e) == <<StageOf(e), StageOf(e)'>> \in Lifecycle!Forward

LEMMA RequestLives ==
    ASSUME LifeInv, LifeInv', NEW e \in Events, RequestStep(e)
    PROVE  Stays(e) \/ MovesOn(e)
  <1> USE DEF LifeInv, RouteInv, TypeOK, StageOf, Ended, Active
  <1>1. CASE Deliver(e)
    <2>1. StageOf(e) = "unseen" /\ StageOf(e)' = "accepted"
      BY <1>1 DEF SetAsideByRequest, RowFirst, JobFromRequest, Deliver, Move, queueVars
    <2> QED  BY <2>1 DEF MovesOn, Lifecycle!Forward
  <1>2. CASE Add(e) \/ AddThrows(e)
    <2>1. StageOf(e) = "accepted"
      BY <1>2 DEF SetAsideByRequest, JobFromRequest, Add, AddThrows
    <2>2. StageOf(e)' \in {"queued", "settled", "lost"}
      <3>1. request'[e] \in {"dispatched", "failed"} /\ table'[e] # "none"
        BY <1>2 DEF RowFirst, Add, AddThrows, Move
      <3>2. job'[e] \in {"none", "waiting"}
        BY <1>2 DEF JobFromRequest, Add, AddThrows, AddJob, queueVars
      <3> QED  BY <3>1, <3>2
    <2> QED  BY <2>1, <2>2 DEF MovesOn, Lifecycle!Forward
  <1>3. CASE MarkDispatched(e)
    BY <1>3 DEF Stays, AddedFirst, Queued, MarkDispatched, Answer200, Move, queueVars
  <1>4. CASE MarkFailed(e)
    BY <1>4 DEF Stays, RowFirst, MarkFailed, Answer200, Move, queueVars
  <1>5. CASE RequestDies(e) /\ request[e] = "add"
    <2>1. StageOf(e) = "accepted" /\ StageOf(e)' = "lost"
      BY <1>5 DEF SetAsideByRequest, JobFromRequest, RowFirst, RequestDies, Move, queueVars
    <2> QED  BY <2>1 DEF MovesOn, Lifecycle!Forward
  <1>6. CASE RequestDies(e) /\ request[e] # "add"
    BY <1>6 DEF Stays, RowFirst, RequestDies, Open, Move, queueVars
  <1> QED  BY <1>1, <1>2, <1>3, <1>4, <1>5, <1>6 DEF RequestStep

LEMMA JobLives ==
    ASSUME LifeInv, LifeInv', NEW e \in Events, JobStep(e) \/ JobStalls(e)
    PROVE  Stays(e) \/ MovesOn(e)
  <1>1. Active(e) /\ dlq' = dlq
    BY JobMoves DEF LifeInv, RouteInv, Active
  <1>2. Active(e)' \/ Ended(e)'
    BY JobMoves DEF LifeInv, RouteInv, TypeOK, Active, Ended
  <1>3. CASE e \in dlq
    BY <1>1, <1>3 DEF Stays, StageOf, Ended
  <1>4. CASE e \notin dlq
    <2>1. StageOf(e) = "queued"
      BY <1>1, <1>4 DEF StageOf, Ended, Active
    <2>2. StageOf(e)' \in {"queued", "settled"}
      BY <1>2 DEF StageOf, Ended, Active
    <2> QED  BY <2>1, <2>2 DEF Stays, MovesOn, Lifecycle!Forward
  <1> QED  BY <1>3, <1>4

LEMMA ListenerLives ==
    ASSUME LifeInv, NEW e \in Events, FailedListener(e)
    PROVE  Stays(e)
  BY ListenerMoves DEF LifeInv, RouteInv, Stays, StageOf, Ended

LEMMA MapsEvent ==
    ASSUME NEW e \in Events, OthersStay(e), Stays(e) \/ MovesOn(e)
    PROVE  [Lifecycle!Next]_Stage
  <1>1. \A d \in Events \ {e} : StageOf(d)' = StageOf(d)
    BY DEF OthersStay, StageOf, Ended, Active
  <1>2. CASE Stays(e)
    BY <1>1, <1>2 DEF Stays, Stage
  <1>3. CASE MovesOn(e)
    <2>1. StageOf(e)' \in Lifecycle!Stages
      BY DEF StageOf, Lifecycle!Stages
    <2>2. Lifecycle!Move(e)
      BY <1>1, <1>3, <2>1 DEF MovesOn, Stage, Lifecycle!Move
    <2> QED  BY <2>2 DEF Lifecycle!Next
  <1> QED  BY <1>2, <1>3

LEMMA MapsLife ==
    ASSUME LifeInv, LifeInv', [Next]_vars
    PROVE  [Lifecycle!Next]_Stage
  <1>1. CASE UNCHANGED vars
    BY <1>1 DEF Stage, StageOf, Ended, Active, vars
  <1>2. ASSUME NEW e \in Events, RequestStep(e)
        PROVE  OthersStay(e) /\ (Stays(e) \/ MovesOn(e))
    BY <1>2, RequestMoves, RequestLives DEF LifeInv, RouteInv
  <1>3. ASSUME NEW e \in Events, JobStep(e) \/ JobStalls(e)
        PROVE  OthersStay(e) /\ (Stays(e) \/ MovesOn(e))
    BY <1>3, JobMoves, JobLives DEF LifeInv, RouteInv, OthersStay
  <1>4. ASSUME NEW e \in Events, FailedListener(e)
        PROVE  OthersStay(e) /\ Stays(e)
    BY <1>4, ListenerMoves, ListenerLives DEF LifeInv, RouteInv, OthersStay
  <1> QED  BY <1>1, <1>2, <1>3, <1>4, MapsEvent DEF Next

\* Whatever the order of deliveries, crashes, failures and stalls, the events live as
\* EventLifecycle says: accepted once, queued at most once, settled by that job, or lost
\* on the way to the queue.
THEOREM EventsLiveOnce == Spec => RefinesEventLifecycle
  <1>1. Init => Lifecycle!Init
    BY DEF Init, Lifecycle!Init, Stage, StageOf, Ended, Active
  <1>2. LifeInv /\ LifeInv' /\ [Next]_vars => [Lifecycle!Next]_Stage
    BY MapsLife
  <1> QED  BY <1>1, <1>2, LifeCorrect, PTL DEF Spec, RefinesEventLifecycle, Lifecycle!Spec

\* EndsAreFinal, of every event that Stripe sends: one that was settled or lost stays so,
\* however often it is delivered again.
THEOREM EventsEndOnce == Spec => Lifecycle!EndsAreFinal
  <1>1. ASSUME LifeInv, LifeInv', [Next]_vars
        PROVE  [\A e \in Events : Stage[e] \in {"settled", "lost"} => Stage'[e] = Stage[e]]_Stage
    <2>1. CASE UNCHANGED Stage
      BY <2>1
    <2>2. CASE Lifecycle!Next
      <3>1. PICK e \in Events : Lifecycle!Move(e)
        BY <2>2 DEF Lifecycle!Next
      <3>2. Stage[e] \notin {"settled", "lost"}
        BY <3>1 DEF Lifecycle!Move, Lifecycle!Forward
      <3>3. \A d \in Events \ {e} : Stage'[d] = Stage[d]
        BY <3>1 DEF Lifecycle!Move, Stage
      <3> QED  BY <3>2, <3>3
    <2> QED  BY <1>1, <2>1, <2>2, MapsLife
  <1> QED  BY <1>1, LifeCorrect, PTL DEF Spec, Lifecycle!EndsAreFinal

-----------------------------------------------------------------------------
(* The invoice and the freeze.                                             *)

PaymentInv == TypeOK /\ PaymentFailureReachesBilling

\* The job of a payment failure that has not come to its end, or died on the way.
Pending(e) == Kind[e] = "failed" /\ job[e] \notin {"none", "completed"}

\* What each step grants: a billing job stays; a pending job stays pending or has added the
\* billing job; and an invoice becomes payment_failed by a job that is pending then.
BillingKept == billing \subseteq billing'
PendingKept == \A e \in Events : Pending(e) => Pending(e)' \/ Of[e] \in billing'
FailureIsPending ==
    \A n \in Invoices : invoice'[n] = "payment_failed" =>
        invoice[n] = "payment_failed" \/ \E e \in Events : Of[e] = n /\ Pending(e)'
Grant == BillingKept /\ PendingKept /\ FailureIsPending

LEMMA RequestGrants ==
    ASSUME TypeOK, NEW e \in Events, RequestStep(e)
    PROVE  Grant
  <1>1. UNCHANGED billingVars
    BY DEF RequestStep, Deliver, Add, AddThrows, MarkDispatched, MarkFailed, RequestDies
  <1>2. \A d \in Events : job'[d] \in {job[d], "waiting"}
    BY DEF TypeOK, RequestStep, Deliver, Add, AddThrows, AddJob, MarkDispatched, MarkFailed,
           RequestDies, queueVars
  <1> QED  BY <1>1, <1>2 DEF Grant, BillingKept, PendingKept, FailureIsPending, Pending, billingVars

LEMMA FailureHandlerGrants ==
    ASSUME TypeOK, NEW e \in Events, HandleInvoicePaymentFailed(e)
    PROVE  Grant
  <1> Of[e] \in Invoices
    BY EventsAssumption
  <1>1. \A d \in Events \ {e} : job'[d] = job[d]
    BY DEF TypeOK, HandleInvoicePaymentFailed, Proceed, Finish, End
  <1>2. CASE job[e] = "waiting"
    <2>1. Pending(e)'
      BY <1>2 DEF TypeOK, HandleInvoicePaymentFailed, Proceed, Pending
    <2>2. billing' = billing /\ \A n \in Invoices \ {Of[e]} : invoice'[n] = invoice[n]
      BY <1>2 DEF TypeOK, HandleInvoicePaymentFailed, UpdateInvoice
    <2> QED  BY <1>1, <2>1, <2>2 DEF Grant, BillingKept, PendingKept, FailureIsPending, Pending
  <1>3. CASE job[e] = "enqueue"
    <2>1. billing' = billing \cup {Of[e]} /\ invoice' = invoice
      BY <1>3 DEF HandleInvoicePaymentFailed
    <2> QED  BY <1>1, <2>1 DEF Grant, BillingKept, PendingKept, FailureIsPending, Pending
  <1> QED  BY <1>2, <1>3 DEF HandleInvoicePaymentFailed

LEMMA OtherJobsGrant ==
    ASSUME TypeOK, NEW e \in Events, JobStep(e) \/ JobStalls(e), ~HandleInvoicePaymentFailed(e)
    PROVE  Grant
  <1> Of[e] \in Invoices
    BY EventsAssumption
  <1>1. billing' = billing
    BY DEF JobStep, HandleSubscriptionUpdated, HandleInvoiceCreated, HandleInvoiceFinalized,
           HandleInvoicePaymentSucceeded, UpdateInvoice, SubscriptionMissing, JobFails,
           JobStalls, billingVars
  <1>2. \A d \in Events \ {e} : job'[d] = job[d]
    BY JobMoves
  <1>3. Kind[e] # "failed" \/ job'[e] \notin {"none", "completed"}
    BY DEF TypeOK, JobStep, HandleSubscriptionUpdated, HandleInvoiceCreated,
           HandleInvoiceFinalized, HandleInvoicePaymentSucceeded, SubscriptionMissing, JobFails,
           JobStalls, End
  <1>4. \A n \in Invoices : invoice'[n] = "payment_failed" => invoice[n] = "payment_failed"
    BY DEF TypeOK, JobStep, HandleSubscriptionUpdated, HandleInvoiceCreated,
           HandleInvoiceFinalized, HandleInvoicePaymentSucceeded, UpdateInvoice,
           SubscriptionMissing, JobFails, JobStalls, billingVars
  <1> QED  BY <1>1, <1>2, <1>3, <1>4
              DEF Grant, BillingKept, PendingKept, FailureIsPending, Pending

LEMMA ListenerGrants ==
    ASSUME TypeOK, NEW e \in Events, FailedListener(e)
    PROVE  Grant
  BY DEF TypeOK, FailedListener, billingVars, Grant, BillingKept, PendingKept,
         FailureIsPending, Pending

LEMMA NextPayment ==
    ASSUME PaymentInv, [Next]_vars
    PROVE  PaymentInv'
  <1> TypeOK /\ TypeOK'
    BY NextType DEF PaymentInv
  <1>1. CASE UNCHANGED vars
    BY <1>1 DEF PaymentInv, PaymentFailureReachesBilling, vars
  <1>2. CASE Next
    <2>1. Grant
      BY <1>2, RequestGrants, FailureHandlerGrants, OtherJobsGrant, ListenerGrants DEF Next
    <2> SUFFICES ASSUME NEW n \in Invoices, invoice'[n] = "payment_failed"
                 PROVE  n \in billing' \/ \E e \in Events : Of[e] = n /\ Pending(e)'
      BY DEF PaymentInv, PaymentFailureReachesBilling, Pending
    <2>2. CASE invoice[n] = "payment_failed"
      <3>1. n \in billing \/ \E e \in Events : Of[e] = n /\ Pending(e)
        BY <2>2 DEF PaymentInv, PaymentFailureReachesBilling, Pending
      <3> QED  BY <2>1, <3>1 DEF Grant, BillingKept, PendingKept
    <2>3. CASE invoice[n] # "payment_failed"
      BY <2>1, <2>3 DEF Grant, FailureIsPending
    <2> QED  BY <2>2, <2>3
  <1> QED  BY <1>1, <1>2

\* PaymentFailureReachesBilling: an invoice recorded as payment_failed has its billing job,
\* or a job that adds it or died before it could, in any interleaving of the handlers.
THEOREM FailedPaymentIsPursued == Spec => []PaymentFailureReachesBilling
  <1>1. Init => PaymentInv
    BY InitType DEF Init, PaymentInv, PaymentFailureReachesBilling
  <1>2. PaymentInv /\ [Next]_vars => PaymentInv'
    BY NextPayment
  <1>3. PaymentInv => PaymentFailureReachesBilling
    BY DEF PaymentInv
  <1> QED  BY <1>1, <1>2, <1>3, PTL DEF Spec
=============================================================================
