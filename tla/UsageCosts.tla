------------------------------- MODULE UsageCosts -------------------------------
(***************************************************************************)
(* Usage events and what they cost (usageTrackingService.ts) and the model *)
(* they are priced by (pricingModelService.ts, pricing/routes.ts), for one *)
(* product.  An event and its cost are one transaction, but the pricing    *)
(* model is looked up in between: in Redis, and then with a second         *)
(* connection of the same pool.  An activation writes the database first   *)
(* and the cache second, or, through pricing/routes.ts, not at all.        *)
(*                                                                         *)
(* An event is named by the POST that brings it; a retry is another POST   *)
(* with the same key.  Redis may answer or fail at every call.             *)
(***************************************************************************)
EXTENDS Naturals, FiniteSets

CONSTANTS
    Posts,              \* events of POST /usage/events
    KeyOf,              \* their idempotency keys
    Activations,        \* activations; each inserts a pricing model of its name
    PoolSize,           \* DB_POOL_SIZE
    NoModel             \* null

ASSUME UsageAssumption == PoolSize \in Nat \ {0} /\ NoModel \notin Activations

VARIABLES
    usage,              \* each POST: where it is, the model it has read
    usageEvents,        \* the posts whose row of usage_events is committed
    costRows,           \* cost_ledger, committed
    actives,            \* the rows of pricing_models with active = true
    cachedModel,        \* hub:pricing:active:<product>, which has no expiry
    activation          \* each activation: where it is, by which route, what it deactivates

usageVars == <<usage, usageEvents, costRows, actives, cachedModel, activation>>

UsageInit ==
    /\ usage = [p \in Posts |-> [at |-> "idle", model |-> NoModel]]
    /\ usageEvents = {} /\ costRows = {}
    /\ actives = {} /\ cachedModel = NoModel
    /\ activation = [a \in Activations |-> [at |-> "idle", via |-> "service", off |-> {}]]

InTransaction == {"insert", "cache", "query", "fill", "commit"}
Ending == {"recorded", "duplicate", "failed"}

FreeConnections ==
    PoolSize - Cardinality({p \in Posts : usage[p].at \in InTransaction})
             - Cardinality({a \in Activations : activation[a].at \in {"open", "updated"}})

Go(p, at) == usage' = [usage EXCEPT ![p].at = at]

-----------------------------------------------------------------------------
(* recordUsageEvent.                                                       *)

PostUsage(p) ==
    /\ usage[p].at = "idle"
    /\ Go(p, "connect")
    /\ UNCHANGED <<usageEvents, costRows, actives, cachedModel, activation>>

Connect(p) ==
    /\ usage[p].at = "connect" /\ FreeConnections > 0
    /\ Go(p, "insert")
    /\ UNCHANGED <<usageEvents, costRows, actives, cachedModel, activation>>

SameKey(p) == {q \in Posts : KeyOf[q] = KeyOf[p]}

\* The INSERT waits for the transaction that holds the key.
KeyIsHeld(p) ==
    \E q \in SameKey(p) \ {p} : usage[q].at \in InTransaction \ {"insert"}

\* Mutant: a row that is not committed yet makes a duplicate already.
InsertNoWait(p) ==
    /\ usage[p].at = "insert"
    /\ Go(p, IF SameKey(p) \cap usageEvents # {} \/ KeyIsHeld(p) THEN "duplicate" ELSE "cache")
    /\ UNCHANGED <<usageEvents, costRows, actives, cachedModel, activation>>

\* ON CONFLICT DO NOTHING; no row means ROLLBACK and a duplicate.
InsertEvent(p) ==
    /\ usage[p].at = "insert" /\ ~KeyIsHeld(p)
    /\ Go(p, IF SameKey(p) \cap usageEvents # {} THEN "duplicate" ELSE "cache")
    /\ UNCHANGED <<usageEvents, costRows, actives, cachedModel, activation>>

\* getActivePricingModel: a hit is believed; a miss or a failing Redis asks the database.
ReadCache(p) ==
    /\ usage[p].at = "cache"
    /\ \/ /\ cachedModel # NoModel
          /\ usage' = [usage EXCEPT ![p] = [at |-> "commit", model |-> cachedModel]]
       \/ Go(p, "query")
    /\ UNCHANGED <<usageEvents, costRows, actives, cachedModel, activation>>

\* pool.query on a connection of its own; LIMIT 1 takes any active row.
QueryModel(p) ==
    /\ usage[p].at = "query" /\ FreeConnections > 0
    /\ IF actives = {}
       THEN Go(p, "commit")
       ELSE \E m \in actives : usage' = [usage EXCEPT ![p] = [at |-> "fill", model |-> m]]
    /\ UNCHANGED <<usageEvents, costRows, actives, cachedModel, activation>>

FillCache(p) ==
    /\ usage[p].at = "fill"
    /\ cachedModel' \in {cachedModel, usage[p].model}
    /\ Go(p, "commit")
    /\ UNCHANGED <<usageEvents, costRows, actives, activation>>

\* The cost's INSERT and COMMIT.
StoreEvent(p) ==
    /\ usage[p].at = "commit"
    /\ usageEvents' = usageEvents \cup {p}
    /\ costRows' = costRows \cup {[post |-> p, model |-> usage[p].model]}
    /\ UNCHANGED <<actives, cachedModel, activation>>

CommitEvent(p) == StoreEvent(p) /\ Go(p, "recorded")

\* The COMMIT takes effect, but its reply is lost, the process dies or a later event of the same
\* batch fails (routes/usageRoutes.ts:104-118): the client is told of a failure, or nothing.
CommitUnanswered(p) == StoreEvent(p) /\ Go(p, "failed")

\* connectionTimeoutMillis: no connection within five seconds is an error.
ConnectTimesOut(p) ==
    /\ usage[p].at = "connect" /\ FreeConnections = 0
    /\ Go(p, "failed")
    /\ UNCHANGED <<usageEvents, costRows, actives, cachedModel, activation>>

\* Mutant: connectionTimeoutMillis keeps its default, 0.
QueryWaits(p) ==
    /\ usage[p].at = "query" /\ FreeConnections = 0 /\ Go(p, "query")
    /\ UNCHANGED <<usageEvents, costRows, actives, cachedModel, activation>>

\* The same inside the transaction, which rolls back.
QueryTimesOut(p) ==
    /\ usage[p].at = "query" /\ FreeConnections = 0
    /\ Go(p, "failed")
    /\ UNCHANGED <<usageEvents, costRows, actives, cachedModel, activation>>

\* A statement fails or the process dies: ROLLBACK, 500 or no answer.
PostFails(p) ==
    /\ usage[p].at \in InTransaction
    /\ Go(p, "failed")
    /\ UNCHANGED <<usageEvents, costRows, actives, cachedModel, activation>>

-----------------------------------------------------------------------------
(* activatePricingModel, and POST /hub/pricing/:productId/model.           *)

\* The service locks the product's row; the route begins without a lock.
BeginActivation(a, via) ==
    /\ activation[a].at = "idle" /\ FreeConnections > 0
    /\ via = "service" =>
        ~\E b \in Activations : activation[b].via = via /\ activation[b].at \in {"open", "updated"}
    /\ activation' = [activation EXCEPT ![a] = [at |-> "open", via |-> via, off |-> {}]]
    /\ UNCHANGED <<usage, usageEvents, costRows, actives, cachedModel>>

\* The UPDATE turns off what was committed when it began.
Deactivate(a) ==
    /\ activation[a].at = "open"
    /\ activation' = [activation EXCEPT ![a].at = "updated", ![a].off = actives]
    /\ UNCHANGED <<usage, usageEvents, costRows, actives, cachedModel>>

\* The INSERT and COMMIT; its foreign key makes the route wait for the service's lock.
CommitActivation(a) ==
    /\ activation[a].at = "updated"
    /\ activation[a].via = "route" =>
        ~\E b \in Activations :
            activation[b].via = "service" /\ activation[b].at \in {"open", "updated"}
    /\ actives' = (actives \ activation[a].off) \cup {a}
    /\ activation' = [activation EXCEPT ![a].off = {},
            ![a].at = IF activation[a].via = "service" THEN "publish" ELSE "done"]
    /\ UNCHANGED <<usage, usageEvents, costRows, cachedModel>>

\* The service's SET, whose failure is logged; nobody listens to the PUBLISH that follows.
PublishModel(a) ==
    /\ activation[a].at = "publish"
    /\ cachedModel' \in {cachedModel, a}
    /\ activation' = [activation EXCEPT ![a].at = "done"]
    /\ UNCHANGED <<usage, usageEvents, costRows, actives>>

ActivationFails(a) ==
    /\ activation[a].at \in {"open", "updated", "publish"}
    /\ activation' = [activation EXCEPT ![a].at = "done", ![a].off = {}]
    /\ UNCHANGED <<usage, usageEvents, costRows, actives, cachedModel>>

PostStep(p) ==
    \/ Connect(p) \/ InsertEvent(p) \/ ReadCache(p) \/ QueryModel(p) \/ FillCache(p)
    \/ CommitEvent(p) \/ ConnectTimesOut(p) \/ QueryTimesOut(p)

UsageNext ==
    \/ \E p \in Posts : PostUsage(p) \/ PostStep(p) \/ PostFails(p) \/ CommitUnanswered(p)
    \/ \E a \in Activations :
        \/ \E via \in {"service", "route"} : BeginActivation(a, via)
        \/ Deactivate(a) \/ CommitActivation(a) \/ PublishModel(a) \/ ActivationFails(a)

\* A live process goes on with each POST it has taken.
UsageSpec == UsageInit /\ [][UsageNext]_usageVars /\ \A p \in Posts : WF_usageVars(PostStep(p))

-----------------------------------------------------------------------------
\* Type invariant of the usage tables, the pricing models, the cache and the connections.
UsageTypeOK ==
    /\ usage \in [Posts -> [at : {"idle", "connect"} \cup InTransaction \cup Ending,
                            model : Activations \cup {NoModel}]]
    /\ usageEvents \subseteq Posts
    /\ costRows \subseteq [post : Posts, model : Activations \cup {NoModel}]
    /\ actives \subseteq Activations /\ cachedModel \in Activations \cup {NoModel}
    /\ activation \in [Activations -> [at : {"idle", "open", "updated", "publish", "done"},
                                       via : {"service", "route"}, off : SUBSET Activations]]
    /\ FreeConnections \in 0..PoolSize

\* However often an event is sent, and whatever fails, one row of its key is kept, and each row
\* kept has one cost, whether its COMMIT was answered or not; and "duplicate" is only said of an event that is safely stored, not of one
\* whose first transaction may still roll back, for the client drops it on that answer
\* (usageTrackingService.ts:34-88).
ChargedOnce ==
    /\ \A p, q \in usageEvents : KeyOf[p] = KeyOf[q] => p = q
    /\ {c.post : c \in costRows} = usageEvents
    /\ Cardinality(costRows) = Cardinality(usageEvents)
    /\ \A p \in Posts : usage[p].at = "duplicate" => SameKey(p) \cap usageEvents # {}

Ledger == INSTANCE UsageLedger WITH
    Models <- Activations \cup {NoModel},
    ledger <- costRows,
    answer <- [p \in Posts |-> IF usage[p].at \in {"recorded", "duplicate"}
                               THEN usage[p].at ELSE "none"]

\* Connections, caches, locks and rollbacks are not to be seen in what is stored and answered: an
\* event with its cost, once for each key, for good, though whoever sent it may never hear of it
\* (usageTrackingService.ts:34-88).
RefinesLedger == Ledger!Spec

\* Every POST ends, though each holds a connection while it waits for a second one, and some wait
\* for the key another holds: the pool's timeout (db/pool.ts:19) breaks the circle.
PostsEnd == \A p \in Posts : usage[p].at \in InTransaction ~> usage[p].at \in Ending

\* What pricingModelService.ts:162 says, "DB is authoritative", and GET /pricing/models promises
\* (pricingModelRoutes.ts:47): once nobody is at work, the cache has an active model or none.
CacheAgreesWithDatabase ==
    /\ \A p \in Posts : usage[p].at \notin InTransaction
    /\ \A a \in Activations : activation[a].at \in {"idle", "done"}
    => cachedModel \in actives \cup {NoModel}
================================================================================
