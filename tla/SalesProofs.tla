------------------------------ MODULE SalesProofs ------------------------------
(***************************************************************************)
(* Proofs about what is sold and charged: UsageCosts, for any number of    *)
(* events, activations and connections; AddOns, for any number of requests *)
(* and Stripe items; the Catalogue, for any calls and any number of        *)
(* objects; PriceOverrides, for any number of overlapping settings; and    *)
(* Pricing, for any tiers and any number of units.                         *)
(***************************************************************************)
EXTENDS UsageCosts, AddOns, Catalogue, PriceOverrides, Pricing, FiniteSetTheorems,
        SequenceTheorems, WellFoundedInduction, TLAPS

-----------------------------------------------------------------------------
(* UsageCosts.                                                             *)

UsageState == [at : {"idle", "connect"} \cup InTransaction \cup Ending,
               model : Activations \cup {NoModel}]

\* The posts whose row is inserted and not yet committed.
HoldsKey(p) == usage[p].at \in InTransaction \ {"insert"}

UsageShape ==
    /\ usage \in [Posts -> UsageState]
    /\ usageEvents \subseteq Posts
    /\ costRows \subseteq [post : Posts, model : Activations \cup {NoModel}]
    /\ actives \subseteq Activations /\ cachedModel \in Activations \cup {NoModel}
    /\ activation \in [Activations -> [at : {"idle", "open", "updated", "publish", "done"},
                                       via : {"service", "route"}, off : SUBSET Activations]]

\* One transaction at a time holds a key, and no row of that key is committed.
KeyHeldOnce ==
    \A p \in Posts : HoldsKey(p) =>
        /\ SameKey(p) \cap usageEvents = {}
        /\ \A q \in SameKey(p) : HoldsKey(q) => q = p

Charged ==
    /\ \A p, q \in usageEvents : KeyOf[p] = KeyOf[q] => p = q
    /\ {c.post : c \in costRows} = usageEvents
    /\ IsFiniteSet(usageEvents) /\ IsFiniteSet(costRows)
    /\ Cardinality(costRows) = Cardinality(usageEvents)
    /\ \A p \in Posts : usage[p].at = "duplicate" => SameKey(p) \cap usageEvents # {}

UsageInv == UsageShape /\ KeyHeldOnce /\ Charged

LEMMA UsageInitInv == UsageInit => UsageInv
  <1> SUFFICES ASSUME UsageInit PROVE UsageInv
    OBVIOUS
  <1>1. UsageShape
    BY DEF UsageInit, UsageShape, UsageState
  <1>2. KeyHeldOnce
    BY DEF UsageInit, KeyHeldOnce, HoldsKey, InTransaction
  <1>3. Charged
    BY FS_EmptySet DEF UsageInit, Charged
  <1> QED  BY <1>1, <1>2, <1>3 DEF UsageInv

\* A post that moves and commits nothing keeps the tables; it must not take a held key.
LEMMA PostMoves ==
    ASSUME UsageInv, UsageShape', NEW p \in Posts, UNCHANGED <<usageEvents, costRows>>,
           \A q \in Posts \ {p} : usage'[q] = usage[q],
           usage'[p].at = "duplicate" =>
                SameKey(p) \cap usageEvents # {} \/ usage[p].at = "duplicate",
           usage'[p].at \in InTransaction \ {"insert"} =>
                \/ HoldsKey(p)
                \/ ~KeyIsHeld(p) /\ SameKey(p) \cap usageEvents = {}
    PROVE  UsageInv'
  <1>1. KeyHeldOnce'
    BY DEF UsageInv, KeyHeldOnce, HoldsKey, KeyIsHeld, SameKey
  <1>2. Charged'
    BY DEF UsageInv, Charged, SameKey
  <1> QED  BY <1>1, <1>2 DEF UsageInv

LEMMA PostShape ==
    ASSUME UsageInv, NEW p \in Posts,
           PostUsage(p) \/ PostStep(p) \/ PostFails(p) \/ CommitUnanswered(p)
    PROVE  UsageShape'
  <1> usage[p] \in UsageState
    BY DEF UsageInv, UsageShape
  <1>1. CASE PostUsage(p) \/ Connect(p) \/ PostFails(p)
    BY <1>1 DEF PostUsage, Connect, PostFails, Go, UsageInv, UsageShape, UsageState, InTransaction,
                Ending
  <1>6. CASE InsertEvent(p)
    BY <1>6 DEF InsertEvent, Go, UsageInv, UsageShape, UsageState, InTransaction, Ending
  <1>7. CASE ConnectTimesOut(p) \/ QueryTimesOut(p)
    BY <1>7 DEF ConnectTimesOut, QueryTimesOut, Go, UsageInv, UsageShape, UsageState, InTransaction,
                Ending
  <1>2. CASE ReadCache(p)
    BY <1>2 DEF ReadCache, Go, UsageInv, UsageShape, UsageState, InTransaction, Ending
  <1>3. CASE QueryModel(p)
    BY <1>3 DEF QueryModel, Go, UsageInv, UsageShape, UsageState, InTransaction, Ending
  <1>4. CASE FillCache(p)
    BY <1>4 DEF FillCache, Go, UsageInv, UsageShape, UsageState, InTransaction, Ending
  <1>5. CASE CommitEvent(p) \/ CommitUnanswered(p)
    BY <1>5 DEF CommitEvent, CommitUnanswered, StoreEvent, Go, UsageInv, UsageShape, UsageState,
                InTransaction, Ending
  <1> QED  BY <1>1, <1>2, <1>3, <1>4, <1>5, <1>6, <1>7 DEF PostStep

LEMMA PostKeeps ==
    ASSUME UsageInv, NEW p \in Posts, ~CommitEvent(p),
           PostUsage(p) \/ PostStep(p) \/ PostFails(p)
    PROVE  UsageInv'
  <1>1. UsageShape'
    BY PostShape
  <1>2. UNCHANGED <<usageEvents, costRows>>
    BY DEF PostStep, PostUsage, Connect, InsertEvent, ReadCache, QueryModel, FillCache,
           ConnectTimesOut, QueryTimesOut, PostFails
  <1>3. \A q \in Posts \ {p} : usage'[q] = usage[q]
    BY DEF UsageInv, UsageShape, PostStep, PostUsage, Connect, InsertEvent, ReadCache, QueryModel,
           FillCache, ConnectTimesOut, QueryTimesOut, PostFails, Go
  <1>4. CASE InsertEvent(p)
    <2>1. usage'[p].at = IF SameKey(p) \cap usageEvents # {} THEN "duplicate" ELSE "cache"
      BY <1>4 DEF InsertEvent, Go, UsageInv, UsageShape, UsageState
    <2>2. ~KeyIsHeld(p)
      BY <1>4 DEF InsertEvent
    <2>3. /\ usage'[p].at = "duplicate" => SameKey(p) \cap usageEvents # {}
          /\ usage'[p].at \in InTransaction \ {"insert"} => SameKey(p) \cap usageEvents = {}
      BY <2>1 DEF InTransaction
    <2> QED  BY <1>1, <1>2, <1>3, <2>2, <2>3, PostMoves
  <1>5. CASE ~InsertEvent(p)
    <2>1. /\ usage'[p].at # "duplicate"
          /\ usage'[p].at \in InTransaction \ {"insert"} => HoldsKey(p)
      BY <1>5 DEF PostStep, PostUsage, Connect, ReadCache, QueryModel, FillCache,
         ConnectTimesOut, QueryTimesOut, PostFails, Go, UsageInv, UsageShape, UsageState, InTransaction, HoldsKey
    <2> QED  BY <1>1, <1>2, <1>3, <2>1, PostMoves
  <1> QED  BY <1>4, <1>5

LEMMA CommitKeeps ==
    ASSUME UsageInv, NEW p \in Posts, CommitEvent(p) \/ CommitUnanswered(p)
    PROVE  UsageInv'
  <1> DEFINE row == [post |-> p, model |-> usage[p].model]
  <1>1. UsageShape'
    BY PostShape DEF PostStep
  <1>2. /\ usageEvents' = usageEvents \cup {p} /\ costRows' = costRows \cup {row}
        /\ usage'[p].at \in {"recorded", "failed"} /\ \A q \in Posts \ {p} : usage'[q] = usage[q]
    BY DEF CommitEvent, CommitUnanswered, StoreEvent, Go, UsageInv, UsageShape, UsageState
  <1>3. HoldsKey(p)
    BY DEF CommitEvent, CommitUnanswered, StoreEvent, HoldsKey, InTransaction
  <1>4. /\ SameKey(p) \cap usageEvents = {}
        /\ \A q \in SameKey(p) : HoldsKey(q) => q = p
    BY <1>3 DEF UsageInv, KeyHeldOnce
  <1>5. p \notin usageEvents /\ row \notin costRows
    <2>1. p \notin usageEvents
      BY <1>4 DEF SameKey
    <2> QED  BY <2>1 DEF UsageInv, Charged
  <1>6. KeyHeldOnce'
    BY <1>2, <1>4 DEF UsageInv, KeyHeldOnce, HoldsKey, SameKey, InTransaction
  <1>7. Charged'
    <2>1. \A q, r \in usageEvents' : KeyOf[q] = KeyOf[r] => q = r
      BY <1>2, <1>4 DEF UsageInv, UsageShape, Charged, SameKey
    <2>2. {c.post : c \in costRows'} = usageEvents'
      <3>1. row.post = p
        OBVIOUS
      <3> HIDE DEF row
      <3>2. {c.post : c \in costRows \cup {row}} = {c.post : c \in costRows} \cup {p}
        BY <3>1
      <3> QED  BY <1>2, <3>2 DEF UsageInv, Charged
    <2>3. /\ IsFiniteSet(usageEvents') /\ IsFiniteSet(costRows')
          /\ Cardinality(costRows') = Cardinality(usageEvents')
      <3> HIDE DEF row
      <3>1. /\ IsFiniteSet(usageEvents \cup {p})
            /\ Cardinality(usageEvents \cup {p}) = Cardinality(usageEvents) + 1
        BY <1>5, FS_AddElement DEF UsageInv, Charged
      <3>2. /\ IsFiniteSet(costRows \cup {row})
            /\ Cardinality(costRows \cup {row}) = Cardinality(costRows) + 1
        BY <1>5, FS_AddElement DEF UsageInv, Charged
      <3> QED  BY <1>2, <3>1, <3>2 DEF UsageInv, Charged
    <2>4. \A q \in Posts : usage'[q].at = "duplicate" => SameKey(q) \cap usageEvents' # {}
      BY <1>2 DEF UsageInv, Charged, SameKey
    <2> QED  BY <2>1, <2>2, <2>3, <2>4 DEF Charged, SameKey
  <1> QED  BY <1>1, <1>6, <1>7 DEF UsageInv

LEMMA ActivationKeeps ==
    ASSUME UsageInv, NEW a \in Activations,
           \/ \E via \in {"service", "route"} : BeginActivation(a, via)
           \/ Deactivate(a) \/ CommitActivation(a) \/ PublishModel(a) \/ ActivationFails(a)
    PROVE  UsageInv'
  <1>1. UNCHANGED <<usage, usageEvents, costRows>>
    BY DEF BeginActivation, Deactivate, CommitActivation, PublishModel, ActivationFails
  <1>2. UsageShape'
    <2> activation[a] \in [at : {"idle", "open", "updated", "publish", "done"},
                           via : {"service", "route"}, off : SUBSET Activations]
      BY DEF UsageInv, UsageShape
    <2>1. CASE \E via \in {"service", "route"} : BeginActivation(a, via)
      BY <1>1, <2>1 DEF BeginActivation, UsageInv, UsageShape
    <2>2. CASE Deactivate(a)
      BY <1>1, <2>2 DEF Deactivate, UsageInv, UsageShape
    <2>3. CASE CommitActivation(a)
      BY <1>1, <2>3 DEF CommitActivation, UsageInv, UsageShape
    <2>4. CASE PublishModel(a) \/ ActivationFails(a)
      BY <1>1, <2>4 DEF PublishModel, ActivationFails, UsageInv, UsageShape
    <2> QED  BY <2>1, <2>2, <2>3, <2>4
  <1> QED  BY <1>1, <1>2 DEF UsageInv, KeyHeldOnce, HoldsKey, Charged, SameKey

LEMMA UsageNextInv == UsageInv /\ [UsageNext]_usageVars => UsageInv'
  <1> SUFFICES ASSUME UsageInv, [UsageNext]_usageVars PROVE UsageInv'
    OBVIOUS
  <1>1. CASE UNCHANGED usageVars
    BY <1>1 DEF UsageInv, UsageShape, KeyHeldOnce, HoldsKey, Charged, SameKey, usageVars
  <1>2. CASE \E p \in Posts : CommitEvent(p) \/ CommitUnanswered(p)
    BY <1>2, CommitKeeps
  <1>3. CASE \E p \in Posts : PostUsage(p) \/ PostStep(p) \/ PostFails(p)
    <2> PICK p \in Posts : PostUsage(p) \/ PostStep(p) \/ PostFails(p)
      BY <1>3
    <2>1. CASE CommitEvent(p)
      BY <2>1, CommitKeeps
    <2>2. CASE ~CommitEvent(p)
      BY <2>2, PostKeeps DEF PostStep
    <2> QED  BY <2>1, <2>2
  <1> QED  BY <1>1, <1>2, <1>3, ActivationKeeps DEF UsageNext

\* ChargedOnce: for each idempotency key at most one usage event is stored, each with exactly
\* one cost row, and a duplicate is only reported of an event that is stored, for any number of
\* concurrent posts, retries, rollbacks and pricing activations.
THEOREM EventsAreChargedOnce == UsageSpec => []ChargedOnce
  <1>1. UsageInv => ChargedOnce
    BY DEF UsageInv, Charged, ChargedOnce
  <1>2. UsageSpec => UsageInit /\ [][UsageNext]_usageVars
    BY PTL DEF UsageSpec
  <1> QED  BY <1>1, <1>2, UsageInitInv, UsageNextInv, PTL

-----------------------------------------------------------------------------
(* The usage tables are a ledger.                                          *)

AnswerAt(at) == IF at \in {"recorded", "duplicate"} THEN at ELSE "none"
Answers == [p \in Posts |-> AnswerAt(usage[p].at)]

\* The instance's names, in terms of the tables and the answers of the mapping.
LEMMA LedgerNames ==
    /\ Ledger!Init <=> costRows = {} /\ Answers = [p \in Posts |-> "none"]
    /\ \A key : Ledger!Stored(key) <=> \E row \in costRows : KeyOf[row.post] = key
    /\ \A p, what : Ledger!Answer(p, what) <=>
            Answers[p] = "none" /\ Answers' = [Answers EXCEPT ![p] = what]
  BY DEF Ledger!Init, Ledger!Stored, Ledger!Answer, Answers, AnswerAt

\* One post moves, and the answers of the others stay.
LEMMA AnswerMoves ==
    ASSUME NEW p \in Posts, \A q \in Posts \ {p} : usage'[q] = usage[q]
    PROVE  /\ Answers[p] = AnswerAt(usage[p].at)
           /\ Answers' = [Answers EXCEPT ![p] = AnswerAt(usage'[p].at)]
  <1>1. Answers[p] = AnswerAt(usage[p].at)
    BY DEF Answers
  <1>2. Answers' = [q \in Posts |-> AnswerAt(usage'[q].at)]
    BY DEF Answers, AnswerAt
  <1>3. [Answers EXCEPT ![p] = AnswerAt(usage'[p].at)] = [q \in Posts |-> AnswerAt(usage'[q].at)]
    BY DEF Answers
  <1> QED  BY <1>1, <1>2, <1>3

\* A key has a row of usage_events exactly when a cost of it is stored.
LEMMA StoredMeansCharged ==
    ASSUME UsageInv, NEW p \in Posts
    PROVE  Ledger!Stored(KeyOf[p]) <=> SameKey(p) \cap usageEvents # {}
  <1>1. {c.post : c \in costRows} = usageEvents /\ usageEvents \subseteq Posts
    BY DEF UsageInv, UsageShape, Charged
  <1> QED  BY <1>1, LedgerNames DEF SameKey

LEMMA PostIsLedgerStep ==
    ASSUME UsageInv, NEW p \in Posts,
           PostUsage(p) \/ PostStep(p) \/ PostFails(p) \/ CommitUnanswered(p)
    PROVE  [Ledger!Next]_(Ledger!ledgerVars)
  <1>0. usage \in [Posts -> UsageState]
    BY DEF UsageInv, UsageShape
  <1>1. \A q \in Posts \ {p} : usage'[q] = usage[q]
    BY <1>0 DEF PostStep, PostUsage, Connect, InsertEvent, ReadCache, QueryModel, FillCache,
           CommitEvent, CommitUnanswered, StoreEvent, ConnectTimesOut, QueryTimesOut, PostFails, Go
  <1>2. /\ Answers[p] = AnswerAt(usage[p].at)
        /\ Answers' = [Answers EXCEPT ![p] = AnswerAt(usage'[p].at)]
    BY <1>1, AnswerMoves
  <1>3. ASSUME StoreEvent(p)
        PROVE  Ledger!Store(p)
    <2>1. HoldsKey(p)
      BY <1>3 DEF StoreEvent, HoldsKey, InTransaction
    <2>2. ~Ledger!Stored(KeyOf[p])
      BY <2>1, StoredMeansCharged DEF UsageInv, KeyHeldOnce
    <2>3. /\ usage[p].model \in Activations \cup {NoModel}
          /\ costRows' = costRows \cup {[post |-> p, model |-> usage[p].model]}
      BY <1>0, <1>3 DEF StoreEvent, UsageState
    <2> QED  BY <2>2, <2>3 DEF Ledger!Store
  <1>6. CASE CommitEvent(p)
    <2>1. usage[p].at = "commit" /\ usage'[p].at = "recorded" /\ StoreEvent(p)
      BY <1>0, <1>6 DEF CommitEvent, StoreEvent, Go
    <2>2. Ledger!Answer(p, "recorded")
      BY <1>2, <2>1, LedgerNames DEF AnswerAt
    <2>3. Ledger!Record(p)
      BY <1>3, <2>1, <2>2 DEF Ledger!Record
    <2> QED  BY <2>3 DEF Ledger!Next
  <1>7. CASE CommitUnanswered(p)
    <2>1. usage[p].at = "commit" /\ usage'[p].at = "failed" /\ StoreEvent(p)
      BY <1>0, <1>7 DEF CommitUnanswered, StoreEvent, Go
    <2>2. Answers' = Answers
      BY <1>2, <2>1 DEF Answers, AnswerAt
    <2>3. Ledger!StoreUntold(p)
      BY <1>3, <2>1, <2>2 DEF Ledger!StoreUntold, Answers, AnswerAt
    <2> QED  BY <2>3 DEF Ledger!Next
  <1>4. CASE InsertEvent(p) /\ SameKey(p) \cap usageEvents # {}
    <2>1. usage[p].at = "insert" /\ usage'[p].at = "duplicate" /\ costRows' = costRows
      BY <1>0, <1>4 DEF InsertEvent, Go
    <2>2. Ledger!Answer(p, "duplicate")
      BY <1>2, <2>1, LedgerNames DEF AnswerAt
    <2>3. Ledger!Refuse(p)
      BY <1>4, <2>1, <2>2, StoredMeansCharged DEF Ledger!Refuse
    <2> QED  BY <2>3 DEF Ledger!Next
  <1>5. CASE ~CommitEvent(p) /\ ~CommitUnanswered(p) /\ ~(InsertEvent(p) /\ SameKey(p) \cap usageEvents # {})
    <2>1. /\ costRows' = costRows
          /\ AnswerAt(usage[p].at) = "none" /\ AnswerAt(usage'[p].at) = "none"
      BY <1>0, <1>5 DEF PostStep, PostUsage, Connect, InsertEvent, ReadCache, QueryModel, FillCache,
             ConnectTimesOut, QueryTimesOut, PostFails, Go, AnswerAt, InTransaction, UsageState
    <2>2. Answers' = Answers
      BY <1>2, <2>1 DEF Answers
    <2> QED  BY <2>1, <2>2 DEF Ledger!ledgerVars, Answers, AnswerAt
  <1> QED  BY <1>4, <1>5, <1>6, <1>7

LEMMA LedgerStep == UsageInv /\ [UsageNext]_usageVars => [Ledger!Next]_(Ledger!ledgerVars)
  <1> SUFFICES ASSUME UsageInv, [UsageNext]_usageVars PROVE [Ledger!Next]_(Ledger!ledgerVars)
    OBVIOUS
  <1>1. ASSUME UNCHANGED <<usage, costRows>> PROVE UNCHANGED (Ledger!ledgerVars)
    BY <1>1 DEF Ledger!ledgerVars
  <1>2. ASSUME NEW a \in Activations,
               \/ \E via \in {"service", "route"} : BeginActivation(a, via)
               \/ Deactivate(a) \/ CommitActivation(a) \/ PublishModel(a) \/ ActivationFails(a)
        PROVE  UNCHANGED <<usage, costRows>>
    BY <1>2 DEF BeginActivation, Deactivate, CommitActivation, PublishModel, ActivationFails
  <1>3. CASE UNCHANGED usageVars
    BY <1>1, <1>3 DEF usageVars
  <1>4. CASE UsageNext
    BY <1>1, <1>2, <1>4, PostIsLedgerStep DEF UsageNext
  <1> QED  BY <1>3, <1>4

\* RefinesLedger: however many posts, retries, activations and failures interleave, what is stored
\* and answered is what a ledger with one atomic step for each post, whose answer may be lost,
\* would store and answer.
THEOREM UsageIsLedger == UsageSpec => RefinesLedger
  <1>1. UsageInit => Ledger!Init
    BY DEF UsageInit, Ledger!Init
  <1>2. UsageSpec => UsageInit /\ [][UsageNext]_usageVars
    BY PTL DEF UsageSpec
  <1> QED  BY <1>1, <1>2, UsageInitInv, UsageNextInv, LedgerStep, PTL
              DEF RefinesLedger, Ledger!Spec

\* A step of a ledger keeps what the ledger promises.
LEMMA LedgerKeeps ==
    ASSUME Ledger!LedgerInv, [Ledger!Next]_(Ledger!ledgerVars)
    PROVE  Ledger!LedgerInv'
  <1>0. /\ \A row, other \in costRows : KeyOf[row.post] = KeyOf[other.post] => row = other
        /\ \A p \in Posts : Answers[p] = "recorded" => \E row \in costRows : row.post = p
        /\ \A p \in Posts : Answers[p] = "duplicate" => \E row \in costRows : KeyOf[row.post] = KeyOf[p]
    BY DEF Ledger!LedgerInv, Ledger!Stored, Answers, AnswerAt
  <1> SUFFICES
        /\ \A row, other \in costRows' : KeyOf[row.post] = KeyOf[other.post] => row = other
        /\ \A p \in Posts : Answers'[p] = "recorded" => \E row \in costRows' : row.post = p
        /\ \A p \in Posts : Answers'[p] = "duplicate"
                => \E row \in costRows' : KeyOf[row.post] = KeyOf[p]
    BY DEF Ledger!LedgerInv, Ledger!Stored, Answers, AnswerAt
  <1>1. DOMAIN Answers = Posts
    BY DEF Answers
  <1>2. ASSUME NEW p \in Posts, NEW what, Ledger!Answer(p, what)
        PROVE  /\ Answers[p] = "none" /\ Answers'[p] = what
               /\ \A q \in Posts \ {p} : Answers'[q] = Answers[q]
    BY <1>1, <1>2, LedgerNames
  <1>3. ASSUME NEW p \in Posts, Ledger!Record(p) \/ Ledger!StoreUntold(p)
        PROVE  /\ \A row, other \in costRows' : KeyOf[row.post] = KeyOf[other.post] => row = other
               /\ \A q \in Posts : Answers'[q] = "recorded" => \E row \in costRows' : row.post = q
               /\ \A q \in Posts : Answers'[q] = "duplicate"
                        => \E row \in costRows' : KeyOf[row.post] = KeyOf[q]
    <2>1. PICK m : costRows' = costRows \cup {[post |-> p, model |-> m]}
      BY <1>3 DEF Ledger!Record, Ledger!StoreUntold, Ledger!Store
    <2> DEFINE new == [post |-> p, model |-> m]
    <2>2. new.post = p
      OBVIOUS
    <2>3. \A row \in costRows : KeyOf[row.post] # KeyOf[p]
      BY <1>3, LedgerNames DEF Ledger!Record, Ledger!StoreUntold, Ledger!Store
    <2>4. /\ Answers'[p] \in {"recorded", Answers[p]}
          /\ \A q \in Posts \ {p} : Answers'[q] = Answers[q]
      <3>1. CASE Ledger!Record(p)
        BY <1>2, <3>1 DEF Ledger!Record
      <3>2. CASE Ledger!StoreUntold(p)
        BY <3>2 DEF Ledger!StoreUntold, Answers, AnswerAt
      <3> QED  BY <1>3, <3>1, <3>2
    <2> HIDE DEF new
    <2>5. costRows' = costRows \cup {new}
      BY <2>1 DEF new
    <2> QED  BY <1>0, <2>2, <2>3, <2>4, <2>5
  <1>4. ASSUME NEW p \in Posts, Ledger!Refuse(p)
        PROVE  /\ costRows' = costRows /\ Answers'[p] = "duplicate" /\ Answers[p] = "none"
               /\ \A q \in Posts \ {p} : Answers'[q] = Answers[q]
               /\ \E row \in costRows : KeyOf[row.post] = KeyOf[p]
    BY <1>2, <1>4, LedgerNames DEF Ledger!Refuse
  <1>5. CASE UNCHANGED (Ledger!ledgerVars)
    <2>1. costRows' = costRows /\ Answers' = Answers
      BY <1>5 DEF Ledger!ledgerVars, Answers, AnswerAt
    <2> QED  BY <1>0, <2>1
  <1>6. CASE \E p \in Posts : Ledger!Refuse(p)
    BY <1>0, <1>4, <1>6
  <1>7. CASE \E p \in Posts : Ledger!Record(p) \/ Ledger!StoreUntold(p)
    BY <1>3, <1>7
  <1> QED  BY <1>5, <1>6, <1>7 DEF Ledger!Next

\* LedgerInv, which the usage service inherits from the ledger: whoever was told "recorded" has one
\* row and cost, whoever was told "duplicate" has a row of its key, and lost answers make no key
\* be charged twice.
THEOREM AnswersAreTrue == UsageSpec => []Ledger!LedgerInv
  <1>1. UsageInit => Ledger!LedgerInv
    BY DEF UsageInit, Ledger!LedgerInv, Ledger!Stored
  <1>2. UsageSpec => UsageInit /\ [][UsageNext]_usageVars
    BY PTL DEF UsageSpec
  <1> QED  BY <1>1, <1>2, UsageInitInv, UsageNextInv, LedgerStep, LedgerKeeps, PTL

-----------------------------------------------------------------------------
(* The pool of connections.                                                *)

\* The connections in use, by posts and by activations.
BusyPosts == {p \in Posts : usage[p].at \in InTransaction}
BusyActivations == {a \in Activations : activation[a].at \in {"open", "updated"}}

PoolInv ==
    /\ IsFiniteSet(BusyPosts) /\ IsFiniteSet(BusyActivations)
    /\ Cardinality(BusyPosts) + Cardinality(BusyActivations) <= PoolSize

\* A connection is only taken when there is one.
LEMMA PoolStep ==
    ASSUME PoolInv, NEW P, NEW A,
           \/ P \subseteq BusyPosts /\ A \subseteq BusyActivations
           \/ /\ FreeConnections > 0
              /\ \/ (\E p : P \subseteq BusyPosts \cup {p}) /\ A \subseteq BusyActivations
                 \/ P \subseteq BusyPosts /\ \E a : A \subseteq BusyActivations \cup {a}
    PROVE  IsFiniteSet(P) /\ IsFiniteSet(A) /\ Cardinality(P) + Cardinality(A) <= PoolSize
  <1>1. /\ Cardinality(BusyPosts) \in Nat /\ Cardinality(BusyActivations) \in Nat
        /\ PoolSize \in Nat
    BY FS_CardinalityType, UsageAssumption DEF PoolInv
  <1>2. ASSUME NEW S, NEW T, IsFiniteSet(S), T \subseteq S
        PROVE  IsFiniteSet(T) /\ Cardinality(T) \in Nat /\ Cardinality(T) <= Cardinality(S)
    BY <1>2, FS_Subset, FS_CardinalityType
  <1>3. ASSUME NEW S, NEW T, NEW x, IsFiniteSet(S), T \subseteq S \cup {x}
        PROVE  IsFiniteSet(T) /\ Cardinality(T) \in Nat /\ Cardinality(T) <= Cardinality(S) + 1
    <2>1. /\ IsFiniteSet(S \cup {x}) /\ Cardinality(S) \in Nat
          /\ Cardinality(S \cup {x}) \in Nat /\ Cardinality(S \cup {x}) <= Cardinality(S) + 1
      BY <1>3, FS_AddElement, FS_CardinalityType
    <2>2. IsFiniteSet(T) /\ Cardinality(T) \in Nat /\ Cardinality(T) <= Cardinality(S \cup {x})
      BY <1>2, <1>3, <2>1
    <2> QED  BY <2>1, <2>2
  <1>4. CASE P \subseteq BusyPosts /\ A \subseteq BusyActivations
    BY <1>1, <1>2, <1>4 DEF PoolInv
  <1>5. ASSUME FreeConnections > 0
        PROVE  Cardinality(BusyPosts) + Cardinality(BusyActivations) + 1 <= PoolSize
    BY <1>1, <1>5 DEF FreeConnections, BusyPosts, BusyActivations
  <1>6. CASE /\ FreeConnections > 0
             /\ (\E p : P \subseteq BusyPosts \cup {p}) /\ A \subseteq BusyActivations
    <2>1. IsFiniteSet(P) /\ Cardinality(P) \in Nat /\ Cardinality(P) <= Cardinality(BusyPosts) + 1
      BY <1>3, <1>6 DEF PoolInv
    <2>2. IsFiniteSet(A) /\ Cardinality(A) \in Nat
          /\ Cardinality(A) <= Cardinality(BusyActivations)
      BY <1>2, <1>6 DEF PoolInv
    <2> QED  BY <1>1, <1>5, <1>6, <2>1, <2>2
  <1>7. CASE /\ FreeConnections > 0
             /\ P \subseteq BusyPosts /\ \E a : A \subseteq BusyActivations \cup {a}
    <2>1. IsFiniteSet(A) /\ Cardinality(A) \in Nat
          /\ Cardinality(A) <= Cardinality(BusyActivations) + 1
      BY <1>3, <1>7 DEF PoolInv
    <2>2. IsFiniteSet(P) /\ Cardinality(P) \in Nat /\ Cardinality(P) <= Cardinality(BusyPosts)
      BY <1>2, <1>7 DEF PoolInv
    <2> QED  BY <1>1, <1>5, <1>7, <2>1, <2>2
  <1> QED  BY <1>4, <1>6, <1>7

LEMMA PoolNextInv == UsageInv /\ PoolInv /\ [UsageNext]_usageVars => PoolInv'
  <1> SUFFICES ASSUME UsageInv, PoolInv, [UsageNext]_usageVars PROVE PoolInv'
    OBVIOUS
  <1> USE DEF BusyPosts, BusyActivations
  <1>t. /\ usage \in [Posts -> UsageState]
        /\ activation \in [Activations -> [at : {"idle", "open", "updated", "publish", "done"},
                                       via : {"service", "route"}, off : SUBSET Activations]]
    BY DEF UsageInv, UsageShape
  <1>1. ASSUME NEW p \in Posts,
               PostUsage(p) \/ PostStep(p) \/ PostFails(p) \/ CommitUnanswered(p)
        PROVE  /\ BusyActivations' = BusyActivations
               /\ \/ BusyPosts' \subseteq BusyPosts
                  \/ FreeConnections > 0 /\ BusyPosts' \subseteq BusyPosts \cup {p}
    <2>1. UNCHANGED activation /\ \A q \in Posts \ {p} : usage'[q] = usage[q]
      BY <1>1, <1>t DEF PostStep, PostUsage, Connect, InsertEvent, ReadCache, QueryModel,
            FillCache, CommitEvent, CommitUnanswered, StoreEvent, ConnectTimesOut, QueryTimesOut,
            PostFails, Go
    <2>2. \/ FreeConnections > 0
          \/ usage'[p].at \in InTransaction => usage[p].at \in InTransaction
      BY <1>1, <1>t DEF PostStep, PostUsage, Connect, InsertEvent, ReadCache, QueryModel,
            FillCache, CommitEvent, CommitUnanswered, StoreEvent, ConnectTimesOut, QueryTimesOut,
            PostFails, Go,
            InTransaction, UsageState
    <2> QED  BY <2>1, <2>2
  <1>2. ASSUME NEW a \in Activations,
               \/ \E via \in {"service", "route"} : BeginActivation(a, via)
               \/ Deactivate(a) \/ CommitActivation(a) \/ PublishModel(a) \/ ActivationFails(a)
        PROVE  /\ BusyPosts' = BusyPosts
               /\ \/ BusyActivations' \subseteq BusyActivations
                  \/ /\ FreeConnections > 0
                     /\ BusyActivations' \subseteq BusyActivations \cup {a}
    <2>1. UNCHANGED usage /\ \A b \in Activations \ {a} : activation'[b] = activation[b]
      BY <1>2, <1>t DEF BeginActivation, Deactivate, CommitActivation, PublishModel, ActivationFails
    <2>2. \/ FreeConnections > 0
          \/ activation'[a].at \in {"open", "updated"} => activation[a].at \in {"open", "updated"}
      BY <1>2, <1>t DEF BeginActivation, Deactivate, CommitActivation, PublishModel, ActivationFails
    <2> QED  BY <2>1, <2>2
  <1>3. CASE UNCHANGED usageVars
    BY <1>3 DEF usageVars, PoolInv
  <1>4. ASSUME UsageNext
        PROVE  \/ BusyPosts' \subseteq BusyPosts /\ BusyActivations' \subseteq BusyActivations
               \/ /\ FreeConnections > 0
                  /\ \/ /\ \E p : BusyPosts' \subseteq BusyPosts \cup {p}
                        /\ BusyActivations' \subseteq BusyActivations
                     \/ /\ BusyPosts' \subseteq BusyPosts
                        /\ \E a : BusyActivations' \subseteq BusyActivations \cup {a}
    <2> HIDE DEF BusyPosts, BusyActivations
    <2>1. CASE \E p \in Posts :
                PostUsage(p) \/ PostStep(p) \/ PostFails(p) \/ CommitUnanswered(p)
      BY <2>1, <1>1
    <2>2. CASE \E a \in Activations :
                \/ \E via \in {"service", "route"} : BeginActivation(a, via)
                \/ Deactivate(a) \/ CommitActivation(a) \/ PublishModel(a) \/ ActivationFails(a)
      BY <2>2, <1>2
    <2> QED  BY <1>4, <2>1, <2>2 DEF UsageNext
  <1> HIDE DEF BusyPosts, BusyActivations
  <1>5. CASE UsageNext
    <2> DEFINE P == BusyPosts'
               A == BusyActivations'
    <2> HIDE DEF P, A
    <2>1. \/ P \subseteq BusyPosts /\ A \subseteq BusyActivations
          \/ /\ FreeConnections > 0
             /\ \/ (\E p : P \subseteq BusyPosts \cup {p}) /\ A \subseteq BusyActivations
                \/ P \subseteq BusyPosts /\ \E a : A \subseteq BusyActivations \cup {a}
      BY <1>4, <1>5 DEF P, A
    <2>2. IsFiniteSet(P) /\ IsFiniteSet(A) /\ Cardinality(P) + Cardinality(A) <= PoolSize
      BY <2>1, PoolStep
    <2> QED  BY <2>2 DEF P, A, PoolInv
  <1> QED  BY <1>3, <1>5

LEMMA PoolInitInv == UsageInit => PoolInv
  <1> SUFFICES ASSUME UsageInit PROVE PoolInv
    OBVIOUS
  <1>1. BusyPosts = {} /\ BusyActivations = {}
    BY DEF UsageInit, BusyPosts, BusyActivations, InTransaction
  <1> QED  BY <1>1, FS_EmptySet, UsageAssumption DEF PoolInv

\* What the two invariants say of the types.
LEMMA UsageTypes == UsageInv /\ PoolInv => UsageTypeOK
  <1> SUFFICES ASSUME UsageInv, PoolInv PROVE UsageTypeOK
    OBVIOUS
  <1>1. Cardinality(BusyPosts) \in Nat /\ Cardinality(BusyActivations) \in Nat
        /\ PoolSize \in Nat
    BY FS_CardinalityType, UsageAssumption DEF PoolInv
  <1>2. FreeConnections = PoolSize - Cardinality(BusyPosts) - Cardinality(BusyActivations)
    BY DEF FreeConnections, BusyPosts, BusyActivations
  <1>3. FreeConnections \in 0..PoolSize
    BY <1>1, <1>2 DEF PoolInv
  <1> QED  BY <1>3 DEF UsageInv, UsageShape, UsageState, UsageTypeOK

\* UsageTypeOK: posts and activations that each hold a connection, and posts that ask for a second
\* one inside their transaction, never hold more connections than the pool has (db/pool.ts), for any
\* size of the pool and any number, even an infinite one, of posts and activations.
THEOREM PoolIsNotOverdrawn == UsageSpec => []UsageTypeOK
  <1>1. UsageSpec => UsageInit /\ [][UsageNext]_usageVars
    BY PTL DEF UsageSpec
  <1> QED  BY <1>1, UsageInitInv, UsageNextInv, PoolInitInv, PoolNextInv, UsageTypes, PTL

-----------------------------------------------------------------------------
(* AddOns.                                                                 *)

AddOnItems == 1..Len(items)
AddOnRows == 1..Len(tenantAddOns)
AddOnRow == [item : AddOnItems, status : {"active", "cancelled"}, unasked : BOOLEAN]
RequestState == [at : {"new", "check", "existing", "stripe", "insert", "subs", "remove", "update",
                       "archive", "done"},
                 item : Nat, row : Nat, live : BOOLEAN]

AddOnShape ==
    /\ items \in Seq(BOOLEAN)
    /\ remembered \in {NoItem} \cup AddOnItems
    /\ tenantAddOns \in Seq(AddOnRow)
    /\ request \in [AddOnRequests -> RequestState]

\* What a request has read is of a row, or an item, that is there; and a deactivation that is
\* about to write the row has taken the item off, if it asked Stripe.
Prepared(r) ==
    /\ request[r].at = "insert" => request[r].item \in AddOnItems
    /\ request[r].at \in {"subs", "remove", "update"} => request[r].row \in AddOnRows
    /\ request[r].at \in {"subs", "remove"} =>
            request[r].item = tenantAddOns[request[r].row].item
    /\ request[r].at = "update" /\ request[r].live
            => ~items[tenantAddOns[request[r].row].item]

\* A row that claims its item is gone.
Unbilled(k) == tenantAddOns[k].status = "cancelled" /\ ~tenantAddOns[k].unasked

AddOnInv ==
    /\ AddOnShape
    /\ \A r \in AddOnRequests : Prepared(r)
    /\ \A k \in AddOnRows : Unbilled(k) => ~items[tenantAddOns[k].item]

\* A sequence and its domain.
LEMMA DomainIsRange ==
    ASSUME NEW S, NEW s \in Seq(S)
    PROVE  DOMAIN s = 1..Len(s) /\ Len(s) \in Nat /\ \A i \in 1..Len(s) : s[i] \in S
  BY LenProperties, ElementOfSeq

LEMMA RowsAreRows ==
    ASSUME AddOnShape
    PROVE  \A k \in AddOnRows : tenantAddOns[k] \in AddOnRow /\ tenantAddOns[k].item \in AddOnItems
  <1>1. \A k \in AddOnRows : tenantAddOns[k] \in AddOnRow
    BY DomainIsRange DEF AddOnShape, AddOnRows
  <1> QED  BY <1>1 DEF AddOnRow

\* AddOnItems come off and never back on, rows keep their items, and a request either stands still
\* or is prepared for its next step: then the invariant is kept.
LEMMA AddOnStep ==
    ASSUME AddOnInv, AddOnShape',
           AddOnItems \subseteq AddOnItems', \A i \in AddOnItems : ~items[i] => ~items'[i],
           AddOnRows \subseteq AddOnRows', \A k \in AddOnRows : tenantAddOns'[k].item = tenantAddOns[k].item,
           \A k \in AddOnRows' : Unbilled(k)' =>
                (k \in AddOnRows /\ Unbilled(k)) \/ ~items'[tenantAddOns'[k].item],
           \A r \in AddOnRequests : request'[r] = request[r] \/ Prepared(r)'
    PROVE  AddOnInv'
  <1>1. \A k \in AddOnRows : tenantAddOns[k].item \in AddOnItems
    BY RowsAreRows DEF AddOnInv
  <1>2. ASSUME NEW r \in AddOnRequests, request'[r] = request[r] PROVE Prepared(r)'
    <2>1. Prepared(r)
      BY DEF AddOnInv
    <2> QED  BY <1>1, <1>2, <2>1 DEF Prepared
  <1>3. \A k \in AddOnRows' : Unbilled(k)' => ~items'[tenantAddOns'[k].item]
    BY <1>1 DEF AddOnInv
  <1> QED  BY <1>2, <1>3 DEF AddOnInv

\* A step that only moves a request to a point at which nothing read is used any more.
LEMMA OnlyMoves ==
    ASSUME AddOnInv, NEW r \in AddOnRequests, UNCHANGED <<items, remembered, tenantAddOns>>,
           NEW to \in {"check", "existing", "stripe", "archive", "done"},
           request' = [request EXCEPT ![r].at = to]
    PROVE  AddOnInv'
  <1>1. request[r] \in RequestState /\ request \in [AddOnRequests -> RequestState]
    BY DEF AddOnInv, AddOnShape
  <1>2. AddOnShape'
    BY <1>1 DEF AddOnInv, AddOnShape, RequestState, AddOnRow, AddOnRows, AddOnItems
  <1>3. Prepared(r)' /\ \A q \in AddOnRequests \ {r} : request'[q] = request[q]
    BY <1>1 DEF Prepared, RequestState
  <1> QED  BY <1>2, <1>3, AddOnStep DEF AddOnItems, AddOnRows, Unbilled

LEMMA ControlKeeps ==
    ASSUME AddOnInv, NEW r \in AddOnRequests,
           \/ CheckSubscription(r) \/ CheckAddOn(r) \/ CheckExisting(r) \/ CountSubscribers(r)
           \/ SoftArchiveAddOn(r) \/ AddOnRequestFails(r)
    PROVE  AddOnInv'
  <1>1. UNCHANGED <<items, remembered, tenantAddOns>>
    BY DEF CheckSubscription, CheckAddOn, CheckExisting, CountSubscribers, SoftArchiveAddOn,
           AddOnRequestFails
  <1>2. \E to \in {"check", "existing", "stripe", "archive", "done"} :
            request' = [request EXCEPT ![r].at = to]
    BY DEF CheckSubscription, CheckAddOn, CheckExisting, CountSubscribers, SoftArchiveAddOn,
           AddOnRequestFails, Goto
  <1> QED  BY <1>1, <1>2, OnlyMoves

LEMMA AddItemKeeps ==
    ASSUME AddOnInv, NEW r \in AddOnRequests, AddItem(r)
    PROVE  AddOnInv'
  <1>0. /\ request[r] \in RequestState /\ request \in [AddOnRequests -> RequestState]
        /\ items \in Seq(BOOLEAN) /\ Len(items) \in Nat /\ NoItem \notin Nat
        /\ tenantAddOns \in Seq(AddOnRow)
    BY DomainIsRange, AddOnAssumption DEF AddOnInv, AddOnShape
  <1>1. UNCHANGED tenantAddOns
    BY DEF AddItem
  <1>2. PICK i \in Nat, inTime \in BOOLEAN :
            /\ request' = [request EXCEPT ![r].at = IF inTime THEN "insert" ELSE "done",
                                          ![r].item = i]
            /\ \/ i = remembered /\ i # NoItem /\ UNCHANGED <<items, remembered>>
               \/ items' = Append(items, TRUE) /\ remembered' = i /\ i = Len(items) + 1
    <2> DEFINE Answer(i, inTime) ==
            request' = [request EXCEPT ![r].at = IF inTime THEN "insert" ELSE "done",
                                       ![r].item = i]
    <2>1. PICK inTime \in BOOLEAN :
            \/ remembered # NoItem /\ Answer(remembered, inTime) /\ UNCHANGED <<items, remembered>>
            \/ /\ items' = Append(items, TRUE) /\ remembered' = Len(items) + 1
               /\ Answer(Len(items) + 1, inTime)
      BY DEF AddItem
    <2>2. remembered # NoItem => remembered \in Nat
      BY DEF AddOnInv, AddOnShape, AddOnItems
    <2> HIDE DEF Answer
    <2>3. \E i \in Nat :
            /\ Answer(i, inTime)
            /\ \/ i = remembered /\ i # NoItem /\ UNCHANGED <<items, remembered>>
               \/ items' = Append(items, TRUE) /\ remembered' = i /\ i = Len(items) + 1
      <3>1. CASE remembered # NoItem /\ Answer(remembered, inTime)
                 /\ UNCHANGED <<items, remembered>>
        BY <2>2, <3>1
      <3>2. CASE /\ items' = Append(items, TRUE) /\ remembered' = Len(items) + 1
                 /\ Answer(Len(items) + 1, inTime)
        <4>1. Len(items) + 1 \in Nat
          BY <1>0
        <4> QED  BY <3>2, <4>1
      <3> QED  BY <2>1, <3>1, <3>2
    <2> QED  BY <2>3 DEF Answer
  <1>3. /\ items' \in Seq(BOOLEAN) /\ AddOnItems \subseteq AddOnItems'
        /\ i \in AddOnItems' /\ remembered' \in {NoItem} \cup AddOnItems'
        /\ \A j \in AddOnItems : items'[j] = items[j]
    <2>1. CASE i = remembered /\ i # NoItem /\ UNCHANGED <<items, remembered>>
      BY <1>0, <2>1 DEF AddOnInv, AddOnShape, AddOnItems
    <2>2. CASE items' = Append(items, TRUE) /\ remembered' = i /\ i = Len(items) + 1
      <3>1. /\ Append(items, TRUE) \in Seq(BOOLEAN) /\ Len(Append(items, TRUE)) = Len(items) + 1
            /\ \A j \in 1..Len(items) : Append(items, TRUE)[j] = items[j]
        BY <1>0, AppendProperties
      <3> QED  BY <1>0, <2>2, <3>1 DEF AddOnItems
    <2> QED  BY <1>2, <2>1, <2>2
  <1>4. /\ request' \in [AddOnRequests -> RequestState] /\ Prepared(r)'
        /\ \A q \in AddOnRequests \ {r} : request'[q] = request[q]
    BY <1>0, <1>2, <1>3 DEF RequestState, Prepared
  <1>5. AddOnRow \subseteq AddOnRow'
    BY <1>3 DEF AddOnRow
  <1>6. AddOnShape'
    BY <1>0, <1>1, <1>3, <1>4, <1>5, SeqMonotonic DEF AddOnShape
  <1> QED  BY <1>1, <1>3, <1>4, <1>6, AddOnStep DEF AddOnRows, Unbilled

LEMMA InsertKeeps ==
    ASSUME AddOnInv, NEW r \in AddOnRequests, InsertTenantAddOn(r)
    PROVE  AddOnInv'
  <1> DEFINE new == [item |-> request[r].item, status |-> "active", unasked |-> FALSE]
  <1>0. /\ request[r] \in RequestState /\ request \in [AddOnRequests -> RequestState]
        /\ tenantAddOns \in Seq(AddOnRow) /\ Len(tenantAddOns) \in Nat
    BY DomainIsRange DEF AddOnInv, AddOnShape
  <1>1. /\ UNCHANGED <<items, remembered>> /\ request[r].at = "insert"
        /\ request' = [request EXCEPT ![r].at = "done"]
        /\ tenantAddOns' = tenantAddOns \/ tenantAddOns' = Append(tenantAddOns, new)
    BY DEF InsertTenantAddOn, Goto
  <1>2. new \in AddOnRow
    BY <1>1 DEF AddOnInv, Prepared, AddOnRow
  <1>3. new.status = "active"
    OBVIOUS
  <1> HIDE DEF new
  <1>4. /\ tenantAddOns' \in Seq(AddOnRow) /\ AddOnRows \subseteq AddOnRows'
        /\ \A k \in AddOnRows : tenantAddOns'[k] = tenantAddOns[k]
        /\ \A k \in AddOnRows' : k \in AddOnRows \/ tenantAddOns'[k] = new
    <2>1. /\ Append(tenantAddOns, new) \in Seq(AddOnRow)
          /\ Len(Append(tenantAddOns, new)) = Len(tenantAddOns) + 1
          /\ \A k \in 1..Len(tenantAddOns) : Append(tenantAddOns, new)[k] = tenantAddOns[k]
          /\ Append(tenantAddOns, new)[Len(tenantAddOns) + 1] = new
      BY <1>0, <1>2, AppendProperties
    <2>2. CASE tenantAddOns' = tenantAddOns
      BY <1>0, <2>2 DEF AddOnRows
    <2>3. CASE tenantAddOns' = Append(tenantAddOns, new)
      <3>1. AddOnRows = 1..Len(tenantAddOns) /\ AddOnRows' = 1..(Len(tenantAddOns) + 1)
        BY <2>1, <2>3 DEF AddOnRows
      <3>2. \A k \in AddOnRows' : k \in AddOnRows \/ k = Len(tenantAddOns) + 1
        BY <1>0, <3>1
      <3>3. AddOnRows \subseteq AddOnRows'
        BY <1>0, <3>1
      <3>4. \A k \in AddOnRows' : k \in AddOnRows \/ tenantAddOns'[k] = new
        BY <2>1, <2>3, <3>2
      <3>5. \A k \in AddOnRows : tenantAddOns'[k] = tenantAddOns[k]
        BY <2>1, <2>3, <3>1
      <3> QED  BY <2>1, <2>3, <3>3, <3>4, <3>5
    <2> QED  BY <1>1, <2>2, <2>3
  <1>5. AddOnRow' = AddOnRow /\ AddOnItems' = AddOnItems
    BY <1>1 DEF AddOnRow, AddOnItems
  <1>6. AddOnShape'
    BY <1>0, <1>1, <1>4, <1>5 DEF AddOnInv, AddOnShape, RequestState
  <1>7. Prepared(r)' /\ \A q \in AddOnRequests \ {r} : request'[q] = request[q]
    BY <1>0, <1>1 DEF Prepared, RequestState
  <1>8. \A k \in AddOnRows' : Unbilled(k)' => k \in AddOnRows /\ Unbilled(k)
    BY <1>3, <1>4 DEF Unbilled
  <1> QED  BY <1>1, <1>4, <1>5, <1>6, <1>7, <1>8, AddOnStep

\* The steps of a deactivation that only read.
LEMMA ReadKeeps ==
    ASSUME AddOnInv, NEW r \in AddOnRequests, ReadTenantAddOn(r) \/ ReadSubscription(r)
    PROVE  AddOnInv'
  <1>0. /\ request[r] \in RequestState /\ request \in [AddOnRequests -> RequestState]
        /\ DOMAIN tenantAddOns = AddOnRows /\ AddOnRows \subseteq Nat /\ AddOnItems \subseteq Nat
    BY DomainIsRange DEF AddOnInv, AddOnShape, AddOnRows, AddOnItems
  <1>1. UNCHANGED <<items, remembered, tenantAddOns>>
    BY DEF ReadTenantAddOn, ReadSubscription
  <1>2. /\ request' \in [AddOnRequests -> RequestState] /\ Prepared(r)'
        /\ \A q \in AddOnRequests \ {r} : request'[q] = request[q]
    <2>1. CASE ReadTenantAddOn(r)
      <3>1. PICK k \in AddOnRows :
              request' = [request EXCEPT ![r].row = k, ![r].item = tenantAddOns[k].item,
                    ![r].at = IF tenantAddOns[k].status = "active" THEN "subs" ELSE "done"]
        BY <1>0, <2>1 DEF ReadTenantAddOn
      <3>2. tenantAddOns[k].item \in Nat
        BY <1>0, RowsAreRows DEF AddOnInv
      <3> QED  BY <1>0, <1>1, <3>1, <3>2 DEF RequestState, Prepared, AddOnRows
    <2>2. CASE ReadSubscription(r)
      <3>1. Prepared(r) /\ Live \in BOOLEAN
        BY DEF AddOnInv, Live
      <3>2. /\ request[r].at = "subs"
            /\ request' = [request EXCEPT ![r].at = IF Live THEN "remove" ELSE "update",
                                          ![r].live = Live]
        BY <2>2 DEF ReadSubscription
      <3> HIDE DEF Live
      <3> QED  BY <1>0, <1>1, <3>1, <3>2 DEF RequestState, Prepared, AddOnRows
    <2> QED  BY <2>1, <2>2
  <1>3. AddOnShape'
    BY <1>1, <1>2 DEF AddOnInv, AddOnShape, AddOnRow, AddOnItems
  <1> QED  BY <1>1, <1>2, <1>3, AddOnStep DEF AddOnItems, AddOnRows, Unbilled

LEMMA RemoveItemKeeps ==
    ASSUME AddOnInv, NEW r \in AddOnRequests, RemoveItem(r)
    PROVE  AddOnInv'
  <1> DEFINE item == request[r].item
             off == [items EXCEPT ![item] = FALSE]
  <1>0. /\ request[r] \in RequestState /\ request \in [AddOnRequests -> RequestState]
        /\ items \in Seq(BOOLEAN) /\ Len(items) \in Nat /\ Prepared(r)
    BY DomainIsRange DEF AddOnInv, AddOnShape
  <1>1. PICK called \in BOOLEAN, inTime \in BOOLEAN :
            /\ inTime => called
            /\ request[r].at = "remove"
            /\ request' = [request EXCEPT ![r].at =
                                IF inTime /\ items[item] THEN "update" ELSE "done"]
            /\ items' = IF called THEN off ELSE items
    BY DEF RemoveItem, Goto
  <1>2. UNCHANGED <<remembered, tenantAddOns>>
    BY DEF RemoveItem
  <1>3. /\ request[r].row \in AddOnRows /\ item = tenantAddOns[request[r].row].item /\ item \in AddOnItems
    BY <1>0, <1>1, RowsAreRows DEF AddOnInv, Prepared
  <1>4. /\ off \in Seq(BOOLEAN) /\ Len(off) = Len(items)
        /\ \A j \in AddOnItems : off[j] = IF j = item THEN FALSE ELSE items[j]
    <2> DEFINE no == FALSE
    <2>1. no \in BOOLEAN /\ item \in 1..Len(items)
      BY <1>3 DEF AddOnItems
    <2> HIDE DEF item, no
    <2>2. /\ [items EXCEPT ![item] = no] \in Seq(BOOLEAN)
          /\ Len([items EXCEPT ![item] = no]) = Len(items)
          /\ \A j \in 1..Len(items) :
                [items EXCEPT ![item] = no][j] = IF j = item THEN no ELSE items[j]
      BY <1>0, <2>1, ExceptSeq
    <2> QED  BY <2>2 DEF AddOnItems, no
  <1> HIDE DEF item, off
  <1>5. /\ items' \in Seq(BOOLEAN) /\ AddOnItems' = AddOnItems
        /\ \A j \in AddOnItems : items'[j] = IF called /\ j = item THEN FALSE ELSE items[j]
    BY <1>0, <1>1, <1>4 DEF AddOnItems
  <1>6. \E to \in {"update", "done"} :
            /\ request' = [request EXCEPT ![r].at = to]
            /\ to = "update" => called
    BY <1>1
  <1>7. PICK to \in {"update", "done"} :
            /\ request' = [request EXCEPT ![r].at = to]
            /\ to = "update" => called
    BY <1>6
  <1>8. /\ request' \in [AddOnRequests -> RequestState]
        /\ request'[r] = [request[r] EXCEPT !.at = to]
        /\ \A q \in AddOnRequests \ {r} : request'[q] = request[q]
    BY <1>0, <1>7 DEF RequestState
  <1>9. request'[r].at = to /\ request'[r].row = request[r].row
    BY <1>0, <1>8 DEF RequestState
  <1>10. Prepared(r)'
    <2>1. to = "update" => ~items'[tenantAddOns'[request'[r].row].item]
      BY <1>2, <1>3, <1>5, <1>7, <1>9
    <2> QED  BY <1>2, <1>3, <1>7, <1>9, <2>1 DEF Prepared, AddOnRows
  <1>11. AddOnShape'
    BY <1>2, <1>5, <1>8 DEF AddOnInv, AddOnShape, AddOnRow
  <1>12. \A k \in AddOnRows : tenantAddOns[k].item \in AddOnItems
    BY RowsAreRows DEF AddOnInv
  <1> QED  BY <1>2, <1>5, <1>8, <1>10, <1>11, AddOnStep DEF AddOnRows, Unbilled

\* The row is only written when Stripe's item is off, or when Stripe was not asked.
LEMMA CancelKeeps ==
    ASSUME AddOnInv, NEW r \in AddOnRequests, CancelTenantAddOn(r)
    PROVE  AddOnInv'
  <1> DEFINE row == request[r].row
             old == tenantAddOns[row]
             new == Cancelled(old, request[r].live)
  <1>0. /\ request[r] \in RequestState /\ request \in [AddOnRequests -> RequestState]
        /\ tenantAddOns \in Seq(AddOnRow) /\ Len(tenantAddOns) \in Nat /\ Prepared(r)
    BY DomainIsRange DEF AddOnInv, AddOnShape
  <1>1. /\ UNCHANGED <<items, remembered>> /\ request[r].at = "update"
        /\ request' = [request EXCEPT ![r].at = "done"]
        /\ tenantAddOns' = [tenantAddOns EXCEPT ![row] = new]
    BY DEF CancelTenantAddOn, Goto
  <1>2. row \in AddOnRows
    BY <1>0, <1>1 DEF Prepared
  <1>3. old \in AddOnRow
    BY <1>2, RowsAreRows DEF AddOnInv
  <1>4. request[r].live \in BOOLEAN
    BY <1>0 DEF RequestState
  <1>5. new \in AddOnRow /\ new.item = old.item
    BY <1>3, <1>4 DEF AddOnRow, Cancelled
  <1>6. new.unasked = (old.unasked \/ ~request[r].live)
    BY <1>3 DEF AddOnRow, Cancelled
  <1>7. ~new.unasked => ~items[new.item]
    <2>1. request[r].live => ~items[old.item]
      BY <1>0, <1>1 DEF Prepared
    <2> QED  BY <1>5, <1>6, <2>1
  <1> HIDE DEF row, old, new
  <1>8. /\ tenantAddOns' \in Seq(AddOnRow) /\ AddOnRows' = AddOnRows
        /\ \A k \in AddOnRows : tenantAddOns'[k] = IF k = row THEN new ELSE tenantAddOns[k]
    BY <1>0, <1>1, <1>2, <1>5, ExceptSeq DEF AddOnRows
  <1>9. \A k \in AddOnRows : tenantAddOns'[k].item = tenantAddOns[k].item
    BY <1>5, <1>8 DEF old
  <1>10. \A k \in AddOnRows' : Unbilled(k)' =>
            (k \in AddOnRows /\ Unbilled(k)) \/ ~items'[tenantAddOns'[k].item]
    BY <1>1, <1>7, <1>8 DEF Unbilled
  <1>11. AddOnRow' = AddOnRow /\ AddOnItems' = AddOnItems
    BY <1>1 DEF AddOnRow, AddOnItems
  <1>12. AddOnShape'
    BY <1>0, <1>1, <1>8, <1>11 DEF AddOnInv, AddOnShape, RequestState
  <1>13. Prepared(r)' /\ \A q \in AddOnRequests \ {r} : request'[q] = request[q]
    BY <1>0, <1>1 DEF Prepared, RequestState
  <1>14. AddOnItems \subseteq AddOnItems' /\ (\A j \in AddOnItems : ~items[j] => ~items'[j])
        /\ AddOnRows \subseteq AddOnRows'
    BY <1>1, <1>8, <1>11
  <1>15. \A q \in AddOnRequests : request'[q] = request[q] \/ Prepared(q)'
    BY <1>13
  <1> QED  BY <1>9, <1>10, <1>12, <1>14, <1>15, AddOnStep

LEMMA EnvironmentKeeps ==
    ASSUME AddOnInv, SetAddOnActive \/ SubscriptionChanges \/ KeyForgotten
    PROVE  AddOnInv'
  <1>0. items \in Seq(BOOLEAN) /\ Len(items) \in Nat /\ DOMAIN items = 1..Len(items)
    BY DomainIsRange DEF AddOnInv, AddOnShape
  <1>1. UNCHANGED <<tenantAddOns, request>> /\ remembered' \in {remembered, NoItem}
    BY DEF SetAddOnActive, SubscriptionChanges, KeyForgotten
  <1>2. /\ items' \in Seq(BOOLEAN) /\ AddOnItems' = AddOnItems
        /\ \A j \in AddOnItems : ~items[j] => ~items'[j]
    <2>1. CASE UNCHANGED items
      BY <1>0, <2>1 DEF AddOnItems
    <2>2. CASE SubscriptionChanges
      <3> DEFINE gone == subscription' = "canceled"
                 left == [j \in 1..Len(items) |-> items[j] /\ ~gone]
      <3>1. items' = left
        BY <1>0, <2>2 DEF SubscriptionChanges
      <3>2. left \in [1..Len(items) -> BOOLEAN]
        OBVIOUS
      <3>3. left \in Seq(BOOLEAN)
        BY <1>0, <3>2, SeqDef
      <3>4. Len(left) = Len(items)
        BY <1>0, <3>2, <3>3, LenProperties
      <3> QED  BY <3>1, <3>3, <3>4 DEF AddOnItems
    <2> QED  BY <2>1, <2>2 DEF SetAddOnActive, KeyForgotten
  <1>3. AddOnShape'
    BY <1>1, <1>2 DEF AddOnInv, AddOnShape, AddOnRow
  <1> QED  BY <1>1, <1>2, <1>3, AddOnStep DEF AddOnRows, Unbilled

LEMMA AddOnInitInv == AddOnInit => AddOnInv
  <1> SUFFICES ASSUME AddOnInit PROVE AddOnInv
    OBVIOUS
  <1>1. items = <<>> /\ tenantAddOns = <<>> /\ remembered = NoItem
    BY DEF AddOnInit
  <1>2. items \in Seq(BOOLEAN) /\ tenantAddOns \in Seq(AddOnRow) /\ Len(tenantAddOns) = 0
    BY <1>1, EmptySeq
  <1>3. request \in [AddOnRequests -> RequestState]
        /\ \A r \in AddOnRequests : request[r].at = "new"
    BY DEF AddOnInit, NewRequest, RequestState
  <1>4. AddOnRows = {}
    BY <1>2 DEF AddOnRows
  <1> QED  BY <1>1, <1>2, <1>3, <1>4 DEF AddOnInv, AddOnShape, Prepared

LEMMA AddOnNextInv == AddOnInv /\ [AddOnNext]_addOnVars => AddOnInv'
  <1> SUFFICES ASSUME AddOnInv, [AddOnNext]_addOnVars PROVE AddOnInv'
    OBVIOUS
  <1>1. CASE UNCHANGED addOnVars
    BY <1>1 DEF AddOnInv, AddOnShape, RequestState, AddOnRow, Prepared, Unbilled, AddOnItems, AddOnRows, addOnVars
  <1>2. CASE \E r \in AddOnRequests :
                \/ CheckSubscription(r) \/ CheckAddOn(r) \/ CheckExisting(r)
                \/ CountSubscribers(r) \/ SoftArchiveAddOn(r) \/ AddOnRequestFails(r)
    BY <1>2, ControlKeeps
  <1>3. CASE \E r \in AddOnRequests :
                \/ AddItem(r) \/ InsertTenantAddOn(r) \/ ReadTenantAddOn(r)
                \/ ReadSubscription(r) \/ RemoveItem(r) \/ CancelTenantAddOn(r)
    BY <1>3, AddItemKeeps, InsertKeeps, ReadKeeps, RemoveItemKeeps, CancelKeeps
  <1> QED  BY <1>1, <1>2, <1>3, EnvironmentKeeps DEF AddOnNext

\* CancelledNotBilled: a cancelled row's item is off the subscription, unless Stripe was never
\* asked, for any number of overlapping activations, deactivations and archivings, with timeouts
\* and replayed answers anywhere in between.
THEOREM CancelledAddOnIsNotBilled == AddOnSpec => []CancelledNotBilled
  <1>1. AddOnInv => CancelledNotBilled
    <2> SUFFICES ASSUME AddOnInv PROVE CancelledNotBilled
      OBVIOUS
    <2>1. DOMAIN tenantAddOns = AddOnRows
      BY DomainIsRange DEF AddOnInv, AddOnShape, AddOnRows
    <2> QED  BY <2>1 DEF AddOnInv, Unbilled, CancelledNotBilled
  <1>2. AddOnSpec => AddOnInit /\ [][AddOnNext]_addOnVars
    BY PTL DEF AddOnSpec
  <1> QED  BY <1>1, <1>2, AddOnInitInv, AddOnNextInv, PTL

\* What a request holds, if anything, is an item or a row that is there; and there is a limit to items.
AddOnBounds ==
    /\ addOnActive \in BOOLEAN /\ archivedAt \in BOOLEAN
    /\ subscription \in {"active", "unpaid", "canceled"}
    /\ Len(items) <= MaxItems
    /\ \A r \in AddOnRequests : /\ request[r].item \in {0} \cup AddOnItems
                                /\ request[r].row \in {0} \cup AddOnRows

LEMMA SameDomainSameLength ==
    ASSUME NEW S, NEW T, NEW s \in Seq(S), NEW t \in Seq(T), DOMAIN s = DOMAIN t
    PROVE  Len(s) = Len(t)
  <1>1. /\ Len(s) \in Nat /\ Len(t) \in Nat
        /\ DOMAIN s = 1..Len(s) /\ DOMAIN t = 1..Len(t)
    BY DomainIsRange
  <1>2. ASSUME NEW m \in Nat, NEW n \in Nat, 1..m = 1..n
        PROVE  m <= n
    <2>1. CASE m = 0
      BY <2>1
    <2>2. CASE m # 0
      <3>1. m \in 1..m
        BY <2>2
      <3> QED  BY <1>2, <3>1
    <2> QED  BY <2>1, <2>2
  <1>3. Len(s) <= Len(t) /\ Len(t) <= Len(s)
    BY <1>1, <1>2
  <1>4. Len(s) \in Nat /\ Len(t) \in Nat
    BY <1>1
  <1> QED  BY <1>3, <1>4

\* Neither items nor rows ever go, and no item is made beyond the limit.
LEMMA AddOnsGrow ==
    ASSUME AddOnInv, AddOnInv', AddOnNext
    PROVE  /\ Len(items) \in Nat /\ Len(items') \in Nat /\ Len(items) <= Len(items')
           /\ Len(items) <= MaxItems => Len(items') <= MaxItems
           /\ AddOnItems \subseteq AddOnItems' /\ AddOnRows \subseteq AddOnRows'
  <1>0. /\ items \in Seq(BOOLEAN) /\ items' \in Seq(BOOLEAN)
        /\ tenantAddOns \in Seq(AddOnRow) /\ tenantAddOns' \in Seq(AddOnRow')
        /\ Len(items) \in Nat /\ Len(items') \in Nat /\ MaxItems \in Nat
        /\ Len(tenantAddOns) \in Nat /\ Len(tenantAddOns') \in Nat
    <2>1. /\ items \in Seq(BOOLEAN) /\ items' \in Seq(BOOLEAN)
          /\ tenantAddOns \in Seq(AddOnRow) /\ tenantAddOns' \in Seq(AddOnRow')
      BY DEF AddOnInv, AddOnShape
    <2> QED  BY <2>1, DomainIsRange, AddOnAssumption
  <1>1. \/ DOMAIN items' = DOMAIN items
        \/ Len(items) < MaxItems /\ items' = Append(items, TRUE)
    <2>1. ASSUME NEW r \in AddOnRequests, AddItem(r)
          PROVE  \/ items' = items
                 \/ Len(items) < MaxItems /\ items' = Append(items, TRUE)
      <3>1. CASE remembered # NoItem
        BY <2>1, <3>1 DEF AddItem
      <3>2. CASE remembered = NoItem
        BY <2>1, <3>2 DEF AddItem
      <3> QED  BY <3>1, <3>2
    <2>2. ASSUME NEW r \in AddOnRequests, RemoveItem(r)
          PROVE  DOMAIN items' = DOMAIN items
      BY <2>2 DEF RemoveItem
    <2>3. ASSUME SubscriptionChanges
          PROVE  DOMAIN items' = DOMAIN items
      BY <2>3 DEF SubscriptionChanges
    <2>4. ASSUME NEW r \in AddOnRequests,
                 \/ CheckSubscription(r) \/ CheckAddOn(r) \/ CheckExisting(r)
                 \/ InsertTenantAddOn(r) \/ ReadTenantAddOn(r) \/ ReadSubscription(r)
                 \/ CancelTenantAddOn(r) \/ CountSubscribers(r) \/ SoftArchiveAddOn(r)
                 \/ AddOnRequestFails(r)
          PROVE  items' = items
      BY <2>4 DEF CheckSubscription, CheckAddOn, CheckExisting, InsertTenantAddOn,
            ReadTenantAddOn, ReadSubscription, CancelTenantAddOn, CountSubscribers,
            SoftArchiveAddOn, AddOnRequestFails
    <2>5. ASSUME SetAddOnActive \/ KeyForgotten
          PROVE  items' = items
      BY <2>5 DEF SetAddOnActive, KeyForgotten
    <2> QED  BY <2>1, <2>2, <2>3, <2>4, <2>5 DEF AddOnNext
  <1>2. \/ DOMAIN tenantAddOns' = DOMAIN tenantAddOns
        \/ \E row \in AddOnRow : tenantAddOns' = Append(tenantAddOns, row)
    <2>1. ASSUME NEW r \in AddOnRequests, InsertTenantAddOn(r)
          PROVE  \/ tenantAddOns' = tenantAddOns
                 \/ \E row \in AddOnRow : tenantAddOns' = Append(tenantAddOns, row)
      <3>1. request[r].item \in AddOnItems
        BY <2>1 DEF InsertTenantAddOn, Goto, AddOnInv, Prepared
      <3>2. [item |-> request[r].item, status |-> "active", unasked |-> FALSE] \in AddOnRow
        BY <3>1 DEF AddOnRow
      <3> QED  BY <2>1, <3>2 DEF InsertTenantAddOn
    <2>2. ASSUME NEW r \in AddOnRequests, CancelTenantAddOn(r)
          PROVE  DOMAIN tenantAddOns' = DOMAIN tenantAddOns
      BY <2>2 DEF CancelTenantAddOn
    <2>3. ASSUME NEW r \in AddOnRequests,
                 \/ CheckSubscription(r) \/ CheckAddOn(r) \/ CheckExisting(r) \/ AddItem(r)
                 \/ ReadTenantAddOn(r) \/ ReadSubscription(r) \/ RemoveItem(r)
                 \/ CountSubscribers(r) \/ SoftArchiveAddOn(r) \/ AddOnRequestFails(r)
          PROVE  tenantAddOns' = tenantAddOns
      BY <2>3 DEF CheckSubscription, CheckAddOn, CheckExisting, AddItem, ReadTenantAddOn,
            ReadSubscription, RemoveItem, CountSubscribers, SoftArchiveAddOn, AddOnRequestFails
    <2>4. ASSUME SetAddOnActive \/ SubscriptionChanges \/ KeyForgotten
          PROVE  tenantAddOns' = tenantAddOns
      BY <2>4 DEF SetAddOnActive, SubscriptionChanges, KeyForgotten
    <2> QED  BY <2>1, <2>2, <2>3, <2>4 DEF AddOnNext
  <1>3. /\ Len(items) <= Len(items')
        /\ Len(items) <= MaxItems => Len(items') <= MaxItems
    <2>1. CASE DOMAIN items' = DOMAIN items
      BY <1>0, <2>1, SameDomainSameLength
    <2>2. CASE Len(items) < MaxItems /\ items' = Append(items, TRUE)
      <3>1. Len(Append(items, TRUE)) = Len(items) + 1
        BY <1>0, AppendProperties
      <3> QED  BY <1>0, <2>2, <3>1
    <2> QED  BY <1>1, <2>1, <2>2
  <1>4. Len(tenantAddOns) <= Len(tenantAddOns')
    <2>1. CASE DOMAIN tenantAddOns' = DOMAIN tenantAddOns
      <3>1. Len(tenantAddOns') = Len(tenantAddOns)
        BY <1>0, <2>1, SameDomainSameLength
      <3> QED  BY <1>0, <3>1
    <2>2. CASE \E row \in AddOnRow : tenantAddOns' = Append(tenantAddOns, row)
      <3>1. PICK row \in AddOnRow : tenantAddOns' = Append(tenantAddOns, row)
        BY <2>2
      <3>2. Len(Append(tenantAddOns, row)) = Len(tenantAddOns) + 1
        BY <1>0, AppendProperties
      <3> QED  BY <1>0, <3>1, <3>2
    <2> QED  BY <1>2, <2>1, <2>2
  <1> QED  BY <1>0, <1>3, <1>4 DEF AddOnItems, AddOnRows

LEMMA AddOnBoundsKept ==
    AddOnInv /\ AddOnInv' /\ AddOnBounds /\ [AddOnNext]_addOnVars => AddOnBounds'
  <1> SUFFICES ASSUME AddOnInv, AddOnInv', AddOnBounds, [AddOnNext]_addOnVars PROVE AddOnBounds'
    OBVIOUS
  <1>t. request \in [AddOnRequests -> RequestState] /\ DOMAIN tenantAddOns = AddOnRows
    BY DomainIsRange DEF AddOnInv, AddOnShape, AddOnRows
  <1>1. CASE UNCHANGED addOnVars
    BY <1>1 DEF addOnVars, AddOnBounds, AddOnItems, AddOnRows
  <1>2. CASE AddOnNext
    <2>1. /\ Len(items) <= MaxItems => Len(items') <= MaxItems
          /\ AddOnItems \subseteq AddOnItems' /\ AddOnRows \subseteq AddOnRows'
      BY <1>2, AddOnsGrow
    <2>2. /\ addOnActive' \in BOOLEAN /\ archivedAt' \in BOOLEAN
          /\ subscription' \in {"active", "unpaid", "canceled"}
      <3>1. ASSUME NEW r \in AddOnRequests,
                   \/ CheckSubscription(r) \/ CheckAddOn(r) \/ CheckExisting(r) \/ AddItem(r)
                   \/ InsertTenantAddOn(r) \/ ReadTenantAddOn(r) \/ ReadSubscription(r)
                   \/ RemoveItem(r) \/ CancelTenantAddOn(r) \/ CountSubscribers(r)
                   \/ AddOnRequestFails(r)
            PROVE  UNCHANGED <<addOnActive, archivedAt, subscription>>
        BY <3>1 DEF CheckSubscription, CheckAddOn, CheckExisting, AddItem, InsertTenantAddOn,
              ReadTenantAddOn, ReadSubscription, RemoveItem, CancelTenantAddOn, CountSubscribers,
              AddOnRequestFails
      <3>2. ASSUME NEW r \in AddOnRequests, SoftArchiveAddOn(r)
            PROVE  addOnActive' = FALSE /\ archivedAt' = TRUE /\ UNCHANGED subscription
        BY <3>2 DEF SoftArchiveAddOn
      <3>3. ASSUME SetAddOnActive \/ SubscriptionChanges \/ KeyForgotten
            PROVE  /\ addOnActive' \in {addOnActive, ~addOnActive} /\ UNCHANGED archivedAt
                   /\ subscription' \in {subscription, "active", "unpaid", "canceled"}
        BY <3>3 DEF SetAddOnActive, SubscriptionChanges, KeyForgotten
      <3> QED  BY <1>2, <3>1, <3>2, <3>3 DEF AddOnNext, AddOnBounds
    <2>3. ASSUME NEW r \in AddOnRequests
          PROVE  /\ request'[r].item \in {request[r].item} \cup AddOnItems'
                 /\ request'[r].row \in {request[r].row} \cup AddOnRows
      <3> DEFINE Holds == /\ request'[r].item \in {request[r].item} \cup AddOnItems'
                          /\ request'[r].row \in {request[r].row} \cup AddOnRows
      <3>1. ASSUME NEW q \in AddOnRequests,
                   \/ CheckSubscription(q) \/ CheckAddOn(q) \/ CheckExisting(q)
                   \/ InsertTenantAddOn(q) \/ ReadSubscription(q) \/ RemoveItem(q)
                   \/ CancelTenantAddOn(q) \/ CountSubscribers(q) \/ SoftArchiveAddOn(q)
                   \/ AddOnRequestFails(q)
            PROVE  Holds
        <4>1. \/ \E to : request' = [request EXCEPT ![q].at = to]
              \/ \E to, live : request' = [request EXCEPT ![q].at = to, ![q].live = live]
          <5>1. CASE ReadSubscription(q)
            BY <5>1 DEF ReadSubscription
          <5>2. CASE RemoveItem(q)
            BY <5>2 DEF RemoveItem, Goto
          <5>3. CASE ~ReadSubscription(q) /\ ~RemoveItem(q)
            BY <3>1, <5>3 DEF CheckSubscription, CheckAddOn, CheckExisting, InsertTenantAddOn,
                  CancelTenantAddOn, CountSubscribers, SoftArchiveAddOn, AddOnRequestFails, Goto
          <5> QED  BY <5>1, <5>2, <5>3
        <4>2. request[q] \in RequestState /\ request[r] \in RequestState
          BY <1>t
        <4>3. ASSUME NEW to, request' = [request EXCEPT ![q].at = to]
              PROVE  request'[r].item = request[r].item /\ request'[r].row = request[r].row
          BY <1>t, <4>2, <4>3 DEF RequestState
        <4>4. ASSUME NEW to, NEW live,
                     request' = [request EXCEPT ![q].at = to, ![q].live = live]
              PROVE  request'[r].item = request[r].item /\ request'[r].row = request[r].row
          BY <1>t, <4>2, <4>4 DEF RequestState
        <4> QED  BY <4>1, <4>3, <4>4
      <3>2. ASSUME NEW q \in AddOnRequests, AddItem(q) PROVE Holds
        <4>1. PICK inTime \in BOOLEAN, i \in {remembered, Len(items) + 1} :
                /\ request' = [request EXCEPT ![q].at = IF inTime THEN "insert" ELSE "done",
                                              ![q].item = i]
                /\ \/ i = remembered /\ i # NoItem /\ UNCHANGED remembered
                   \/ i = remembered'
          BY <3>2 DEF AddItem
        <4>2. i # NoItem /\ i = remembered'
          <5>1. CASE remembered # NoItem
            BY <3>2, <4>1, <5>1 DEF AddItem
          <5>2. CASE remembered = NoItem
            <6>1. Len(items) \in Nat
              BY DomainIsRange DEF AddOnInv, AddOnShape
            <6>2. remembered' = Len(items) + 1
              BY <3>2, <5>2 DEF AddItem
            <6> QED  BY <4>1, <5>2, <6>1, <6>2, AddOnAssumption
          <5> QED  BY <5>1, <5>2
        <4>3. i \in AddOnItems'
          BY <4>2 DEF AddOnInv, AddOnShape
        <4> QED  BY <1>t, <4>1, <4>3 DEF RequestState
      <3>3. ASSUME NEW q \in AddOnRequests, ReadTenantAddOn(q) PROVE Holds
        <4>1. PICK k \in AddOnRows :
                request' = [request EXCEPT ![q].row = k, ![q].item = tenantAddOns[k].item,
                      ![q].at = IF tenantAddOns[k].status = "active" THEN "subs" ELSE "done"]
          BY <1>t, <3>3 DEF ReadTenantAddOn
        <4>2. tenantAddOns[k].item \in AddOnItems'
          BY <2>1, RowsAreRows DEF AddOnInv
        <4> QED  BY <1>t, <4>1, <4>2 DEF RequestState
      <3>4. ASSUME SetAddOnActive \/ SubscriptionChanges \/ KeyForgotten PROVE Holds
        BY <3>4 DEF SetAddOnActive, SubscriptionChanges, KeyForgotten
      <3> HIDE DEF Holds
      <3>5. Holds
        BY <1>2, <3>1, <3>2, <3>3, <3>4 DEF AddOnNext
      <3> QED  BY <3>5 DEF Holds
    <2> QED  BY <2>1, <2>2, <2>3 DEF AddOnBounds
  <1> QED  BY <1>1, <1>2

LEMMA AddOnBoundsInit == AddOnInit => AddOnBounds
  <1> SUFFICES ASSUME AddOnInit PROVE AddOnBounds
    OBVIOUS
  <1>1. Len(items) = 0
    BY DEF AddOnInit
  <1>2. Len(items) <= MaxItems
    BY <1>1, AddOnAssumption
  <1>3. \A r \in AddOnRequests : request[r].item = 0 /\ request[r].row = 0
    BY DEF AddOnInit, NewRequest
  <1> QED  BY <1>2, <1>3 DEF AddOnInit, AddOnBounds

LEMMA AddOnTypes == AddOnInv /\ AddOnBounds => AddOnTypeOK
  <1> SUFFICES ASSUME AddOnInv, AddOnBounds PROVE AddOnTypeOK
    OBVIOUS
  <1>1. DOMAIN items = AddOnItems /\ DOMAIN tenantAddOns = AddOnRows
    BY DomainIsRange DEF AddOnInv, AddOnShape, AddOnItems, AddOnRows
  <1>2. request \in [AddOnRequests -> RequestState]
    BY DEF AddOnInv, AddOnShape
  <1>3. tenantAddOns \in Seq([item : DOMAIN items, status : {"active", "cancelled"},
                              unasked : BOOLEAN])
    BY <1>1 DEF AddOnInv, AddOnShape, AddOnRow
  <1>4. \A r \in AddOnRequests :
          request[r] \in [at : {"new", "check", "existing", "stripe", "insert", "subs",
                                "remove", "update", "archive", "done"},
                          item : {0} \cup DOMAIN items, row : {0} \cup DOMAIN tenantAddOns,
                          live : BOOLEAN]
    <2> SUFFICES ASSUME NEW r \in AddOnRequests
                 PROVE  request[r] \in [at : {"new", "check", "existing", "stripe", "insert",
                                  "subs", "remove", "update", "archive", "done"},
                          item : {0} \cup DOMAIN items, row : {0} \cup DOMAIN tenantAddOns,
                          live : BOOLEAN]
      OBVIOUS
    <2>1. request[r] \in RequestState
      BY <1>2
    <2>2. request[r].item \in {0} \cup DOMAIN items
          /\ request[r].row \in {0} \cup DOMAIN tenantAddOns
      BY <1>1 DEF AddOnBounds
    <2> QED  BY <2>1, <2>2 DEF RequestState
  <1>5. request = [r \in AddOnRequests |-> request[r]]
    BY <1>2
  <1> QED  BY <1>1, <1>3, <1>4, <1>5 DEF AddOnInv, AddOnShape, AddOnBounds, AddOnTypeOK

\* AddOnTypeOK: whatever a request, a row or the idempotency key names is there, and stays: neither
\* timeouts nor cancelled subscriptions leave a row without its item (addOnService.ts:189-309).
THEOREM AddOnsTypeCorrect == AddOnSpec => []AddOnTypeOK
  <1>1. AddOnSpec => AddOnInit /\ [][AddOnNext]_addOnVars
    BY PTL DEF AddOnSpec
  <1> QED  BY <1>1, AddOnInitInv, AddOnNextInv, AddOnBoundsInit, AddOnBoundsKept, AddOnTypes, PTL

-----------------------------------------------------------------------------
(* The catalogue: types.                                                   *)

StripePrice == [product : ProductIds, amount : Amounts]

\* A call on its way to its INSERT has an object to name.
InsertsHold == \A c \in Creations : creation[c].at = "insert" => creation[c].price # NoObject

CatalogueTypeInv == CatalogueTypeOK /\ InsertsHold

\* The sets a call's step keeps when Stripe makes nothing.
LEMMA IdsKept ==
    ASSUME UNCHANGED <<stripeProducts, stripePrices>>
    PROVE  ProductIds' = ProductIds /\ PriceIds' = PriceIds /\ CreationState' = CreationState
           /\ StripePrice' = StripePrice
  BY DEF ProductIds, PriceIds, CreationState, StripePrice

\* The sets that grow when Stripe makes a product.
LEMMA ProductsGrow ==
    ASSUME CatalogueTypeOK, stripeProducts' \in Nat, stripeProducts <= stripeProducts',
           stripePrices' = stripePrices
    PROVE  /\ ProductIds \subseteq ProductIds' /\ PriceIds' = PriceIds
           /\ CreationState \subseteq CreationState'
           /\ stripePrices \in Seq(StripePrice')
  <1>1. ProductIds \subseteq ProductIds'
    <2> stripeProducts \in Nat
      BY CatalogueAssumption DEF CatalogueTypeOK
    <2> QED  BY DEF ProductIds
  <1>2. PriceIds' = PriceIds
    BY DEF PriceIds
  <1>3. CreationState \subseteq CreationState'
    BY <1>1, <1>2 DEF CreationState
  <1>4. StripePrice \subseteq StripePrice'
    BY <1>1 DEF StripePrice
  <1>5. stripePrices \in Seq(StripePrice)
    BY DEF CatalogueTypeOK, StripePrice
  <1>6. stripePrices \in Seq(StripePrice')
    BY <1>4, <1>5
  <1> QED  BY <1>1, <1>2, <1>3, <1>6

\* Stripe makes a price: it is the last one, and the earlier ones are as they were.
LEMMA PricesGrow ==
    ASSUME NEW S, NEW s \in Seq(S), NEW e \in S
    PROVE  /\ Append(s, e) \in Seq(S) /\ Len(s) \in Nat
           /\ Len(Append(s, e)) = Len(s) + 1
           /\ Append(s, e)[Len(s) + 1] = e
           /\ \A i \in 1..Len(s) : Append(s, e)[i] = s[i]
  BY AppendProperties, LenProperties

\* A step of a call that writes no table and has Stripe make nothing.
LEMMA CatalogueCallMoves ==
    ASSUME CatalogueTypeInv, NEW c \in Creations, NEW x \in CreationState,
           UNCHANGED <<stripeProductId, stripeProducts, productAnswer, stripePrices, priceAnswer, catalogue>>,
           creation' = [creation EXCEPT ![c] = x], x.at = "insert" => x.price # NoObject
    PROVE  CatalogueTypeInv'
  <1>1. creation' \in [Creations -> CreationState']
    BY IdsKept DEF CatalogueTypeInv, CatalogueTypeOK
  <1>2. \A d \in Creations : creation'[d] = IF d = c THEN x ELSE creation[d]
    BY DEF CatalogueTypeInv, CatalogueTypeOK
  <1>3. InsertsHold'
    BY <1>2 DEF CatalogueTypeInv, InsertsHold
  <1>4. CatalogueTypeOK'
    BY <1>1, IdsKept DEF CatalogueTypeInv, CatalogueTypeOK
  <1> QED  BY <1>3, <1>4 DEF CatalogueTypeInv

LEMMA InitTyped == CatalogueInit => CatalogueTypeInv
  <1> SUFFICES ASSUME CatalogueInit PROVE CatalogueTypeInv
    OBVIOUS
  <1>1. NoObject \in ProductIds /\ NoObject \in PriceIds
    BY DEF ProductIds, PriceIds
  <1>2. creation \in [Creations -> CreationState]
    BY <1>1 DEF CatalogueInit, CreationState
  <1>3. stripePrices \in Seq(StripePrice) /\ Len(stripePrices) = 0
    BY DEF CatalogueInit
  <1>4. CatalogueTypeOK
    BY <1>1, <1>2, <1>3, CatalogueAssumption DEF CatalogueInit, CatalogueTypeOK, StripePrice
  <1>5. InsertsHold
    BY DEF CatalogueInit, InsertsHold
  <1> QED  BY <1>4, <1>5 DEF CatalogueTypeInv

LEMMA StepTyped == CatalogueTypeInv /\ [CatalogueNext]_catalogueVars => CatalogueTypeInv'
  <1> SUFFICES ASSUME CatalogueTypeInv, [CatalogueNext]_catalogueVars PROVE CatalogueTypeInv'
    OBVIOUS
  <1>t. /\ CatalogueTypeOK /\ InsertsHold
        /\ \A c \in Creations : creation[c] \in CreationState
        /\ stripeProductId \in ProductIds /\ productAnswer \in ProductIds
    BY DEF CatalogueTypeInv, CatalogueTypeOK
  <1>1. ASSUME NEW c \in Creations, FindRow(c) \/ FindDiscount(c) PROVE CatalogueTypeInv'
    <2>1. PICK a \in {"done", "price", "product"} : creation' = [creation EXCEPT ![c].at = a]
      BY <1>1 DEF FindRow, FindDiscount, Proceed
    <2> DEFINE x == [creation[c] EXCEPT !.at = a]
    <2>2. x \in CreationState /\ x.at # "insert"
      BY <1>t DEF CreationState
    <2>3. creation' = [creation EXCEPT ![c] = x]
      BY <2>1
    <2> HIDE DEF x
    <2> QED  BY <1>1, <2>2, <2>3, CatalogueCallMoves DEF FindRow, FindDiscount
  <1>2. ASSUME NEW c \in Creations, FindProduct(c) \/ FindAddOnProduct(c) PROVE CatalogueTypeInv'
    <2>1. PICK a \in {"price", "make", "done"} :
            creation' = [creation EXCEPT ![c].product = stripeProductId, ![c].at = a]
      BY <1>2 DEF FindProduct, FindAddOnProduct, ReadProduct
    <2> DEFINE x == [creation[c] EXCEPT !.product = stripeProductId, !.at = a]
    <2>2. x \in CreationState /\ x.at # "insert"
      BY <1>t DEF CreationState
    <2>3. creation' = [creation EXCEPT ![c] = x]
      BY <2>1
    <2> HIDE DEF x
    <2> QED  BY <1>2, <2>2, <2>3, CatalogueCallMoves DEF FindProduct, FindAddOnProduct, ReadProduct
  <1>3. ASSUME NEW c \in Creations, MakeProduct(c) PROVE CatalogueTypeInv'
    <2>1. /\ stripeProducts \in 0..MaxObjects /\ stripeProducts' \in 0..MaxObjects
          /\ stripeProducts <= stripeProducts' /\ stripeProducts' \in Nat
          /\ productAnswer # NoObject => UNCHANGED <<productAnswer, stripeProducts>>
          /\ productAnswer = NoObject => /\ stripeProducts' = stripeProducts + 1
                                         /\ productAnswer' = stripeProducts + 1
      BY <1>3, CatalogueAssumption DEF MakeProduct, CatalogueTypeInv, CatalogueTypeOK
    <2>2. UNCHANGED <<stripeProductId, stripePrices, priceAnswer, catalogue>>
      BY <1>3 DEF MakeProduct
    <2>3. /\ ProductIds \subseteq ProductIds' /\ PriceIds' = PriceIds
          /\ CreationState \subseteq CreationState' /\ stripePrices \in Seq(StripePrice')
      BY <2>1, <2>2, <1>t, ProductsGrow
    <2>4. productAnswer' \in ProductIds'
      BY <2>1, <2>3, <1>t, CatalogueAssumption DEF ProductIds
    <2>5. PICK a \in {"save", "done"} :
            creation' = [creation EXCEPT ![c].product = productAnswer', ![c].at = a]
      BY <1>3 DEF MakeProduct
    <2>6. [creation[c] EXCEPT !.product = productAnswer', !.at = a] \in CreationState'
      BY <2>3, <2>4, <1>t DEF CreationState
    <2>7. creation' \in [Creations -> CreationState']
      BY <2>3, <2>5, <2>6, <1>t DEF CatalogueTypeOK
    <2>8. InsertsHold'
      BY <2>5, <1>t DEF InsertsHold, CatalogueTypeOK
    <2>9. CatalogueTypeOK'
      BY <2>1, <2>2, <2>3, <2>4, <2>7, <1>t DEF CatalogueTypeOK, StripePrice
    <2> QED  BY <2>8, <2>9 DEF CatalogueTypeInv
  <1>4. ASSUME NEW c \in Creations, SaveProduct(c) PROVE CatalogueTypeInv'
    <2>1. UNCHANGED <<stripeProducts, productAnswer, stripePrices, priceAnswer, catalogue>>
           /\ stripeProductId' = creation[c].product
           /\ creation' = [creation EXCEPT ![c].at = "price"]
      BY <1>4 DEF SaveProduct, Proceed
    <2>2. creation[c].product \in ProductIds
           /\ [creation[c] EXCEPT !.at = "price"] \in CreationState
      BY <1>t DEF CreationState
    <2>3. creation' \in [Creations -> CreationState]
      BY <2>1, <2>2, <1>t DEF CatalogueTypeOK
    <2>4. InsertsHold'
      BY <2>1, <1>t DEF InsertsHold, CatalogueTypeOK
    <2>5. CatalogueTypeOK'
      BY <2>1, <2>2, <2>3, <1>t, IdsKept DEF CatalogueTypeOK
    <2> QED  BY <2>4, <2>5 DEF CatalogueTypeInv
  <1>5. ASSUME NEW c \in Creations, MakePrice(c) PROVE CatalogueTypeInv'
    <2>1. /\ stripePrices \in Seq(StripePrice) /\ Offer(c) \in StripePrice /\ Len(stripePrices) \in Nat
          /\ Slot(c) \in Slots
      BY <1>t, LenProperties DEF CatalogueTypeOK, Offer, StripePrice, CreationState, Amounts, Slots
    <2>2. UNCHANGED <<stripeProductId, stripeProducts, productAnswer, catalogue>>
           /\ ProductIds' = ProductIds /\ StripePrice' = StripePrice
      BY <1>5 DEF MakePrice, ProductIds, StripePrice
    <2>3. /\ stripePrices' \in Seq(StripePrice) /\ Len(stripePrices') \in Nat
          /\ Len(stripePrices) <= Len(stripePrices') /\ Len(stripePrices') <= MaxObjects
          /\ priceAnswer'[Slot(c)] \in PriceIds' \ {NoObject}
          /\ priceAnswer' \in [Slots -> PriceIds']
      <3>1. CASE priceAnswer[Slot(c)] # NoObject
        <4>1. UNCHANGED <<stripePrices, priceAnswer>>
          BY <1>5, <3>1 DEF MakePrice
        <4> QED  BY <4>1, <3>1, <2>1, <1>t DEF CatalogueTypeOK, PriceIds
      <3>2. CASE priceAnswer[Slot(c)] = NoObject
        <4>1. /\ Len(stripePrices) < MaxObjects
              /\ stripePrices' = Append(stripePrices, Offer(c))
              /\ priceAnswer' = [priceAnswer EXCEPT ![Slot(c)] = Len(stripePrices) + 1]
          BY <1>5, <3>2 DEF MakePrice
        <4>2. stripePrices' \in Seq(StripePrice) /\ Len(stripePrices') = Len(stripePrices) + 1
          BY <4>1, <2>1, PricesGrow
        <4>3. PriceIds \subseteq PriceIds' /\ Len(stripePrices) + 1 \in PriceIds' \ {NoObject}
          BY <4>2, <2>1, CatalogueAssumption DEF PriceIds
        <4> QED  BY <4>1, <4>2, <4>3, <2>1, <1>t, CatalogueAssumption DEF CatalogueTypeOK
      <3> QED  BY <3>1, <3>2
    <2>4. PriceIds \subseteq PriceIds' /\ CreationState \subseteq CreationState'
      <3>1. PriceIds \subseteq PriceIds'
        BY <2>1, <2>3 DEF PriceIds
      <3> QED  BY <3>1, <2>2 DEF CreationState
    <2>5. PICK a \in {"insert", "done"} :
            creation' = [creation EXCEPT ![c].price = priceAnswer'[Slot(c)], ![c].at = a]
      BY <1>5 DEF MakePrice
    <2>6. [creation[c] EXCEPT !.price = priceAnswer'[Slot(c)], !.at = a] \in CreationState'
      BY <2>3, <2>4, <1>t DEF CreationState
    <2>7. creation' \in [Creations -> CreationState']
      BY <2>4, <2>5, <2>6, <1>t DEF CatalogueTypeOK
    <2>8. InsertsHold'
      BY <2>3, <2>5, <1>t DEF InsertsHold, CatalogueTypeOK
    <2>9. CatalogueTypeOK'
      BY <2>2, <2>3, <2>4, <2>7, <1>t DEF CatalogueTypeOK, StripePrice
    <2> QED  BY <2>8, <2>9 DEF CatalogueTypeInv
  <1>6. ASSUME NEW c \in Creations, InsertRow(c) PROVE CatalogueTypeInv'
    <2> DEFINE new == [slot |-> Slot(c), amount |-> Wanted[c].amount, price |-> creation[c].price]
    <2>1. /\ UNCHANGED <<stripeProductId, stripeProducts, productAnswer, stripePrices, priceAnswer>>
          /\ creation' = [creation EXCEPT ![c].at = "done"] /\ creation[c].at = "insert"
          /\ catalogue' \subseteq catalogue \cup {new}
      BY <1>6 DEF InsertRow, Proceed
    <2>2. new \in [slot : Slots, amount : Amounts, price : PriceIds \ {NoObject}]
      BY <2>1, <1>t DEF InsertsHold, CreationState, Slots, Amounts
    <2>3. creation' \in [Creations -> CreationState]
      <3>1. [creation[c] EXCEPT !.at = "done"] \in CreationState
        BY <1>t DEF CreationState
      <3> QED  BY <2>1, <3>1, <1>t DEF CatalogueTypeOK
    <2>4. InsertsHold'
      BY <2>1, <1>t DEF InsertsHold, CatalogueTypeOK
    <2> HIDE DEF new
    <2>5. CatalogueTypeOK'
      BY <2>1, <2>2, <2>3, <1>t, IdsKept DEF CatalogueTypeOK
    <2> QED  BY <2>4, <2>5 DEF CatalogueTypeInv
  <1>7. ASSUME NEW c \in Creations, CreationFails(c) PROVE CatalogueTypeInv'
    <2> DEFINE x == [creation[c] EXCEPT !.at = "done"]
    <2>1. x \in CreationState /\ x.at # "insert"
      BY <1>t DEF CreationState
    <2>2. creation' = [creation EXCEPT ![c] = x]
      BY <1>7 DEF CreationFails
    <2> HIDE DEF x
    <2> QED  BY <1>7, <2>1, <2>2, CatalogueCallMoves DEF CreationFails
  <1>8. CASE KeysForgotten
    <2>1. UNCHANGED <<stripeProducts, stripePrices>>
      BY <1>8 DEF KeysForgotten
    <2>2. NoObject \in ProductIds /\ NoObject \in PriceIds
      BY DEF ProductIds, PriceIds
    <2> QED  BY <1>8, <1>t, <2>1, <2>2, IdsKept
             DEF KeysForgotten, CatalogueTypeInv, CatalogueTypeOK, InsertsHold
  <1>9. CASE UNCHANGED catalogueVars
    BY <1>9, <1>t, IdsKept DEF catalogueVars, CatalogueTypeInv, CatalogueTypeOK, InsertsHold
  <1> QED  BY <1>1, <1>2, <1>3, <1>4, <1>5, <1>6, <1>7, <1>8, <1>9 DEF CatalogueNext

-----------------------------------------------------------------------------
(* One Stripe product, and rows at their own prices.                       *)

NeedsProduct(c) == Wanted[c].kind # "discount"

\* While the column is not written, no call is past making the product; the product made and not
\* yet saved is the one Stripe remembers, which is the one in the column if that is written.
OneProduct ==
    /\ stripeProductId # NoObject /\ productAnswer # NoObject => productAnswer = stripeProductId
    /\ \A c \in Creations :
        /\ creation[c].at = "new" => creation[c].product = NoObject
        /\ creation[c].at \in {"product", "make", "save"} => NeedsProduct(c)
        /\ creation[c].at = "make" /\ stripeProductId # NoObject => productAnswer # NoObject
        /\ creation[c].at = "save" => /\ creation[c].product # NoObject
                                      /\ creation[c].product = productAnswer
        /\ creation[c].at \in {"price", "insert"} =>
            IF NeedsProduct(c)
            THEN creation[c].product = stripeProductId /\ stripeProductId # NoObject
            ELSE creation[c].product = NoObject

\* The price a call is about to record is the one it asked for.
AskedPrice ==
    \A c \in Creations :
        creation[c].at = "insert" => stripePrices[creation[c].price] = Offer(c)

\* Whoever sells under a product finds it in the column.
RowsHaveProduct ==
    \A row \in catalogue : row.slot[1] # "discount" => stripeProductId # NoObject

CatalogueInv == CatalogueTypeInv /\ OneProduct /\ AskedPrice /\ RowsHaveProduct /\ CatalogueMatchesStripe

LEMMA InitInv == CatalogueInit => CatalogueInv
  <1> SUFFICES ASSUME CatalogueInit PROVE CatalogueInv
    OBVIOUS
  <1>1. CatalogueTypeInv
    BY InitTyped
  <1>2. OneProduct /\ AskedPrice /\ RowsHaveProduct /\ CatalogueMatchesStripe
    BY DEF CatalogueInit, OneProduct, AskedPrice, RowsHaveProduct, CatalogueMatchesStripe
  <1> QED  BY <1>1, <1>2 DEF CatalogueInv

\* What no price that is there loses: rows and calls that name it go on saying the truth.
LEMMA PricesStay ==
    ASSUME CatalogueInv, stripeProductId' = stripeProductId,
           \A i \in 1..Len(stripePrices) : stripePrices'[i] = stripePrices[i],
           catalogue' = catalogue
    PROVE  CatalogueMatchesStripe' /\ RowsHaveProduct'
  <1>1. \A row \in catalogue : row.price \in 1..Len(stripePrices)
    BY DEF CatalogueInv, CatalogueTypeInv, CatalogueTypeOK, PriceIds
  <1> QED  BY <1>1 DEF CatalogueInv, CatalogueMatchesStripe, RowsHaveProduct

LEMMA StepInv == CatalogueInv /\ [CatalogueNext]_catalogueVars => CatalogueInv'
  <1> SUFFICES ASSUME CatalogueInv, [CatalogueNext]_catalogueVars PROVE CatalogueInv'
    OBVIOUS
  <1>t. CatalogueTypeInv'
    BY StepTyped DEF CatalogueInv
  <1>i. /\ OneProduct /\ AskedPrice /\ RowsHaveProduct /\ CatalogueMatchesStripe
        /\ InsertsHold /\ CatalogueTypeOK
        /\ creation \in [Creations -> CreationState]
        /\ \A c \in Creations : creation[c].price \in PriceIds
    BY DEF CatalogueInv, CatalogueTypeInv, CatalogueTypeOK, CreationState
  <1>1. ASSUME NEW c \in Creations, FindRow(c) \/ FindDiscount(c) PROVE CatalogueInv'
    <2>1. UNCHANGED <<stripeProductId, stripeProducts, productAnswer, stripePrices, priceAnswer, catalogue>>
      BY <1>1 DEF FindRow, FindDiscount
    <2>2. PICK a \in {"done", "price", "product"} :
            /\ creation' = [creation EXCEPT ![c].at = a] /\ creation[c].at = "new"
            /\ a = "price" => ~NeedsProduct(c)
            /\ a = "product" => NeedsProduct(c)
      BY <1>1 DEF FindRow, FindDiscount, Proceed, NeedsProduct
    <2>3. OneProduct'
      BY <2>1, <2>2, <1>i DEF OneProduct, NeedsProduct
    <2>4. AskedPrice'
      BY <2>1, <2>2, <1>i DEF AskedPrice, Offer
    <2> QED  BY <1>t, <1>i, <2>1, <2>3, <2>4, PricesStay DEF CatalogueInv
  <1>2. ASSUME NEW c \in Creations, FindProduct(c) \/ FindAddOnProduct(c) PROVE CatalogueInv'
    <2>1. UNCHANGED <<stripeProductId, stripeProducts, productAnswer, stripePrices, priceAnswer, catalogue>>
      BY <1>2 DEF FindProduct, FindAddOnProduct, ReadProduct
    <2>2. PICK a \in {"price", "make", "done"} :
            /\ creation' = [creation EXCEPT ![c].product = stripeProductId, ![c].at = a]
            /\ creation[c].at = "product"
            /\ a = "price" => stripeProductId # NoObject
            /\ a = "make" => stripeProductId = NoObject
      BY <1>2 DEF FindProduct, FindAddOnProduct, ReadProduct
    <2>3. OneProduct'
      BY <2>1, <2>2, <1>i DEF OneProduct, NeedsProduct
    <2>4. AskedPrice'
      BY <2>1, <2>2, <1>i DEF AskedPrice, Offer
    <2> QED  BY <1>t, <1>i, <2>1, <2>3, <2>4, PricesStay DEF CatalogueInv
  <1>3. ASSUME NEW c \in Creations, MakeProduct(c) PROVE CatalogueInv'
    <2>1. UNCHANGED <<stripeProductId, stripePrices, priceAnswer, catalogue>>
      BY <1>3 DEF MakeProduct
    <2>2. /\ productAnswer' # NoObject
          /\ productAnswer # NoObject => productAnswer' = productAnswer
      BY <1>3, <1>i, CatalogueAssumption DEF MakeProduct, CatalogueTypeOK
    <2>3. PICK a \in {"save", "done"} :
            /\ creation' = [creation EXCEPT ![c].product = productAnswer', ![c].at = a]
            /\ creation[c].at = "make"
      BY <1>3 DEF MakeProduct
    <2>4. productAnswer = NoObject => stripeProductId = NoObject
      BY <2>3, <1>i DEF OneProduct
    <2>5. OneProduct'
      BY <2>1, <2>2, <2>3, <2>4, <1>i DEF OneProduct, NeedsProduct
    <2>6. AskedPrice'
      BY <2>1, <2>3, <1>i DEF AskedPrice, Offer
    <2> QED  BY <1>t, <1>i, <2>1, <2>5, <2>6, PricesStay DEF CatalogueInv
  <1>4. ASSUME NEW c \in Creations, SaveProduct(c) PROVE CatalogueInv'
    <2>1. /\ UNCHANGED <<productAnswer, stripePrices, catalogue>>
          /\ stripeProductId' = creation[c].product
          /\ creation' = [creation EXCEPT ![c].at = "price"] /\ creation[c].at = "save"
      BY <1>4 DEF SaveProduct, Proceed
    <2>2. /\ stripeProductId' = productAnswer /\ stripeProductId' # NoObject
          /\ stripeProductId # NoObject => stripeProductId' = stripeProductId
      BY <2>1, <1>i DEF OneProduct
    <2>3. OneProduct'
      BY <2>1, <2>2, <1>i DEF OneProduct, NeedsProduct
    <2>4. AskedPrice'
      BY <2>1, <1>i DEF AskedPrice, Offer
    <2>5. CatalogueMatchesStripe' /\ RowsHaveProduct'
      BY <2>1, <2>2, <1>i DEF CatalogueMatchesStripe, RowsHaveProduct
    <2> QED  BY <1>t, <2>3, <2>4, <2>5 DEF CatalogueInv
  <1>5. ASSUME NEW c \in Creations, MakePrice(c) PROVE CatalogueInv'
    <2>1. UNCHANGED <<stripeProductId, stripeProducts, productAnswer, catalogue>>
      BY <1>5 DEF MakePrice
    <2>2. \A i \in 1..Len(stripePrices) : stripePrices'[i] = stripePrices[i]
      <3>1. CASE priceAnswer[Slot(c)] # NoObject
        BY <1>5, <3>1 DEF MakePrice
      <3>2. CASE priceAnswer[Slot(c)] = NoObject
        <4>1. stripePrices' = Append(stripePrices, Offer(c))
          BY <1>5, <3>2 DEF MakePrice
        <4>2. stripePrices \in Seq(StripePrice) /\ Offer(c) \in StripePrice
          BY <1>i DEF CatalogueTypeOK, CreationState, Offer, StripePrice, Amounts
        <4> QED  BY <4>1, <4>2, PricesGrow
      <3> QED  BY <3>1, <3>2
    <2>3. PICK a \in {"insert", "done"} :
            /\ creation' = [creation EXCEPT ![c].price = priceAnswer'[Slot(c)], ![c].at = a]
            /\ creation[c].at = "price"
            /\ a = "insert" => stripePrices'[priceAnswer'[Slot(c)]] = Offer(c)
      BY <1>5 DEF MakePrice
    <2>4. OneProduct'
      BY <2>1, <2>3, <1>i DEF OneProduct, NeedsProduct
    <2>5. AskedPrice'
      <3> SUFFICES ASSUME NEW d \in Creations, creation'[d].at = "insert"
                   PROVE  stripePrices'[creation'[d].price] = Offer(d)'
        BY DEF AskedPrice
      <3>1. Offer(d)' = Offer(d)
        BY <2>3, <1>i DEF Offer, CreationState
      <3>2. CASE d = c
        BY <2>3, <3>1, <3>2, <1>i
      <3>3. CASE d # c
        <4>1. creation'[d] = creation[d]
          BY <2>3, <3>3, <1>i
        <4>2. creation[d].price \in 1..Len(stripePrices)
          BY <4>1, <1>i DEF InsertsHold, PriceIds
        <4> QED  BY <2>2, <3>1, <4>1, <4>2, <1>i DEF AskedPrice
      <3> QED  BY <3>2, <3>3
    <2> QED  BY <1>t, <1>i, <2>1, <2>2, <2>4, <2>5, PricesStay DEF CatalogueInv
  <1>6. ASSUME NEW c \in Creations, InsertRow(c) PROVE CatalogueInv'
    <2> DEFINE new == [slot |-> Slot(c), amount |-> Wanted[c].amount, price |-> creation[c].price]
    <2>1. /\ UNCHANGED <<stripeProductId, stripeProducts, productAnswer, stripePrices, priceAnswer>>
          /\ creation' = [creation EXCEPT ![c].at = "done"] /\ creation[c].at = "insert"
          /\ catalogue' \subseteq catalogue \cup {new}
      BY <1>6 DEF InsertRow, Proceed
    <2>2. OneProduct'
      BY <2>1, <1>i DEF OneProduct, NeedsProduct
    <2>3. AskedPrice'
      BY <2>1, <1>i DEF AskedPrice, Offer
    <2>4. stripePrices[new.price] = [product |-> IF new.slot[1] = "discount" THEN NoObject
                                                ELSE stripeProductId, amount |-> new.amount]
          /\ (new.slot[1] # "discount" => stripeProductId # NoObject)
      BY <2>1, <1>i DEF AskedPrice, OneProduct, Offer, Slot, NeedsProduct
    <2> HIDE DEF new
    <2>5. CatalogueMatchesStripe' /\ RowsHaveProduct'
      BY <2>1, <2>4, <1>i DEF CatalogueMatchesStripe, RowsHaveProduct
    <2> QED  BY <1>t, <2>2, <2>3, <2>5 DEF CatalogueInv
  <1>7. ASSUME NEW c \in Creations, CreationFails(c) PROVE CatalogueInv'
    <2>1. /\ UNCHANGED <<stripeProductId, stripeProducts, productAnswer, stripePrices, priceAnswer, catalogue>>
          /\ creation' = [creation EXCEPT ![c].at = "done"]
      BY <1>7 DEF CreationFails
    <2>2. OneProduct'
      BY <2>1, <1>i DEF OneProduct, NeedsProduct
    <2>3. AskedPrice'
      BY <2>1, <1>i DEF AskedPrice, Offer
    <2> QED  BY <1>t, <1>i, <2>1, <2>2, <2>3, PricesStay DEF CatalogueInv
  <1>8. CASE KeysForgotten
    <2>1. UNCHANGED <<stripeProductId, stripePrices, catalogue, creation>> /\ productAnswer' = NoObject
          /\ \A c \in Creations : creation[c].at \in {"new", "done"}
      BY <1>8 DEF KeysForgotten
    <2>2. OneProduct' /\ AskedPrice'
      BY <2>1, <1>i DEF OneProduct, AskedPrice, NeedsProduct
    <2> QED  BY <1>t, <1>i, <2>1, <2>2, PricesStay DEF CatalogueInv
  <1>9. CASE UNCHANGED catalogueVars
    BY <1>9, <1>t, <1>i DEF catalogueVars, CatalogueInv, OneProduct, NeedsProduct, AskedPrice, Offer,
                            RowsHaveProduct, CatalogueMatchesStripe
  <1> QED  BY <1>1, <1>2, <1>3, <1>4, <1>5, <1>6, <1>7, <1>8, <1>9 DEF CatalogueNext

\* CatalogueMatchesStripe: whatever creations race, time out, fail half-way or are answered again,
\* what a product sells is sold under its one Stripe product and at the recorded price
\* (planCatalogService.ts:119-212, addOnService.ts:95-160, discountService.ts:59-125).
THEOREM CatalogueIsOneProduct == CatalogueSpec => []CatalogueMatchesStripe
  <1>1. CatalogueInv => CatalogueMatchesStripe
    BY DEF CatalogueInv
  <1> QED  BY InitInv, StepInv, <1>1, PTL DEF CatalogueSpec

\* CatalogueTypeOK: prices name products that exist, and a call on its way to its INSERT has an object.
THEOREM CatalogueTypeCorrect == CatalogueSpec => []CatalogueTypeOK
  <1>1. CatalogueInv => CatalogueTypeOK
    BY DEF CatalogueInv, CatalogueTypeInv
  <1> QED  BY InitInv, StepInv, <1>1, PTL DEF CatalogueSpec

-----------------------------------------------------------------------------
(* Price overrides.                                                        *)

\* Every transaction has begun at a moment of its own.
BeganApart ==
    /\ \A s \in Settings : setting[s].began <= moment
    /\ \A s \in Settings : setting[s].at # "new" => setting[s].began > 0
    /\ \A s, t \in Settings :
        s # t /\ setting[s].at # "new" /\ setting[t].at # "new" => setting[s].began # setting[t].began

\* A committed row starts when its transaction began.
RowsOfSettings == \A r \in Rows : setting[r].at = "done" /\ overrides[r].from = setting[r].began

\* A row about to be closed is an older one.
ClosesOlder ==
    \A s \in Settings : \A r \in setting[s].closes :
        setting[s].at # "done" /\ r \in Rows /\ overrides[r].from < setting[s].began

\* A row is closed by a later one.
ClosedByLater ==
    \A r \in Rows : overrides[r].to # NoEnd => \E q \in Rows : overrides[q].from > overrides[r].from

OverridesInv == OverridesTypeOK /\ BeganApart /\ RowsOfSettings /\ ClosesOlder /\ ClosedByLater

\* What a well-typed setting and row are.
LEMMA OverrideTypes ==
    ASSUME OverridesTypeOK, NEW r \in Settings
    PROVE  /\ setting[r].began \in Nat /\ setting[r].closes \subseteq Settings
           /\ overrides[r].from \in Nat /\ moment \in Nat
  BY DEF OverridesTypeOK, SettingState

\* A step in which nothing begins.
LEMMA BeganApartKept ==
    ASSUME BeganApart, moment' = moment,
           \A s \in Settings : setting'[s].began = setting[s].began
                              /\ (setting'[s].at # "new" => setting[s].at # "new")
    PROVE  BeganApart'
  BY DEF BeganApart

LEMMA OverridesInitInv == OverridesInit => OverridesInv
  BY DEF OverridesInit, OverridesInv, OverridesTypeOK, SettingState, BeganApart, RowsOfSettings,
         ClosesOlder, ClosedByLater, Rows, NoRow

LEMMA OverridesStepInv == OverridesInv /\ [OverridesNext]_overrideVars => OverridesInv'
  <1> SUFFICES ASSUME OverridesInv, [OverridesNext]_overrideVars PROVE OverridesInv'
    OBVIOUS
  <1> USE DEF OverridesInv
  <1>1. ASSUME NEW s \in Settings, BeginSetting(s) PROVE OverridesInv'
    <2>1. /\ setting[s].at = "new" /\ moment' = moment + 1 /\ overrides' = overrides
          /\ setting' = [setting EXCEPT ![s].at = "begun", ![s].began = moment + 1]
          /\ Rows' = Rows
      BY <1>1 DEF BeginSetting, Rows
    <2>2. OverridesTypeOK'
      <3>1. moment \in Nat /\ moment + 1 \in Nat /\ setting[s] \in SettingState
        BY DEF OverridesTypeOK
      <3>2. [setting[s] EXCEPT !.at = "begun", !.began = moment + 1] \in SettingState
        BY <3>1 DEF SettingState
      <3>3. setting' = [setting EXCEPT ![s] = [setting[s] EXCEPT !.at = "begun", !.began = moment + 1]]
        BY <2>1 DEF OverridesTypeOK
      <3>4. setting' \in [Settings -> SettingState]
        BY <3>2, <3>3 DEF OverridesTypeOK
      <3> QED  BY <2>1, <3>1, <3>4 DEF OverridesTypeOK
    <2>3. /\ \A t \in Settings \ {s} : setting'[t] = setting[t]
          /\ setting'[s].at = "begun" /\ setting'[s].began = moment + 1
          /\ setting'[s].closes = setting[s].closes
      BY <2>1 DEF OverridesTypeOK, SettingState
    <2>4. BeganApart'
      <3>1. \A t \in Settings : setting[t].began \in Nat /\ setting[t].began <= moment /\ moment \in Nat
        BY OverrideTypes DEF BeganApart
      <3>2. ASSUME NEW t \in Settings
            PROVE  setting'[t].began <= moment' /\ (setting'[t].at # "new" => setting'[t].began > 0)
        <4>1. CASE t = s
          BY <2>1, <2>3, <3>1, <4>1
        <4>2. CASE t # s
          <5>1. setting'[t] = setting[t] /\ setting[t].began \in Nat /\ setting[t].began <= moment /\ moment \in Nat
            BY <2>3, <3>1, <4>2
          <5>2. setting[t].at # "new" => setting[t].began > 0
            BY DEF BeganApart
          <5> QED  BY <2>1, <5>1, <5>2
        <4> QED  BY <4>1, <4>2
      <3>4. ASSUME NEW t \in Settings, NEW q \in Settings, t # q,
                   setting'[t].at # "new", setting'[q].at # "new"
            PROVE  setting'[t].began # setting'[q].began
        BY <2>3, <3>1, <3>4 DEF BeganApart
      <3> QED  BY <3>2, <3>4 DEF BeganApart
    <2>5. RowsOfSettings'
      <3> SUFFICES ASSUME NEW r \in Rows
                   PROVE  setting'[r].at = "done" /\ overrides[r].from = setting'[r].began
        BY <2>1 DEF RowsOfSettings
      <3>1. r \in Settings /\ r # s
        BY <2>1 DEF Rows, RowsOfSettings
      <3> QED  BY <2>3, <3>1 DEF RowsOfSettings
    <2>6. ClosesOlder'
      <3> SUFFICES ASSUME NEW t \in Settings, NEW r \in setting'[t].closes
                   PROVE  setting'[t].at # "done" /\ r \in Rows /\ overrides[r].from < setting'[t].began
        BY <2>1 DEF ClosesOlder
      <3>1. /\ r \in setting[t].closes /\ r \in Rows /\ r \in Settings
            /\ overrides[r].from < setting[t].began /\ setting[t].at # "done"
        BY <2>3 DEF ClosesOlder, Rows
      <3>2. setting[t].began <= moment /\ setting[t].began \in Nat /\ moment \in Nat /\ overrides[r].from \in Nat
        BY <3>1, OverrideTypes DEF BeganApart
      <3> QED  BY <2>3, <3>1, <3>2
    <2>7. ClosedByLater'
      BY <2>1 DEF ClosedByLater
    <2> QED  BY <2>2, <2>4, <2>5, <2>6, <2>7
  <1>2. ASSUME NEW s \in Settings, SelectOverrides(s) PROVE OverridesInv'
    <2>1. /\ UNCHANGED <<moment, overrides>> /\ setting[s].at = "begun" /\ Rows' = Rows
          /\ setting' = [setting EXCEPT ![s].at = "updating", ![s].sees = ToClose(s)]
          /\ ToClose(s) \subseteq Settings
      BY <1>2 DEF SelectOverrides, Rows, ToClose
    <2>2. OverridesTypeOK'
      <3>1. setting[s] \in SettingState
        BY DEF OverridesTypeOK
      <3>2. [setting[s] EXCEPT !.at = "updating", !.sees = ToClose(s)] \in SettingState
        BY <2>1, <3>1 DEF SettingState
      <3>3. setting' = [setting EXCEPT ![s] = [setting[s] EXCEPT !.at = "updating", !.sees = ToClose(s)]]
        BY <2>1 DEF OverridesTypeOK
      <3> QED  BY <2>1, <3>2, <3>3 DEF OverridesTypeOK
    <2>3. /\ \A t \in Settings : setting'[t].began = setting[t].began /\ setting'[t].closes = setting[t].closes
          /\ \A t \in Settings \ {s} : setting'[t].at = setting[t].at
          /\ setting'[s].at = "updating"
      BY <2>1 DEF OverridesTypeOK, SettingState
    <2>4. BeganApart'
      BY <2>1, <2>3, BeganApartKept
    <2>5. RowsOfSettings'
      BY <2>1, <2>3 DEF RowsOfSettings, Rows
    <2>6. ClosesOlder'
      BY <2>1, <2>3 DEF ClosesOlder
    <2>7. ClosedByLater'
      BY <2>1 DEF ClosedByLater
    <2> QED  BY <2>2, <2>4, <2>5, <2>6, <2>7
  <1>3. ASSUME NEW s \in Settings, CloseOverrides(s) PROVE OverridesInv'
    <2>1. /\ UNCHANGED <<moment, overrides>> /\ setting[s].at = "updating" /\ Rows' = Rows
          /\ setting' = [setting EXCEPT ![s].at = "closed", ![s].closes = setting[s].sees \cap ToClose(s)]
      BY <1>3 DEF CloseOverrides, Rows
    <2>2. OverridesTypeOK'
      <3>1. setting[s] \in SettingState
        BY DEF OverridesTypeOK
      <3>2. [setting[s] EXCEPT !.at = "closed", !.closes = setting[s].sees \cap ToClose(s)] \in SettingState
        BY <2>1, <3>1 DEF SettingState
      <3>3. setting' = [setting EXCEPT ![s] = [setting[s] EXCEPT !.at = "closed", !.closes = setting[s].sees \cap ToClose(s)]]
        BY <2>1 DEF OverridesTypeOK
      <3> QED  BY <2>1, <3>2, <3>3 DEF OverridesTypeOK
    <2>3. /\ \A t \in Settings : setting'[t].began = setting[t].began
          /\ \A t \in Settings \ {s} : setting'[t] = setting[t]
          /\ setting'[s].at = "closed" /\ setting'[s].closes \subseteq ToClose(s)
      BY <2>1 DEF OverridesTypeOK, SettingState
    <2>4. \A r \in ToClose(s) : r \in Rows /\ overrides[r].from < setting[s].began
      <3> TAKE r \in ToClose(s)
      <3>1. r \in Rows /\ r \in Settings /\ overrides[r].from <= setting[s].began
        BY DEF ToClose, Rows
      <3>2. setting[r].at = "done" /\ overrides[r].from = setting[r].began /\ r # s
        BY <2>1, <3>1 DEF RowsOfSettings
      <3>3. setting[r].began # setting[s].began
        BY <2>1, <3>1, <3>2 DEF BeganApart
      <3>4. setting[s].began \in Nat /\ setting[r].began \in Nat
        BY <3>1, OverrideTypes
      <3> QED  BY <3>1, <3>2, <3>3, <3>4
    <2>5. BeganApart' /\ RowsOfSettings' /\ ClosedByLater'
      <3>1. BeganApart'
        BY <2>1, <2>3, BeganApartKept
      <3>2. RowsOfSettings'
        BY <2>1, <2>3 DEF RowsOfSettings, Rows
      <3> QED  BY <2>1, <3>1, <3>2 DEF ClosedByLater
    <2>6. ClosesOlder'
      BY <2>1, <2>3, <2>4 DEF ClosesOlder
    <2> QED  BY <2>2, <2>5, <2>6
  <1>4. ASSUME NEW s \in Settings, CommitOverride(s) PROVE OverridesInv'
    <2>1. /\ setting[s].at = "closed" /\ moment' = moment
          /\ setting' = [setting EXCEPT ![s].at = "done", ![s].closes = {}]
          /\ \A r \in Settings : overrides'[r] =
                IF r = s THEN [from |-> setting[s].began, to |-> NoEnd]
                ELSE IF r \in setting[s].closes THEN [overrides[r] EXCEPT !.to = setting[s].began]
                ELSE overrides[r]
      BY <1>4 DEF CommitOverride
    <2>2. setting[s].began \in Nat /\ setting[s].began > 0 /\ s \notin Rows
      BY <2>1, OverrideTypes DEF BeganApart, RowsOfSettings
    <2>3. OverridesTypeOK'
      <3>1. overrides' \in [Settings -> [from : Nat, to : Nat \cup {NoEnd}]]
        BY <1>4, <2>2 DEF CommitOverride, OverridesTypeOK
      <3>2. setting[s] \in SettingState
        BY DEF OverridesTypeOK
      <3>3. [setting[s] EXCEPT !.at = "done", !.closes = {}] \in SettingState
        BY <3>2 DEF SettingState
      <3>4. setting' = [setting EXCEPT ![s] = [setting[s] EXCEPT !.at = "done", !.closes = {}]]
        BY <2>1 DEF OverridesTypeOK
      <3> QED  BY <2>1, <3>1, <3>3, <3>4 DEF OverridesTypeOK
    <2>4. /\ \A t \in Settings : setting'[t].began = setting[t].began
          /\ \A t \in Settings \ {s} : setting'[t] = setting[t]
          /\ setting'[s].at = "done" /\ setting'[s].closes = {}
      BY <2>1 DEF OverridesTypeOK, SettingState
    <2>5. /\ \A r \in Settings \ {s} : overrides'[r].from = overrides[r].from
          /\ overrides'[s].from = setting[s].began /\ overrides'[s].to = NoEnd
      <3>1. overrides'[s] = [from |-> setting[s].began, to |-> NoEnd]
        BY <2>1
      <3>2. ASSUME NEW r \in Settings \ {s} PROVE overrides'[r].from = overrides[r].from
        <4>1. overrides'[r] = overrides[r] \/ overrides'[r] = [overrides[r] EXCEPT !.to = setting[s].began]
          BY <2>1
        <4>2. overrides[r] \in [from : Nat, to : Nat \cup {NoEnd}]
          BY DEF OverridesTypeOK
        <4> QED  BY <4>1, <4>2
      <3> QED  BY <3>1, <3>2
    <2>6. Rows' = Rows \cup {s}
      BY <2>2, <2>5 DEF Rows
    <2>7. BeganApart'
      BY <2>1, <2>4, BeganApartKept
    <2>8. RowsOfSettings'
      BY <2>4, <2>5, <2>6 DEF RowsOfSettings, Rows
    <2>9. ClosesOlder'
      BY <2>2, <2>4, <2>5, <2>6 DEF ClosesOlder, Rows
    <2>10. ClosedByLater'
      <3> SUFFICES ASSUME NEW r \in Rows', overrides'[r].to # NoEnd
                   PROVE  \E q \in Rows' : overrides'[q].from > overrides'[r].from
        BY DEF ClosedByLater
      <3>1. r \in Rows /\ r # s /\ r \in Settings
        BY <2>5, <2>6 DEF Rows
      <3>2. CASE r \in setting[s].closes
        <4>1. overrides[r].from < setting[s].began /\ overrides[r].from \in Nat
          BY <3>1, <3>2, OverrideTypes DEF ClosesOlder
        <4> QED  BY <2>2, <2>5, <2>6, <3>1, <4>1
      <3>3. CASE r \notin setting[s].closes
        <4>1. overrides'[r] = overrides[r]
          BY <2>1, <3>1, <3>3
        <4>2. PICK q \in Rows : overrides[q].from > overrides[r].from
          BY <3>1, <4>1 DEF ClosedByLater
        <4> QED  BY <2>2, <2>5, <2>6, <3>1, <4>1, <4>2 DEF Rows
      <3> QED  BY <3>2, <3>3
    <2> QED  BY <2>3, <2>7, <2>8, <2>9, <2>10
  <1>5. ASSUME NEW s \in Settings, SettingFails(s) PROVE OverridesInv'
    <2>1. /\ UNCHANGED <<moment, overrides>> /\ setting[s].at \in {"begun", "updating", "closed"} /\ Rows' = Rows
          /\ setting' = [setting EXCEPT ![s].at = "done", ![s].closes = {}]
      BY <1>5 DEF SettingFails, Rows
    <2>2. OverridesTypeOK'
      <3>1. setting[s] \in SettingState
        BY DEF OverridesTypeOK
      <3>2. [setting[s] EXCEPT !.at = "done", !.closes = {}] \in SettingState
        BY <2>1, <3>1 DEF SettingState
      <3>3. setting' = [setting EXCEPT ![s] = [setting[s] EXCEPT !.at = "done", !.closes = {}]]
        BY <2>1 DEF OverridesTypeOK
      <3> QED  BY <2>1, <3>2, <3>3 DEF OverridesTypeOK
    <2>3. /\ \A t \in Settings : setting'[t].began = setting[t].began
          /\ \A t \in Settings \ {s} : setting'[t] = setting[t]
          /\ setting'[s].at = "done" /\ setting'[s].closes = {}
      BY <2>1 DEF OverridesTypeOK, SettingState
    <2>4. BeganApart'
      BY <2>1, <2>3, BeganApartKept
    <2>5. RowsOfSettings'
      BY <2>1, <2>3 DEF RowsOfSettings, Rows
    <2>6. ClosesOlder'
      BY <2>1, <2>3 DEF ClosesOlder
    <2>7. ClosedByLater'
      BY <2>1 DEF ClosedByLater
    <2> QED  BY <2>2, <2>4, <2>5, <2>6, <2>7
  <1>6. CASE UNCHANGED overrideVars
    BY <1>6 DEF overrideVars, Rows, OverridesTypeOK, BeganApart, RowsOfSettings, ClosesOlder, ClosedByLater
  <1> QED  BY <1>1, <1>2, <1>3, <1>4, <1>5, <1>6 DEF OverridesNext

LEMMA LatestIsCurrent == OverridesInv => LatestOverrideInForce
  <1> SUFFICES ASSUME OverridesInv, NEW r \in Rows,
                      \A other \in Rows : overrides[other].from <= overrides[r].from
               PROVE  IsCurrent(r)
    BY DEF LatestOverrideInForce
  <1>1. \A q \in Rows : overrides[q].from \in Nat
    BY DEF OverridesInv, OverridesTypeOK, Rows
  <1>2. overrides[r].to = NoEnd
    BY <1>1 DEF OverridesInv, ClosedByLater
  <1> QED  BY <1>2 DEF IsCurrent

\* LatestOverrideInForce: however many settings overlap, wait for one another or fail, and in whatever
\* order they commit, the price in force is the one set by the transaction that began last
\* (priceOverrideService.ts:28-103): a row is only ever closed by a later one, which is then there.
THEOREM LatestPriceWins == OverridesSpec => []LatestOverrideInForce
  BY OverridesInitInv, OverridesStepInv, LatestIsCurrent, PTL DEF OverridesSpec

\* OverridesTypeOK: the open settings and the rows are what PriceOverrides declares them to be.
THEOREM OverridesTypeCorrect == OverridesSpec => []OverridesTypeOK
  <1>1. OverridesInv => OverridesTypeOK
    BY DEF OverridesInv
  <1> QED  BY OverridesInitInv, OverridesStepInv, <1>1, PTL DEF OverridesSpec

-----------------------------------------------------------------------------
(* The overrides are a register that the last setting wins.                *)

Froms == {overrides[r].from : r \in Rows}

IsLatest(r) == r \in Rows /\ \A other \in Rows : overrides[other].from <= overrides[r].from

\* Of the rows, if there are any, one is the latest.
OneIsLatest == Rows = {} \/ \E r \in Settings : IsLatest(r)

RegisterInv == OverridesInv /\ OneIsLatest

LEMMA FromsTyped ==
    ASSUME OverridesInv
    PROVE  /\ Rows \subseteq Settings /\ moment \in Nat
           /\ \A r \in Rows : overrides[r].from \in Nat /\ overrides[r].from > 0
  BY DEF OverridesInv, OverridesTypeOK, Rows

LatestIsInForce == \A r \in Settings : IsLatest(r) => InForceSince = overrides[r].from

LEMMA InForceIs == OverridesInv => LatestIsInForce
  <1> SUFFICES ASSUME OverridesInv, NEW r \in Settings, IsLatest(r)
               PROVE  InForceSince = overrides[r].from
    BY DEF LatestIsInForce
  <1>1. IsCurrent(r)
    BY LatestIsCurrent DEF LatestOverrideInForce, IsLatest
  <1> DEFINE q == CHOOSE c \in Settings : IsCurrent(c)
  <1>2. q \in Settings /\ IsCurrent(q)
    BY <1>1
  <1>3. InForceSince = overrides[q].from
    BY <1>1 DEF InForceSince
  <1> HIDE DEF q
  <1>4. q \in Rows /\ r \in Rows /\ overrides[r].to = NoEnd
    BY <1>1, <1>2 DEF IsCurrent
  <1>5. overrides[q].from <= overrides[r].from
    BY <1>4 DEF IsLatest
  <1>6. overrides[r].from <= overrides[q].from
    BY <1>2, <1>4 DEF IsCurrent
  <1> QED  BY <1>3, <1>4, <1>5, <1>6, FromsTyped

LEMMA InForceIsNext == OverridesInv' => LatestIsInForce'
  BY InForceIs, PTL

LEMMA NoneInForce ==
    ASSUME Rows = {}
    PROVE  InForceSince = 0 /\ Froms = {}
  BY DEF InForceSince, IsCurrent, Froms

LEMMA RegisterInit == OverridesInit => RegisterInv /\ Register!Init
  <1> SUFFICES ASSUME OverridesInit PROVE RegisterInv /\ Register!Init
    OBVIOUS
  <1>1. Rows = {} /\ moment = 0
    BY DEF OverridesInit, Rows, NoRow
  <1> QED  BY <1>1, OverridesInitInv, NoneInForce DEF RegisterInv, OneIsLatest, Register!Init, Froms

\* A setting that takes effect is the price in force if it began after that.
LEMMA CommitIsApply ==
    ASSUME RegisterInv, OverridesInv', NEW s \in Settings, CommitOverride(s)
    PROVE  OneIsLatest' /\ Register!Apply
  <1> DEFINE began == setting[s].began
  <1>1. /\ setting[s].at = "closed" /\ moment' = moment
        /\ overrides' = [r \in Settings |->
              IF r = s THEN [from |-> began, to |-> NoEnd]
              ELSE IF r \in setting[s].closes THEN [overrides[r] EXCEPT !.to = began]
              ELSE overrides[r]]
    BY DEF CommitOverride
  <1>2. /\ Rows \subseteq Settings /\ moment \in Nat
        /\ \A r \in Rows : overrides[r].from \in Nat /\ overrides[r].from > 0
    BY FromsTyped DEF RegisterInv
  <1>3. began \in 1..moment
    <2>1. began \in Nat
      BY OverrideTypes DEF RegisterInv, OverridesInv
    <2>2. began <= moment /\ began > 0
      BY <1>1 DEF RegisterInv, OverridesInv, BeganApart
    <2> QED  BY <1>2, <2>1, <2>2
  <1>4. /\ overrides'[s].from = began
        /\ \A r \in Settings \ {s} : overrides'[r].from = overrides[r].from
    <2>1. overrides'[s] = [from |-> began, to |-> NoEnd]
      BY <1>1
    <2>2. ASSUME NEW r \in Settings \ {s} PROVE overrides'[r].from = overrides[r].from
      <3>1. overrides'[r] = overrides[r] \/ overrides'[r] = [overrides[r] EXCEPT !.to = began]
        BY <1>1
      <3>2. overrides[r] \in [from : Nat, to : Nat \cup {NoEnd}]
        BY DEF RegisterInv, OverridesInv, OverridesTypeOK
      <3> QED  BY <3>1, <3>2
    <2> QED  BY <2>1, <2>2
  <1>5. Rows' = Rows \cup {s} /\ s \notin Rows
    BY <1>1, <1>3, <1>4 DEF Rows, RegisterInv, OverridesInv, RowsOfSettings
  <1>6. began \notin Froms
    <2>1. \A r \in Rows : setting[r].at # "new" /\ overrides[r].from = setting[r].began /\ r # s
      BY <1>1, <1>5 DEF RegisterInv, OverridesInv, RowsOfSettings
    <2>2. \A r \in Rows : setting[r].began # began
      BY <1>1, <1>2, <2>1 DEF RegisterInv, OverridesInv, BeganApart
    <2> QED  BY <2>1, <2>2 DEF Froms
  <1>7. Froms' = Froms \cup {began}
    <2>1. \A r \in Rows : r \in Settings \ {s}
      BY <1>2, <1>5
    <2> QED  BY <1>4, <1>5, <2>1 DEF Froms
  <1> HIDE DEF began
  <1>8. OneIsLatest' /\ InForceSince' = IF began > InForceSince THEN began ELSE InForceSince
    <2>1. ASSUME NEW r \in Settings, IsLatest(r)' PROVE InForceSince' = overrides'[r].from
      BY <2>1, InForceIsNext DEF LatestIsInForce
    <2>2. CASE Rows = {}
      <3>1. IsLatest(s)'
        BY <1>3, <1>4, <1>5, <2>2 DEF IsLatest
      <3>2. InForceSince' = began /\ InForceSince = 0
        BY <1>4, <2>1, <2>2, <3>1, NoneInForce
      <3> QED  BY <1>3, <3>1, <3>2 DEF OneIsLatest
    <2>3. ASSUME NEW r \in Settings, IsLatest(r)
          PROVE  OneIsLatest' /\ InForceSince' = IF began > InForceSince THEN began ELSE InForceSince
      <3>1. InForceSince = overrides[r].from /\ r \in Rows
        BY <2>3, InForceIs DEF RegisterInv, IsLatest, LatestIsInForce
      <3>2. \A o \in Rows' : \/ o = s /\ overrides'[o].from = began
                             \/ o \in Rows /\ overrides'[o].from = overrides[o].from
                                           /\ overrides[o].from <= overrides[r].from
        BY <1>2, <1>4, <1>5, <2>3 DEF IsLatest
      <3>3. overrides[r].from \in Nat /\ began \in Nat /\ \A o \in Rows : overrides[o].from \in Nat
        BY <1>2, <1>3, <3>1
      <3>4. overrides'[r].from = overrides[r].from /\ r # s
        BY <1>4, <1>5, <3>1
      <3>5. CASE began > overrides[r].from
        <4>1. IsLatest(s)'
          BY <1>4, <1>5, <3>2, <3>3, <3>5 DEF IsLatest
        <4>2. InForceSince' = began
          BY <1>4, <2>1, <4>1
        <4> QED  BY <3>1, <3>5, <4>1, <4>2 DEF OneIsLatest
      <3>6. CASE ~(began > overrides[r].from)
        <4>1. IsLatest(r)'
          BY <1>5, <3>1, <3>2, <3>3, <3>4, <3>6 DEF IsLatest
        <4>2. InForceSince' = overrides[r].from
          BY <2>1, <3>4, <4>1
        <4> QED  BY <3>1, <3>6, <4>1, <4>2 DEF OneIsLatest
      <3> QED  BY <3>5, <3>6
    <2> QED  BY <2>2, <2>3 DEF RegisterInv, OneIsLatest
  <1>9. Register!Apply
    BY <1>1, <1>3, <1>6, <1>7, <1>8 DEF Register!Apply, Froms
  <1> QED  BY <1>8, <1>9

LEMMA RegisterStep ==
    ASSUME RegisterInv, [OverridesNext]_overrideVars
    PROVE  RegisterInv' /\ [Register!Next]_(Register!registerVars)
  <1>1. OverridesInv'
    BY OverridesStepInv DEF RegisterInv
  <1>2. ASSUME overrides' = overrides PROVE OneIsLatest' /\ Froms' = Froms /\ InForceSince' = InForceSince
    <2>1. Rows' = Rows
      BY <1>2 DEF Rows
    <2>2. \A r \in Settings : IsCurrent(r)' <=> IsCurrent(r)
      BY <1>2, <2>1 DEF IsCurrent
    <2>3. \A r \in Settings : IsLatest(r)' <=> IsLatest(r)
      BY <1>2, <2>1 DEF IsLatest
    <2>4. OneIsLatest'
      BY <2>1, <2>3 DEF RegisterInv, OneIsLatest
    <2>5. Froms' = Froms
      BY <1>2, <2>1 DEF Froms
    <2>6. InForceSince' = InForceSince
      BY <1>2, <2>1 DEF InForceSince, IsCurrent
    <2> QED  BY <2>4, <2>5, <2>6
  <1>3. ASSUME NEW s \in Settings, CommitOverride(s)
        PROVE  OneIsLatest' /\ Register!Next
    BY <1>1, <1>3, CommitIsApply DEF Register!Next
  <1>4. ASSUME NEW s \in Settings, BeginSetting(s)
        PROVE  OneIsLatest' /\ Register!Next
    <2>1. overrides' = overrides /\ moment' = moment + 1
      BY <1>4 DEF BeginSetting
    <2> QED  BY <1>2, <2>1 DEF Register!Next, Register!Begin, Froms
  <1>5. ASSUME UNCHANGED <<moment, overrides>>
        PROVE  OneIsLatest' /\ UNCHANGED Register!registerVars
    BY <1>2, <1>5 DEF Register!registerVars, Froms
  <1>6. OneIsLatest' /\ [Register!Next]_(Register!registerVars)
    BY <1>3, <1>4, <1>5 DEF OverridesNext, SelectOverrides, CloseOverrides, SettingFails, overrideVars
  <1> QED  BY <1>1, <1>6 DEF RegisterInv

\* RefinesRegister: for any number of settings, each takes effect at one moment, that of its COMMIT, and
\* the price in force is then the one whose setting began last; nothing else changes it.
THEOREM OverridesAreRegister == OverridesSpec => RefinesRegister
  <1> QED  BY RegisterInit, RegisterStep, PTL DEF OverridesSpec, RefinesRegister, Register!Spec

\* NeverGoesBack, which the overrides inherit from the register: the negotiated price that
\* getCurrentOverride returns is never replaced by an older one, nor by none, although two settings
\* may each close what the other has not yet shown (priceOverrideService.ts:28-66).
THEOREM PriceNeverGoesBack == OverridesSpec => Register!NeverGoesBack
  <1>1. ASSUME RegisterInv, RegisterInv', [Register!Next]_(Register!registerVars)
        PROVE  [InForceSince' > InForceSince /\ InForceSince' \in Froms']_InForceSince
    <2>1. CASE Register!Begin \/ UNCHANGED Register!registerVars
      BY <2>1 DEF Register!Begin, Register!registerVars
    <2>2. CASE Register!Apply
      BY <2>2 DEF Register!Apply, Froms
    <2> QED  BY <1>1, <2>1, <2>2 DEF Register!Next
  <1>2. ASSUME [InForceSince' > InForceSince /\ InForceSince' \in Froms']_InForceSince
        PROVE  [InForceSince' > InForceSince /\ InForceSince' \in {overrides[r].from : r \in Rows}']_InForceSince
    BY <1>2 DEF Froms
  <1> QED  BY <1>1, <1>2, RegisterInit, RegisterStep, PTL DEF OverridesSpec, Register!NeverGoesBack

-----------------------------------------------------------------------------
(* Pricing: what the tier loops compute, for any tiers and any units.  The *)
(* induction over the rounds of a loop rests on the least element of a set *)
(* of numbers.                                                             *)

\* A set of numbers has a least one.
LEMMA LeastNumber == \A T \in SUBSET Nat : T # {} => \E m \in T : \A n \in T : m <= n
  <1> SUFFICES ASSUME NEW T \in SUBSET Nat, T # {} PROVE \E m \in T : \A n \in T : m <= n
    OBVIOUS
  <1> DEFINE R == OpToRel(<, Nat)
  <1>1. \A x, y \in Nat : x < y => <<x, y>> \in R
    <2>1. R = {ss \in Nat \X Nat : ss[1] < ss[2]}
      BY Zenon DEF OpToRel
    <2> QED BY <2>1
  <1>2. IsWellFoundedOn(R, Nat)
    BY NatLessThanWellFounded
  <1> HIDE DEF R
  <1>3. \E x \in T : \A y \in T : ~ (<<y, x>> \in R)
    BY <1>2, WFMin
  <1>4. \E x \in T : \A y \in T : ~ (y < x)
    BY <1>1, <1>3
  <1> QED BY <1>4

\* Induction over the rounds of a loop, S being the set of rounds at which a formula holds.
LEMMA RoundByRound ==
    ASSUME NEW n \in Nat, NEW S, 0 \in S, \A i \in 1..n : i - 1 \in S => i \in S
    PROVE  0..n \subseteq S
  <1> DEFINE T == 0..n \ S
  <1> SUFFICES ASSUME T # {} PROVE FALSE
    OBVIOUS
  <1>1. PICK m \in T : \A k \in T : m <= k
    <2>1. T \in SUBSET Nat
      OBVIOUS
    <2> HIDE DEF T
    <2> QED BY <2>1, LeastNumber
  <1>2. m \in 1..n /\ m - 1 \in 0..n /\ ~ (m <= m - 1)
    BY <1>1
  <1> QED BY <1>1, <1>2

\* f holds what a loop of n rounds holds after each of them.
Runs(f, n, A, first, round) ==
    /\ f \in [0..n -> A]
    /\ f[0] = first
    /\ \A i \in 1..n : f[i] = round[i][f[i - 1]]

LEMMA LoopRuns ==
    ASSUME NEW n \in Nat, NEW A, NEW first \in A, NEW round \in [1..n -> [A -> A]]
    PROVE  \E f : Runs(f, n, A, first, round)
  <1> DEFINE S == {m \in 0..n : \E f : Runs(f, m, A, first, round)}
  <1>1. 0 \in S
    <2>1. Runs([i \in 0..0 |-> first], 0, A, first, round)
      BY DEF Runs
    <2> QED BY <2>1
  <1>2. ASSUME NEW m \in 1..n, m - 1 \in S PROVE m \in S
    <2>1. PICK f : Runs(f, m - 1, A, first, round)
      BY <1>2
    <2> DEFINE g == [i \in 0..m |-> IF i < m THEN f[i] ELSE round[m][f[m - 1]]]
    <2>2. f[m - 1] \in A /\ round[m] \in [A -> A]
      BY <2>1 DEF Runs
    <2>3. g \in [0..m -> A]
      BY <2>1, <2>2 DEF Runs
    <2>4. g[0] = first
      BY <2>1 DEF Runs
    <2>5. ASSUME NEW i \in 1..m PROVE g[i] = round[i][g[i - 1]]
      <3>1. CASE i < m
        <4>1. i \in 1..(m - 1) /\ i - 1 \in 0..m /\ i \in 0..m
          BY <3>1
        <4> QED BY <2>1, <3>1, <4>1 DEF Runs
      <3>2. CASE i = m
        <4>1. i - 1 \in 0..m /\ i - 1 < m
          BY <3>2
        <4> QED BY <3>2, <4>1
      <3> QED BY <3>1, <3>2
    <2> HIDE DEF g
    <2>6. Runs(g, m, A, first, round)
      BY <2>3, <2>4, <2>5 DEF Runs
    <2> QED BY <2>6
  <1>3. \A i \in 1..n : i - 1 \in S => i \in S
    BY <1>2
  <1>4. 0..n \subseteq S
    <2> HIDE DEF S
    <2> QED BY <1>1, <1>3, RoundByRound
  <1> QED BY <1>4

\* What holds before a loop and is kept by its rounds holds after each.
LEMMA LoopKeepsType ==
    ASSUME NEW n \in Nat, NEW f, NEW A, f[0] \in A, \A i \in 1..n : f[i - 1] \in A => f[i] \in A
    PROVE  \A i \in 0..n : f[i] \in A
  <1> DEFINE S == {i \in 0..n : f[i] \in A}
  <1>1. 0 \in S
    OBVIOUS
  <1>2. \A i \in 1..n : i - 1 \in S => i \in S
    OBVIOUS
  <1>3. 0..n \subseteq S
    <2> HIDE DEF S
    <2> QED BY <1>1, <1>2, RoundByRound
  <1> QED BY <1>3

LEMMA LesserOfTwo ==
    ASSUME NEW a \in Int, NEW b \in Int
    PROVE  Min({a, b}) = IF a <= b THEN a ELSE b
  BY DEF Min

\* A tier with any end, price and fee.
AnyTier == [upTo : Nat \cup {Unbounded}, price : Nat, fee : Nat]

LEMMA TierNumbers ==
    ASSUME NEW t \in AnyTier
    PROVE  /\ t.price \in Nat /\ t.fee \in Nat
           /\ t.upTo # Unbounded => t.upTo \in Nat
  BY DEF AnyTier

Bill == [left : Int, total : Int]

LEMMA ComputeCostRuns ==
    ASSUME NEW s \in Seq(AnyTier), NEW n \in Nat
    PROVE  LET f == After(ComputeCostTier, [left |-> n, total |-> 0], s)
           IN  /\ f \in [0..Len(s) -> Bill]
               /\ f[0] = [left |-> n, total |-> 0]
               /\ \A i \in 1..Len(s) : f[i] = ComputeCostTier(f[i - 1], s[i])
  <1> DEFINE first == [left |-> n, total |-> 0]
             round == [i \in 1..Len(s) |-> [acc \in Bill |-> ComputeCostTier(acc, s[i])]]
             f == After(ComputeCostTier, first, s)
  <1>1. ASSUME NEW acc \in Bill, NEW t \in AnyTier PROVE ComputeCostTier(acc, t) \in Bill
    <2>1. /\ acc.left \in Int /\ acc.total \in Int /\ t.price \in Int /\ t.fee \in Int
          /\ t.upTo # Unbounded => t.upTo \in Int
      BY TierNumbers DEF Bill
    <2> DEFINE inTier == IF t.upTo = Unbounded THEN acc.left ELSE Min({acc.left, t.upTo})
    <2>2. inTier \in Int
      BY <2>1, LesserOfTwo
    <2> HIDE DEF inTier
    <2>3. ComputeCostTier(acc, t) =
            [left |-> acc.left - inTier,
             total |-> acc.total + inTier * t.price + IF inTier > 0 THEN t.fee ELSE 0]
      BY DEF ComputeCostTier, inTier
    <2> QED BY <2>1, <2>2, <2>3 DEF Bill
  <1>2. first \in Bill /\ Len(s) \in Nat /\ \A i \in 1..Len(s) : s[i] \in AnyTier
    BY DEF Bill
  <1>3. round \in [1..Len(s) -> [Bill -> Bill]]
    BY <1>1, <1>2
  <1>4. PICK g : Runs(g, Len(s), Bill, first, round)
    <2> HIDE DEF round, first
    <2> QED BY <1>2, <1>3, LoopRuns
  <1>5. ASSUME NEW i \in 0..Len(s)
        PROVE  g[i] = IF i = 0 THEN first ELSE ComputeCostTier(g[i - 1], s[i])
    <2>1. i = 0 \/ (i \in 1..Len(s) /\ i - 1 \in 0..Len(s))
      <3> HIDE DEF first, round, f
      <3> QED BY <1>2
    <2>2. CASE i \in 1..Len(s) /\ i - 1 \in 0..Len(s)
      <3>1. g[i - 1] \in Bill /\ g[i] = round[i][g[i - 1]]
        BY <1>4, <2>2 DEF Runs
      <3> QED BY <2>2, <3>1
    <2> QED BY <1>4, <2>1, <2>2 DEF Runs
  <1>6. g \in [0..Len(s) -> Bill]
    BY <1>4 DEF Runs
  <1>7. f = [i \in 0..Len(s) |-> IF i = 0 THEN first ELSE ComputeCostTier(f[i - 1], s[i])]
    <2> HIDE DEF first
    <2>1. g = [i \in 0..Len(s) |-> IF i = 0 THEN first ELSE ComputeCostTier(g[i - 1], s[i])]
      BY <1>5, <1>6
    <2> QED BY <2>1 DEF After
  <1>8. f \in [0..Len(s) -> Bill]
    <2> HIDE DEF first, f
    <2>1. f[0] \in Bill
      BY <1>2, <1>7
    <2>2. ASSUME NEW i \in 1..Len(s), f[i - 1] \in Bill PROVE f[i] \in Bill
      <3>1. i \in 0..Len(s) /\ i # 0
        BY <1>2
      <3> QED BY <1>1, <1>2, <1>7, <2>2, <3>1
    <2>3. \A i \in 0..Len(s) : f[i] \in Bill
      BY <1>2, <2>1, <2>2, LoopKeepsType
    <2> QED BY <1>7, <2>3
  <1>9. f[0] = first /\ \A i \in 1..Len(s) : f[i] = ComputeCostTier(f[i - 1], s[i])
    <2> HIDE DEF first, f
    <2>1. \A i \in 1..Len(s) : i \in 0..Len(s) /\ i # 0
      BY <1>2
    <2>2. 0 \in 0..Len(s)
      BY <1>2
    <2> QED BY <1>7, <2>1, <2>2
  <1> HIDE DEF f, first, round
  <1>10. /\ f \in [0..Len(s) -> Bill] /\ f[0] = first
         /\ \A i \in 1..Len(s) : f[i] = ComputeCostTier(f[i - 1], s[i])
    BY <1>8, <1>9
  <1> QED BY <1>10, Zenon DEF f, first

\* Two sums of n terms that differ in the j-th, by c.
DifferInTerm(a, b, n, j, c) ==
    /\ j \in 1..n /\ c \in Int
    /\ a[0] = b[0] /\ \A i \in 0..n : a[i] \in Int /\ b[i] \in Int
    /\ \A i \in 1..n : a[i] - a[i - 1] = b[i] - b[i - 1] + IF i = j THEN c ELSE 0

LEMMA TotalsDiffer ==
    ASSUME NEW n \in Nat, NEW j, NEW c, NEW a, NEW b, DifferInTerm(a, b, n, j, c)
    PROVE  a[n] = b[n] + c
  <1> USE DEF DifferInTerm
  <1> DEFINE S == {i \in 0..n : a[i] = b[i] + IF i < j THEN 0 ELSE c}
  <1>1. 0 \in S
    OBVIOUS
  <1>2. ASSUME NEW i \in 1..n, i - 1 \in S PROVE i \in S
    <2>1. i \in 0..n /\ i - 1 \in 0..n
      OBVIOUS
    <2> QED BY <1>2, <2>1
  <1>3. 0..n \subseteq S
    <2> HIDE DEF S
    <2>1. \A i \in 1..n : i - 1 \in S => i \in S
      BY <1>2
    <2> QED BY <1>1, <2>1, RoundByRound
  <1> QED BY <1>3

LEMMA TiersShape ==
    ASSUME tiers \in StoredTiers
    PROVE  /\ tiers \in Seq(AnyTier) /\ Len(tiers) \in Nat /\ DOMAIN tiers = 1..Len(tiers)
           /\ \A i \in 1..Len(tiers) : tiers[i] \in AnyTier
  <1>1. Tier \subseteq AnyTier
    BY PricingAssumption DEF PricingAssumption, Tier, AnyTier
  <1>2. tiers \in Seq(Tier)
    BY DEF StoredTiers, BoundedSeq, SeqOf
  <1>3. tiers \in Seq(AnyTier)
    <2> HIDE DEF PricingAssumption
    <2> QED BY <1>1, <1>2, SeqMonotonic
  <1> QED BY <1>3

Width(i) == IF tiers[i].upTo = Unbounded THEN MaxUnits ELSE tiers[i].upTo

\* Each tier ends its width after the one before.
LEMMA EndsShape ==
    ASSUME tiers \in StoredTiers
    PROVE  /\ EndOf[0] = 0
           /\ \A i \in 0..Len(tiers) : EndOf[i] \in Nat
           /\ \A i \in 1..Len(tiers) : Width(i) \in Nat /\ EndOf[i] = EndOf[i - 1] + Width(i)
  <1> DEFINE n == Len(tiers)
             f == EndOf
             round == [i \in 1..n |-> [a \in Nat |-> a + Width(i)]]
  <1>1. n \in Nat /\ \A i \in 1..n : Width(i) \in Nat
    BY TiersShape, TierNumbers, PricingAssumption DEF Width, PricingAssumption
  <1>2. round \in [1..n -> [Nat -> Nat]]
    BY <1>1
  <1>3. PICK g : Runs(g, n, Nat, 0, round)
    <2> HIDE DEF round, n
    <2> QED BY <1>1, <1>2, LoopRuns
  <1> HIDE DEF n
  <1>4. g = [i \in 0..n |-> IF i = 0 THEN 0 ELSE g[i - 1] + Width(i)]
    <2>1. ASSUME NEW i \in 0..n PROVE g[i] = IF i = 0 THEN 0 ELSE g[i - 1] + Width(i)
      <3>1. i = 0 \/ (i \in 1..n /\ i - 1 \in 0..n)
        BY <1>1
      <3>2. CASE i \in 1..n /\ i - 1 \in 0..n
        BY <1>1, <1>3, <3>2 DEF Runs
      <3> QED BY <1>3, <3>1, <3>2 DEF Runs
    <2> QED BY <1>3, <2>1 DEF Runs
  <1>5. f = [i \in 0..n |-> IF i = 0 THEN 0 ELSE f[i - 1] + Width(i)]
    BY <1>4 DEF After, EndOf, Width, n
  <1> HIDE DEF f
  <1>6. f[0] = 0 /\ \A i \in 1..n : f[i] = f[i - 1] + Width(i)
    <2>1. 0 \in 0..n /\ \A i \in 1..n : i \in 0..n /\ i # 0
      BY <1>1
    <2> QED BY <1>5, <2>1
  <1>7. \A i \in 0..n : f[i] \in Nat
    <2>1. \A i \in 1..n : f[i - 1] \in Nat => f[i] \in Nat
      BY <1>1, <1>6
    <2>2. f[0] \in Nat
      BY <1>6
    <2> QED BY <1>1, <2>1, <2>2, LoopKeepsType
  <1> QED BY <1>1, <1>6, <1>7 DEF f, n

LEMMA EndsAscend ==
    ASSUME tiers \in StoredTiers, NEW i \in 0..Len(tiers), NEW k \in i..Len(tiers)
    PROVE  EndOf[i] <= EndOf[k]
  <1> DEFINE n == Len(tiers)
             S == {m \in 0..n : m < i \/ EndOf[i] <= EndOf[m]}
  <1>1. /\ n \in Nat
        /\ \A m \in 0..n : EndOf[m] \in Nat
        /\ \A m \in 1..n : EndOf[m - 1] <= EndOf[m]
    <2>1. n \in Nat /\ \A m \in 1..n : m - 1 \in 0..n /\ m \in 0..n
      BY TiersShape
    <2>2. \A m \in 0..n : EndOf[m] \in Nat
      BY EndsShape
    <2>3. ASSUME NEW m \in 1..n PROVE EndOf[m - 1] <= EndOf[m]
      <3>1. EndOf[m - 1] \in Nat /\ Width(m) \in Nat
        BY <2>1, <2>2, EndsShape
      <3>2. EndOf[m] = EndOf[m - 1] + Width(m)
        BY EndsShape
      <3> QED BY <3>1, <3>2
    <2> HIDE DEF n
    <2> QED BY <2>1, <2>2, <2>3
  <1>2. 0 \in S
    BY <1>1
  <1>3. ASSUME NEW m \in 1..n, m - 1 \in S PROVE m \in S
    <2>1. m \in 0..n /\ m - 1 \in 0..n /\ m \in Nat
      BY <1>1
    <2> QED BY <1>1, <1>3, <2>1
  <1>4. 0..n \subseteq S
    <2> HIDE DEF S, n
    <2>1. \A m \in 1..n : m - 1 \in S => m \in S
      BY <1>3
    <2> QED BY <1>1, <1>2, <2>1, RoundByRound
  <1>5. k \in 0..n /\ ~ (k < i)
    BY <1>1
  <1>6. k \in S
    <2> HIDE DEF S, n
    <2> QED BY <1>4, <1>5
  <1> QED BY <1>5, <1>6

\* The units of n up to a tier's end, and those in the i-th tier.
UpTo(n, end) == IF n <= end THEN n ELSE end
Share(i, n) == UpTo(n, EndOf[i]) - UpTo(n, EndOf[i - 1])

\* One unit more is in the tier it falls in, and the first of a tier finds it empty.
LEMMA ShareOfUnit ==
    ASSUME tiers \in StoredTiers, NEW n \in Nat \ {0}, NEW i \in 1..Len(tiers)
    PROVE  /\ Share(i, n) \in Nat /\ Share(i, n - 1) \in Nat
           /\ Share(i, n) = Share(i, n - 1) + IF FallsIn(n, i) THEN 1 ELSE 0
           /\ FallsIn(n, i) => (Share(i, n - 1) > 0 <=> FallsIn(n - 1, i))
  <1>1. \A lo, hi \in Nat : lo <= hi =>
          /\ UpTo(n, hi) - UpTo(n, lo) \in Nat /\ UpTo(n - 1, hi) - UpTo(n - 1, lo) \in Nat
          /\ UpTo(n, hi) - UpTo(n, lo) =
                UpTo(n - 1, hi) - UpTo(n - 1, lo) + IF lo < n /\ n <= hi THEN 1 ELSE 0
          /\ lo < n /\ n <= hi =>
                (UpTo(n - 1, hi) - UpTo(n - 1, lo) > 0 <=> lo < n - 1 /\ n - 1 <= hi)
    BY DEF UpTo
  <1>2. EndOf[i - 1] \in Nat /\ EndOf[i] \in Nat /\ EndOf[i - 1] <= EndOf[i]
    <2>1. i - 1 \in 0..Len(tiers) /\ i \in 0..Len(tiers)
      BY TiersShape
    <2> QED BY <2>1, EndsShape
  <1> QED BY <1>1, <1>2 DEF Share, FallsIn

LEMMA OneTier ==
    ASSUME tiers \in StoredTiers, NEW n \in Nat, NEW i \in 1..Len(tiers), NEW j \in 1..Len(tiers),
           FallsIn(n, i), FallsIn(n, j)
    PROVE  i = j
  <1>1. ASSUME NEW a \in 1..Len(tiers), NEW b \in 1..Len(tiers), FallsIn(n, a), FallsIn(n, b), a < b
        PROVE  FALSE
    <2>1. /\ a \in 0..Len(tiers) /\ b - 1 \in a..Len(tiers) /\ b - 1 \in 0..Len(tiers)
          /\ b \in 0..Len(tiers)
      BY <1>1, TiersShape
    <2>2. EndOf[a] <= EndOf[b - 1] /\ EndOf[a] \in Nat /\ EndOf[b - 1] \in Nat
      BY <2>1, EndsShape, EndsAscend
    <2> QED BY <1>1, <2>2 DEF FallsIn
  <1>2. i < j \/ j < i \/ i = j
    BY TiersShape
  <1> QED BY <1>1, <1>2

-----------------------------------------------------------------------------
\* Tiers that end where the stored ones do, by their widths.
AsWide(s) == s \in Seq(AnyTier) /\ Len(s) = Len(tiers)
             /\ \A i \in 1..Len(tiers) : s[i] \in AnyTier /\ s[i].upTo = tiers[i].upTo

\* What the i-th tier adds to the cost of n units.
DueOf(s, i, n) == Share(i, n) * s[i].price + IF Share(i, n) > 0 THEN s[i].fee ELSE 0

\* a holds the cost of n units in the first tiers, for each number of tiers.
Sums(a, s, n) ==
    /\ a \in [0..Len(tiers) -> Int] /\ a[0] = 0
    /\ \A i \in 1..Len(tiers) : a[i] = a[i - 1] + DueOf(s, i, n)

\* A round of computeTieredCost charges the tier's share of the units.
LEMMA CostOfTier ==
    ASSUME tiers \in StoredTiers, NEW n \in 0..MaxUnits, NEW i \in 1..Len(tiers), NEW t \in AnyTier,
           t.upTo = tiers[i].upTo, NEW acc \in Bill, acc.left = n - UpTo(n, EndOf[i - 1])
    PROVE  LET share == Share(i, n)
               next == ComputeCostTier(acc, t)
           IN  /\ share \in Nat
               /\ next.left = n - UpTo(n, EndOf[i])
               /\ next.total = acc.total + (share * t.price + IF share > 0 THEN t.fee ELSE 0)
  <1> DEFINE inTier == IF t.upTo = Unbounded THEN acc.left ELSE Min({acc.left, t.upTo})
             next == ComputeCostTier(acc, t)
             share == Share(i, n)
             lo == EndOf[i - 1]
             hi == EndOf[i]
  <1>1. /\ t.price \in Nat /\ t.fee \in Nat /\ (t.upTo # Unbounded => t.upTo \in Nat)
        /\ MaxUnits \in Nat /\ acc.left \in Int /\ acc.total \in Int /\ n \in Nat /\ n <= MaxUnits
    BY TierNumbers, PricingAssumption DEF PricingAssumption, Bill
  <1>2. lo \in Nat /\ hi = lo + Width(i) /\ Width(i) \in Nat
    <2>1. i - 1 \in 0..Len(tiers)
      BY TiersShape
    <2> QED BY <2>1, EndsShape
  <1>3. acc.left = n - UpTo(n, lo) /\ share = UpTo(n, hi) - UpTo(n, lo)
    BY DEF Share
  <1>4. inTier = IF acc.left <= Width(i) THEN acc.left ELSE Width(i)
    <2>1. CASE t.upTo = Unbounded
      <3>1. Width(i) = MaxUnits /\ inTier = acc.left
        BY <2>1 DEF Width
      <3>2. acc.left <= MaxUnits
        <4> HIDE DEF lo
        <4> QED BY <1>1, <1>2, <1>3 DEF UpTo
      <3> HIDE DEF inTier
      <3> QED BY <3>1, <3>2
    <2>2. CASE t.upTo # Unbounded
      <3>1. Width(i) = t.upTo /\ inTier = Min({acc.left, t.upTo})
        BY <2>2 DEF Width
      <3> QED BY <1>1, <2>2, <3>1, LesserOfTwo
    <2> QED BY <2>1, <2>2
  <1>5. next = [left |-> acc.left - inTier,
                total |-> acc.total + inTier * t.price + IF inTier > 0 THEN t.fee ELSE 0]
    BY DEF ComputeCostTier
  <1> HIDE DEF next, inTier, share, lo, hi
  <1>6. inTier = share /\ share \in Nat
    <2>1. \A w \in Nat : LET left == n - UpTo(n, lo)
                             more == UpTo(n, lo + w) - UpTo(n, lo)
                         IN  (IF left <= w THEN left ELSE w) = more /\ more \in Nat
      BY <1>1, <1>2 DEF UpTo
    <2> QED BY <1>2, <1>3, <1>4, <2>1
  <1>7. next.left = n - UpTo(n, hi)
    <2>1. UpTo(n, lo) \in Int /\ UpTo(n, hi) \in Int
      BY <1>1, <1>2 DEF UpTo
    <2>2. next.left = acc.left - share
      BY <1>5, <1>6
    <2> QED BY <1>1, <1>3, <2>1, <2>2
  <1>8. next.total = acc.total + (share * t.price + IF share > 0 THEN t.fee ELSE 0)
    <2> DEFINE p == share * t.price
               fee == IF share > 0 THEN t.fee ELSE 0
    <2>1. \A x, y \in Nat : x * y \in Nat
      OBVIOUS
    <2>2. p \in Int /\ fee \in Int
      BY <1>1, <1>6, <2>1
    <2>3. next.total = acc.total + p + fee
      BY <1>5, <1>6
    <2> HIDE DEF p, fee
    <2>4. next.total = acc.total + (p + fee)
      BY <1>1, <2>2, <2>3
    <2> QED BY <2>4 DEF p, fee
  <1> QED BY <1>6, <1>7, <1>8 DEF next, share, hi

CostLoop(s, n) == After(ComputeCostTier, [left |-> n, total |-> 0], s)

CostSoFar(s, n) == [i \in 0..Len(tiers) |-> CostLoop(s, n)[i].total]

LEMMA CostRounds ==
    ASSUME tiers \in StoredTiers, NEW n \in 0..MaxUnits, NEW s, AsWide(s)
    PROVE  /\ Sums(CostSoFar(s, n), s, n)
           /\ ComputeCost(s, n) = CostSoFar(s, n)[Len(tiers)]
  <1> DEFINE f == CostLoop(s, n)
             L == Len(tiers)
             S == {i \in 0..L : f[i].left = n - UpTo(n, EndOf[i])}
  <1>1. /\ f \in [0..L -> Bill] /\ f[0] = [left |-> n, total |-> 0]
        /\ \A i \in 1..L : f[i] = ComputeCostTier(f[i - 1], s[i])
        /\ L \in Nat /\ n \in Nat
    <2>1. n \in Nat /\ s \in Seq(AnyTier) /\ Len(s) = L
      BY PricingAssumption DEF PricingAssumption, AsWide
    <2> QED BY <2>1, TiersShape, ComputeCostRuns DEF CostLoop
  <1>2. EndOf[0] = 0
    BY EndsShape
  <1>3. ASSUME NEW i \in 1..L, i - 1 \in S
        PROVE  i \in S /\ f[i].total = f[i - 1].total + DueOf(s, i, n)
    <2>1. i - 1 \in 0..L /\ i \in 0..L
      BY <1>1
    <2>2. f[i - 1] \in Bill /\ f[i - 1].left = n - UpTo(n, EndOf[i - 1])
      BY <1>1, <1>3, <2>1
    <2>3. f[i] = ComputeCostTier(f[i - 1], s[i])
      BY <1>1
    <2>4. s[i] \in AnyTier /\ s[i].upTo = tiers[i].upTo
      BY DEF AsWide
    <2> HIDE DEF f
    <2> QED BY <2>1, <2>2, <2>3, <2>4, CostOfTier DEF DueOf
  <1>4. 0..L \subseteq S
    <2>1. 0 \in S
      BY <1>1, <1>2 DEF UpTo
    <2> HIDE DEF S, L
    <2>2. \A i \in 1..L : i - 1 \in S => i \in S
      BY <1>3
    <2> QED BY <1>1, <2>1, <2>2, RoundByRound
  <1>5. \A i \in 1..L : i - 1 \in S /\ i - 1 \in 0..L /\ i \in 0..L
    <2> HIDE DEF S
    <2> QED BY <1>1, <1>4
  <1>6. f[0].total = 0 /\ 0 \in 0..L /\ L \in 0..L /\ \A i \in 0..L : f[i].total \in Int
    BY <1>1 DEF Bill
  <1>7. ComputeCost(s, n) = f[L].total
    BY DEF ComputeCost, CostLoop, AsWide
  <1> HIDE DEF S
  <1> QED BY <1>3, <1>5, <1>6, <1>7 DEF CostSoFar, Sums

LEMMA DueIsNumber ==
    ASSUME tiers \in StoredTiers, NEW s, AsWide(s), NEW n \in Nat, NEW i \in 1..Len(tiers)
    PROVE  Share(i, n) \in Nat /\ Share(i, n) * s[i].price \in Nat /\ DueOf(s, i, n) \in Int
  <1>1. s[i].price \in Nat /\ s[i].fee \in Nat
    BY TierNumbers DEF AsWide
  <1>2. Share(i, n) \in Nat
    <2>1. \A m \in Nat : m + 1 \in Nat \ {0} /\ (m + 1) - 1 = m
      OBVIOUS
    <2> QED BY <2>1, ShareOfUnit
  <1>3. Share(i, n) * s[i].price \in Nat
    BY <1>1, <1>2
  <1> QED BY <1>1, <1>2, <1>3 DEF DueOf

\* Two sums with the same terms are the same.
LEMMA SameSums ==
    ASSUME tiers \in StoredTiers, NEW a, NEW b, NEW s, NEW t, NEW n, NEW m, Sums(a, s, n), Sums(b, t, m),
           \A i \in 1..Len(tiers) : DueOf(s, i, n) = DueOf(t, i, m)
    PROVE  a[Len(tiers)] = b[Len(tiers)]
  <1> DEFINE L == Len(tiers)
             S == {i \in 0..L : a[i] = b[i]}
  <1>1. L \in Nat
    BY TiersShape
  <1>2. 0 \in S
    BY <1>1 DEF Sums
  <1>3. \A i \in 1..L : i - 1 \in S => i \in S
    BY <1>1 DEF Sums
  <1>4. 0..L \subseteq S
    <2> HIDE DEF S, L
    <2> QED BY <1>1, <1>2, <1>3, RoundByRound
  <1> QED BY <1>1, <1>4

\* A unit more adds the price of its tier, and the fee if it is the first there.
LEMMA UnitByUnit ==
    ASSUME tiers \in StoredTiers, NEW s, AsWide(s), NEW n \in Nat \ {0},
           NEW a, Sums(a, s, n), NEW b, Sums(b, s, n - 1)
    PROVE  /\ \A j \in 1..Len(tiers) : FallsIn(n, j) =>
                  a[Len(tiers)] = b[Len(tiers)]
                      + (s[j].price + IF FallsIn(n - 1, j) THEN 0 ELSE s[j].fee)
           /\ (\A j \in 1..Len(tiers) : ~FallsIn(n, j)) => a[Len(tiers)] = b[Len(tiers)]
  <1> DEFINE L == Len(tiers)
  <1>1. L \in Nat /\ n - 1 \in Nat
    BY TiersShape
  <1>2. \A i \in 1..L : /\ s[i].price \in Nat /\ s[i].fee \in Nat
                        /\ DueOf(s, i, n - 1) \in Int /\ DueOf(s, i, n) \in Int
    BY <1>1, DueIsNumber, TierNumbers DEF AsWide
  <1>3. ASSUME NEW i \in 1..L, ~FallsIn(n, i) PROVE DueOf(s, i, n) = DueOf(s, i, n - 1)
    <2>1. Share(i, n) = Share(i, n - 1) + 0 /\ Share(i, n - 1) \in Nat
      BY <1>3, ShareOfUnit
    <2>2. Share(i, n) = Share(i, n - 1)
      BY <2>1
    <2> QED BY <2>2 DEF DueOf
  <1>4. ASSUME NEW j \in 1..L, FallsIn(n, j)
        PROVE  a[L] = b[L] + (s[j].price + IF FallsIn(n - 1, j) THEN 0 ELSE s[j].fee)
    <2> DEFINE c == s[j].price + IF FallsIn(n - 1, j) THEN 0 ELSE s[j].fee
    <2>1. c \in Int
      BY <1>2
    <2>2. DueOf(s, j, n) = DueOf(s, j, n - 1) + c
      <3> DEFINE share == Share(j, n - 1)
                 p == s[j].price
                 fee == s[j].fee
      <3>1. /\ share \in Nat /\ Share(j, n) = share + 1 /\ p \in Nat /\ fee \in Nat
            /\ share > 0 <=> FallsIn(n - 1, j)
        BY <1>2, <1>4, ShareOfUnit
      <3>2. DueOf(s, j, n) = (share + 1) * p + IF share + 1 > 0 THEN fee ELSE 0
        BY <3>1 DEF DueOf
      <3>3. DueOf(s, j, n - 1) = share * p + IF share > 0 THEN fee ELSE 0
        BY DEF DueOf
      <3>4. c = p + IF share > 0 THEN 0 ELSE fee
        BY <3>1
      <3> HIDE DEF share, p, fee, c
      <3>5. (share + 1) * p = share * p + p /\ share * p \in Nat
        <4>1. \A x, y \in Nat : (x + 1) * y = x * y + y /\ x * y \in Nat
          OBVIOUS
        <4> QED BY <3>1, <4>1
      <3> QED BY <3>1, <3>2, <3>3, <3>4, <3>5
    <2> HIDE DEF c
    <2>3. \A i \in 1..L : DueOf(s, i, n) = DueOf(s, i, n - 1) + IF i = j THEN c ELSE 0
      <3> SUFFICES ASSUME NEW i \in 1..L
                   PROVE  DueOf(s, i, n) = DueOf(s, i, n - 1) + IF i = j THEN c ELSE 0
        OBVIOUS
      <3>1. CASE i = j
        BY <2>2, <3>1
      <3>2. CASE i # j
        <4>1. ~FallsIn(n, i)
          BY <1>4, <3>2, OneTier
        <4> QED BY <1>2, <1>3, <3>2, <4>1
      <3> QED BY <3>1, <3>2
    <2>4. DifferInTerm(a, b, L, j, c)
      <3>1. /\ a[0] = b[0] /\ \A i \in 0..L : a[i] \in Int /\ b[i] \in Int
            /\ \A i \in 1..L : /\ a[i] = a[i - 1] + DueOf(s, i, n)
                                /\ b[i] = b[i - 1] + DueOf(s, i, n - 1)
        BY DEF Sums
      <3>2. ASSUME NEW i \in 1..L
            PROVE  a[i] - a[i - 1] = b[i] - b[i - 1] + IF i = j THEN c ELSE 0
        <4> DEFINE was == DueOf(s, i, n - 1)
                   more == IF i = j THEN c ELSE 0
        <4>1. i \in 0..L /\ i - 1 \in 0..L
          BY <1>1
        <4>2. /\ a[i] \in Int /\ a[i - 1] \in Int /\ b[i] \in Int /\ b[i - 1] \in Int
              /\ was \in Int /\ more \in Int
          BY <1>2, <2>1, <3>1, <4>1
        <4>3. a[i] = a[i - 1] + (was + more) /\ b[i] = b[i - 1] + was
          BY <2>3, <3>1
        <4> HIDE DEF was, more
        <4>4. a[i] - a[i - 1] = b[i] - b[i - 1] + more
          BY <4>2, <4>3
        <4> QED BY <4>4 DEF more
      <3> QED BY <2>1, <3>1, <3>2 DEF DifferInTerm
    <2>5. a[L] = b[L] + c
      BY <1>1, <2>4, TotalsDiffer
    <2> QED BY <2>5 DEF c
  <1>5. ASSUME \A j \in 1..L : ~FallsIn(n, j) PROVE a[L] = b[L]
    BY <1>3, <1>5, SameSums
  <1> QED BY <1>4, <1>5

\* No unit costs nothing.
LEMMA NothingForNoUnits ==
    ASSUME tiers \in StoredTiers, NEW s, AsWide(s), NEW a, Sums(a, s, 0)
    PROVE  a[Len(tiers)] = 0
  <1> DEFINE L == Len(tiers)
  <1>1. L \in Nat
    BY TiersShape
  <1>2. ASSUME NEW i \in 1..L PROVE DueOf(s, i, 0) = 0
    <2>1. i - 1 \in 0..L /\ i \in 0..L
      BY <1>1
    <2>2. EndOf[i - 1] \in Nat /\ EndOf[i] \in Nat
      BY <2>1, EndsShape
    <2>3. Share(i, 0) = 0
      BY <2>2 DEF Share, UpTo
    <2>4. s[i].price \in Nat
      BY TierNumbers DEF AsWide
    <2> QED BY <2>3, <2>4 DEF DueOf
  <1>3. a[0] \in {0} /\ \A i \in 1..L : a[i - 1] \in {0} => a[i] \in {0}
    BY <1>2 DEF Sums
  <1>4. \A i \in 0..L : a[i] \in {0}
    BY <1>1, <1>3, LoopKeepsType
  <1> QED BY <1>1, <1>4

LEMMA LedgerIsGraduated ==
    ASSUME tiers \in StoredTiers, units \in 0..MaxUnits
    PROVE  LedgerCostIsGraduated
  <1> DEFINE L == Len(tiers)
             a == CostSoFar(tiers, units)
             b == CostSoFar(tiers, units - 1)
  <1>1. AsWide(tiers) /\ DOMAIN tiers = 1..L
    BY TiersShape DEF AsWide
  <1>2. Sums(a, tiers, units) /\ ComputeCost(tiers, units) = a[L]
    BY <1>1, CostRounds
  <1>3. CASE units = 0
    <2>1. a[L] = 0
      BY <1>1, <1>2, <1>3, NothingForNoUnits
    <2> QED BY <1>2, <1>3, <2>1 DEF LedgerCostIsGraduated
  <1>4. CASE units # 0
    <2>1. units \in Nat \ {0} /\ units - 1 \in 0..MaxUnits
      BY <1>4, PricingAssumption DEF PricingAssumption
    <2>2. Sums(b, tiers, units - 1) /\ ComputeCost(tiers, units - 1) = b[L]
      BY <1>1, <2>1, CostRounds
    <2>3. a[L] \in Int /\ b[L] \in Int
      <3>1. L \in 0..L
        BY TiersShape
      <3> QED BY <1>2, <2>2, <3>1 DEF Sums
    <2>4. \A j \in 1..L : tiers[j].price \in Nat /\ tiers[j].fee \in Nat
      BY TiersShape, TierNumbers
    <2> HIDE DEF a, b, L
    <2>5. \A j \in 1..L : FallsIn(units, j) =>
            a[L] - b[L] = tiers[j].price + IF FallsIn(units - 1, j) THEN 0 ELSE tiers[j].fee
      <3> SUFFICES ASSUME NEW j \in 1..L, FallsIn(units, j)
                   PROVE  a[L] - b[L] = tiers[j].price + IF FallsIn(units - 1, j) THEN 0 ELSE tiers[j].fee
        OBVIOUS
      <3> DEFINE c == tiers[j].price + IF FallsIn(units - 1, j) THEN 0 ELSE tiers[j].fee
      <3>1. a[L] = b[L] + c
        BY <1>1, <1>2, <2>1, <2>2, UnitByUnit DEF L
      <3>2. c \in Int
        BY <2>4
      <3> HIDE DEF c
      <3>3. a[L] - b[L] = c
        BY <2>3, <3>1, <3>2
      <3> QED BY <3>3 DEF c
    <2>6. (\A j \in 1..L : ~FallsIn(units, j)) => a[L] - b[L] = 0
      <3>1. (\A j \in 1..L : ~FallsIn(units, j)) => a[L] = b[L]
        BY <1>1, <1>2, <2>1, <2>2, UnitByUnit DEF L
      <3> QED BY <2>3, <3>1
    <2> QED BY <1>1, <1>2, <1>4, <2>2, <2>5, <2>6 DEF LedgerCostIsGraduated
  <1> QED BY <1>3, <1>4

-----------------------------------------------------------------------------
(* The calculator and the ladder, on tiers that say where they end.        *)

LEMMA FeelessIsAsWide ==
    ASSUME tiers \in StoredTiers
    PROVE  /\ AsWide(WithoutFees)
           /\ \A i \in 1..Len(tiers) : /\ WithoutFees[i].price = tiers[i].price
                                        /\ tiers[i].price \in Nat
           /\ \A i \in 1..Len(tiers), n \in Nat : DueOf(WithoutFees, i, n) = Share(i, n) * tiers[i].price
  <1> DEFINE s == WithoutFees
             L == Len(tiers)
  <1>1. L \in Nat /\ DOMAIN tiers = 1..L /\ \A i \in 1..L : tiers[i] \in AnyTier
    BY TiersShape
  <1>2. s = [i \in 1..L |-> [tiers[i] EXCEPT !.fee = 0]]
    BY <1>1 DEF WithoutFees
  <1> HIDE DEF s, L
  <1>3. \A i \in 1..L : /\ s[i] \in AnyTier /\ s[i].upTo = tiers[i].upTo
                        /\ s[i].price = tiers[i].price /\ s[i].fee = 0
    BY <1>1, <1>2 DEF AnyTier
  <1>4. s \in Seq(AnyTier) /\ Len(s) = L
    BY <1>1, <1>2, <1>3
  <1>5. AsWide(s)
    BY <1>3, <1>4 DEF AsWide, L
  <1>6. ASSUME NEW i \in 1..L, NEW n \in Nat PROVE DueOf(s, i, n) = Share(i, n) * tiers[i].price
    <2>1. Share(i, n) * s[i].price \in Nat
      BY <1>5, DueIsNumber DEF L
    <2> QED BY <1>3, <2>1 DEF DueOf
  <1> QED BY <1>1, <1>3, <1>5, <1>6, TierNumbers DEF s, L

LEMMA ByEndsShape ==
    ASSUME tiers \in StoredTiers
    PROVE  /\ ByEnds \in Seq(AnyTier) /\ Len(ByEnds) = Len(tiers) /\ DOMAIN ByEnds = 1..Len(tiers)
           /\ \A i \in 1..Len(tiers) :
                /\ ByEnds[i] \in AnyTier /\ ByEnds[i].price = tiers[i].price
                /\ ByEnds[i].upTo = IF tiers[i].upTo = Unbounded THEN Unbounded ELSE EndOf[i]
  <1> DEFINE s == ByEnds
             L == Len(tiers)
  <1>1. L \in Nat /\ DOMAIN tiers = 1..L /\ \A i \in 1..L : tiers[i] \in AnyTier
    BY TiersShape
  <1>2. \A i \in 1..L : EndOf[i] \in Nat
    BY <1>1, EndsShape
  <1>3. s = [i \in 1..L |-> IF tiers[i].upTo = Unbounded THEN tiers[i]
                            ELSE [tiers[i] EXCEPT !.upTo = EndOf[i]]]
    BY <1>1 DEF ByEnds
  <1> HIDE DEF s, L
  <1>4. \A i \in 1..L : /\ s[i] \in AnyTier /\ s[i].price = tiers[i].price
                        /\ s[i].upTo = IF tiers[i].upTo = Unbounded THEN Unbounded ELSE EndOf[i]
    BY <1>1, <1>2, <1>3 DEF AnyTier
  <1>5. s \in Seq(AnyTier) /\ Len(s) = L /\ DOMAIN s = 1..L
    BY <1>1, <1>3, <1>4
  <1> QED BY <1>4, <1>5 DEF s, L

Quote == [left : Int, consumed : Int, total : Int]

QuoteLoop(n) == After(CalculateCostTier, [left |-> n, consumed |-> 0, total |-> 0], ByEnds)

LEMMA CalculateCostRuns ==
    ASSUME NEW s \in Seq(AnyTier), NEW n \in Nat
    PROVE  LET f == After(CalculateCostTier, [left |-> n, consumed |-> 0, total |-> 0], s)
           IN  /\ f \in [0..Len(s) -> Quote]
               /\ f[0] = [left |-> n, consumed |-> 0, total |-> 0]
               /\ \A i \in 1..Len(s) : f[i] = CalculateCostTier(f[i - 1], s[i])
  <1> DEFINE first == [left |-> n, consumed |-> 0, total |-> 0]
             round == [i \in 1..Len(s) |-> [acc \in Quote |-> CalculateCostTier(acc, s[i])]]
             f == After(CalculateCostTier, first, s)
  <1>1. ASSUME NEW acc \in Quote, NEW t \in AnyTier PROVE CalculateCostTier(acc, t) \in Quote
    <2>1. /\ acc.left \in Int /\ acc.total \in Int /\ acc.consumed \in Int /\ t.price \in Int
          /\ t.upTo # Unbounded => t.upTo \in Int
      BY TierNumbers DEF Quote
    <2> DEFINE inTier == IF t.upTo = Unbounded THEN acc.left
                         ELSE Min({acc.left, t.upTo - acc.consumed})
    <2>2. inTier \in Int
      <3>1. t.upTo # Unbounded => t.upTo - acc.consumed \in Int
        BY <2>1
      <3> QED BY <2>1, <3>1, LesserOfTwo
    <2> HIDE DEF inTier
    <2>3. CalculateCostTier(acc, t) =
            IF acc.left <= 0 THEN acc
            ELSE [left |-> acc.left - inTier, consumed |-> acc.consumed + inTier,
                  total |-> acc.total + inTier * t.price]
      BY DEF CalculateCostTier, inTier
    <2> QED BY <2>1, <2>2, <2>3 DEF Quote
  <1>2. first \in Quote /\ Len(s) \in Nat /\ \A i \in 1..Len(s) : s[i] \in AnyTier
    BY DEF Quote
  <1>3. round \in [1..Len(s) -> [Quote -> Quote]]
    BY <1>1, <1>2
  <1>4. PICK g : Runs(g, Len(s), Quote, first, round)
    <2> HIDE DEF round, first
    <2> QED BY <1>2, <1>3, LoopRuns
  <1>5. ASSUME NEW i \in 0..Len(s)
        PROVE  g[i] = IF i = 0 THEN first ELSE CalculateCostTier(g[i - 1], s[i])
    <2>1. i = 0 \/ (i \in 1..Len(s) /\ i - 1 \in 0..Len(s))
      <3> HIDE DEF first, round, f
      <3> QED BY <1>2
    <2>2. CASE i \in 1..Len(s) /\ i - 1 \in 0..Len(s)
      <3>1. g[i - 1] \in Quote /\ g[i] = round[i][g[i - 1]]
        BY <1>4, <2>2 DEF Runs
      <3> QED BY <2>2, <3>1
    <2> QED BY <1>4, <2>1, <2>2 DEF Runs
  <1>6. g \in [0..Len(s) -> Quote]
    BY <1>4 DEF Runs
  <1>7. f = [i \in 0..Len(s) |-> IF i = 0 THEN first ELSE CalculateCostTier(f[i - 1], s[i])]
    <2> HIDE DEF first
    <2>1. g = [i \in 0..Len(s) |-> IF i = 0 THEN first ELSE CalculateCostTier(g[i - 1], s[i])]
      BY <1>5, <1>6
    <2> QED BY <2>1 DEF After
  <1>8. f \in [0..Len(s) -> Quote]
    <2> HIDE DEF first, f
    <2>1. f[0] \in Quote
      BY <1>2, <1>7
    <2>2. ASSUME NEW i \in 1..Len(s), f[i - 1] \in Quote PROVE f[i] \in Quote
      <3>1. i \in 0..Len(s) /\ i # 0
        BY <1>2
      <3> QED BY <1>1, <1>2, <1>7, <2>2, <3>1
    <2>3. \A i \in 0..Len(s) : f[i] \in Quote
      BY <1>2, <2>1, <2>2, LoopKeepsType
    <2> QED BY <1>7, <2>3
  <1>9. \A i \in 1..Len(s) : i \in 0..Len(s) /\ i # 0
    BY <1>2
  <1>10. 0 \in 0..Len(s)
    BY <1>2
  <1> HIDE DEF first, f
  <1>11. f[0] = first /\ \A i \in 1..Len(s) : f[i] = CalculateCostTier(f[i - 1], s[i])
    BY <1>7, <1>9, <1>10
  <1> QED BY <1>8, <1>11 DEF f, first

\* So does a round of calculateCost, by the end of the tier.
LEMMA QuoteOfTier ==
    ASSUME tiers \in StoredTiers, NEW n \in 0..MaxUnits, NEW i \in 1..Len(tiers), NEW acc \in Quote,
           acc.left = n - UpTo(n, EndOf[i - 1]), acc.consumed = n - acc.left
    PROVE  LET next == CalculateCostTier(acc, ByEnds[i])
           IN  /\ next.left = n - UpTo(n, EndOf[i]) /\ next.consumed = n - next.left
               /\ next.total = acc.total + DueOf(WithoutFees, i, n)
  <1> DEFINE t == ByEnds[i]
             lo == EndOf[i - 1]
             hi == EndOf[i]
             inTier == IF t.upTo = Unbounded THEN acc.left ELSE Min({acc.left, t.upTo - acc.consumed})
             next == CalculateCostTier(acc, t)
             share == Share(i, n)
             p == tiers[i].price
  <1>1. /\ MaxUnits \in Nat /\ n \in Nat /\ n <= MaxUnits
        /\ acc.left \in Int /\ acc.consumed \in Int /\ acc.total \in Int
    BY PricingAssumption DEF PricingAssumption, Quote
  <1>2. /\ lo \in Nat /\ hi \in Nat /\ lo <= hi
        /\ tiers[i].upTo = Unbounded => hi = lo + MaxUnits
    <2>1. i - 1 \in 0..Len(tiers) /\ i \in 0..Len(tiers)
      BY TiersShape
    <2> QED BY <2>1, EndsShape DEF Width
  <1>3. /\ t.price = p /\ p \in Nat /\ Unbounded \notin Nat
        /\ t.upTo = IF tiers[i].upTo = Unbounded THEN Unbounded ELSE hi
    BY ByEndsShape, FeelessIsAsWide, PricingAssumption DEF PricingAssumption
  <1>4. /\ DueOf(WithoutFees, i, n) = share * p /\ share = UpTo(n, hi) - UpTo(n, lo)
        /\ acc.left = n - UpTo(n, lo)
    BY <1>1, FeelessIsAsWide DEF Share
  <1>5. next = IF acc.left <= 0 THEN acc
               ELSE [left |-> acc.left - inTier, consumed |-> acc.consumed + inTier,
                     total |-> acc.total + inTier * p]
    BY <1>3 DEF CalculateCostTier
  <1> HIDE DEF t, next, lo, hi, inTier, share, p
  <1>6. CASE acc.left <= 0
    <2>1. UpTo(n, hi) = n /\ UpTo(n, lo) = n
      BY <1>1, <1>2, <1>4, <1>6 DEF UpTo
    <2>2. share = 0 /\ share * p = 0
      BY <1>1, <1>3, <1>4, <2>1
    <2> QED BY <1>1, <1>4, <1>5, <1>6, <2>1, <2>2 DEF next, t, hi
  <1>7. CASE ~ (acc.left <= 0)
    <2>1. UpTo(n, lo) = lo /\ acc.left = n - lo /\ acc.consumed = lo
      BY <1>1, <1>2, <1>4, <1>7 DEF UpTo
    <2>2. inTier = share
      <3>1. CASE tiers[i].upTo = Unbounded
        <4>1. inTier = acc.left
          BY <1>3, <3>1 DEF inTier
        <4>2. UpTo(n, hi) = n
          BY <1>1, <1>2, <3>1 DEF UpTo
        <4> QED BY <1>4, <2>1, <4>1, <4>2
      <3>2. CASE tiers[i].upTo # Unbounded
        <4>1. inTier = Min({acc.left, hi - acc.consumed})
          BY <1>2, <1>3, <3>2 DEF inTier
        <4>2. inTier = IF n - lo <= hi - lo THEN n - lo ELSE hi - lo
          BY <1>1, <1>2, <2>1, <4>1, LesserOfTwo
        <4> QED BY <1>1, <1>2, <1>4, <2>1, <4>2 DEF UpTo
      <3> QED BY <3>1, <3>2
    <2>3. share \in Int /\ UpTo(n, hi) \in Int
      BY <1>1, <1>2, <1>4 DEF UpTo
    <2>4. /\ next.left = acc.left - share /\ next.consumed = acc.consumed + share
          /\ next.total = acc.total + share * p
      BY <1>5, <1>7, <2>2
    <2>5. next.left = n - UpTo(n, hi) /\ next.consumed = n - next.left
      <3>1. share = UpTo(n, hi) - lo
        BY <1>4, <2>1
      <3>2. next.left = (n - lo) - (UpTo(n, hi) - lo) /\ next.consumed = lo + (UpTo(n, hi) - lo)
        BY <2>1, <2>4, <3>1
      <3>3. n \in Int /\ lo \in Int /\ UpTo(n, hi) \in Int
        BY <1>1, <1>2, <2>3
      <3> QED BY <3>2, <3>3
    <2> QED BY <1>4, <2>4, <2>5 DEF next, t, hi
  <1> QED BY <1>6, <1>7

QuotedSoFar(n) == [i \in 0..Len(tiers) |-> QuoteLoop(n)[i].total]

LEMMA QuoteRounds ==
    ASSUME tiers \in StoredTiers, NEW n \in 0..MaxUnits
    PROVE  /\ Sums(QuotedSoFar(n), WithoutFees, n)
           /\ CalculateCost(ByEnds, n) = QuotedSoFar(n)[Len(tiers)]
  <1> DEFINE f == QuoteLoop(n)
             L == Len(tiers)
             S == {i \in 0..L : f[i].left = n - UpTo(n, EndOf[i]) /\ f[i].consumed = n - f[i].left}
  <1>1. /\ f \in [0..L -> Quote] /\ f[0] = [left |-> n, consumed |-> 0, total |-> 0]
        /\ \A i \in 1..L : f[i] = CalculateCostTier(f[i - 1], ByEnds[i])
        /\ L \in Nat /\ n \in Nat
    <2>1. n \in Nat
      BY PricingAssumption DEF PricingAssumption
    <2> QED BY <2>1, TiersShape, ByEndsShape, CalculateCostRuns DEF QuoteLoop
  <1>2. EndOf[0] = 0
    BY EndsShape
  <1>3. ASSUME NEW i \in 1..L, i - 1 \in S
        PROVE  i \in S /\ f[i].total = f[i - 1].total + DueOf(WithoutFees, i, n)
    <2>1. i - 1 \in 0..L /\ i \in 0..L
      BY <1>1
    <2>2. /\ f[i - 1] \in Quote /\ f[i - 1].left = n - UpTo(n, EndOf[i - 1])
          /\ f[i - 1].consumed = n - f[i - 1].left
      BY <1>1, <1>3, <2>1
    <2>3. f[i] = CalculateCostTier(f[i - 1], ByEnds[i])
      BY <1>1
    <2> HIDE DEF f
    <2> QED BY <2>1, <2>2, <2>3, QuoteOfTier
  <1>4. 0..L \subseteq S
    <2>1. 0 \in S
      BY <1>1, <1>2 DEF UpTo
    <2> HIDE DEF S, L
    <2>2. \A i \in 1..L : i - 1 \in S => i \in S
      BY <1>3
    <2> QED BY <1>1, <2>1, <2>2, RoundByRound
  <1>5. \A i \in 1..L : i - 1 \in S /\ i - 1 \in 0..L /\ i \in 0..L
    <2> HIDE DEF S
    <2> QED BY <1>1, <1>4
  <1>6. f[0].total = 0 /\ 0 \in 0..L /\ L \in 0..L /\ \A i \in 0..L : f[i].total \in Int
    BY <1>1 DEF Quote
  <1>7. CalculateCost(ByEnds, n) = f[L].total
    BY ByEndsShape DEF CalculateCost, QuoteLoop
  <1> HIDE DEF S
  <1> QED BY <1>3, <1>5, <1>6, <1>7 DEF QuotedSoFar, Sums

LEMMA GreaterOfTwo ==
    ASSUME NEW a \in Int, NEW b \in Int
    PROVE  Max({a, b}) = IF a >= b THEN a ELSE b
  BY DEF Max

\* And a rung of the ladder.
LEMMA RungIsTier ==
    ASSUME tiers \in StoredTiers, LadderCovers, units \in Nat, NEW i \in 1..Len(tiers)
    PROVE  InRung(Ladder(ByEnds)[i], units) = DueOf(WithoutFees, i, units)
  <1> DEFINE rung == Ladder(ByEnds)[i]
             lo == EndOf[i - 1]
             hi == EndOf[i]
             to == IF rung.to = Unbounded THEN units ELSE Min({units, rung.to})
             p == tiers[i].price
  <1>1. Len(tiers) \in Nat /\ i \in 1..Len(tiers) /\ Unbounded \notin Nat
    BY TiersShape, PricingAssumption DEF PricingAssumption
  <1>2. lo \in Nat /\ hi \in Nat /\ lo <= hi /\ (i = 1 => lo = 0)
    <2>1. i - 1 \in 0..Len(tiers) /\ i \in 0..Len(tiers)
      BY <1>1
    <2> QED BY <2>1, EndsShape
  <1>3. rung = [from |-> IF i = 1 THEN 1 ELSE ByEnds[i - 1].upTo + 1, to |-> ByEnds[i].upTo,
                price |-> ByEnds[i].price]
    BY ByEndsShape DEF Ladder
  <1>4. rung.price = p /\ rung.to = IF tiers[i].upTo = Unbounded THEN Unbounded ELSE hi
    BY <1>3, ByEndsShape
  <1>5. rung.from = lo + 1
    <2>1. CASE i = 1
      BY <1>2, <1>3, <2>1
    <2>2. CASE i # 1
      <3>1. i - 1 \in 1..(Len(tiers) - 1) /\ i - 1 \in 1..Len(tiers)
        BY <1>1, <2>2
      <3>2. ByEnds[i - 1].upTo = lo
        BY <3>1, ByEndsShape DEF LadderCovers
      <3> QED BY <1>3, <2>2, <3>2
    <2> QED BY <2>1, <2>2
  <1>6. tiers[i].upTo = Unbounded => units <= hi
    <2>1. i = Len(tiers) \/ i \in 1..(Len(tiers) - 1)
      BY <1>1
    <2> QED BY <2>1 DEF LadderCovers
  <1>7. DueOf(WithoutFees, i, units) = Share(i, units) * p /\ Share(i, units) = UpTo(units, hi) - UpTo(units, lo)
    BY FeelessIsAsWide DEF Share
  <1> HIDE DEF rung, lo, hi, p
  <1>8. to = UpTo(units, hi)
    <2>1. CASE tiers[i].upTo = Unbounded
      BY <1>4, <1>6, <2>1 DEF UpTo
    <2>2. CASE tiers[i].upTo # Unbounded
      <3>1. to = Min({units, hi})
        BY <1>1, <1>2, <1>4, <2>2
      <3> QED BY <1>2, <3>1, LesserOfTwo DEF UpTo
    <2> QED BY <2>1, <2>2
  <1> HIDE DEF to
  <1>9. Max({0, to - rung.from + 1}) = UpTo(units, hi) - UpTo(units, lo)
    <2>1. to \in Int /\ to - rung.from + 1 = to - lo
      BY <1>2, <1>5, <1>8 DEF UpTo
    <2>2. Max({0, to - lo}) = IF 0 >= to - lo THEN 0 ELSE to - lo
      BY <1>2, <2>1, GreaterOfTwo
    <2>3. Max({0, to - rung.from + 1}) = Max({0, to - lo})
      BY <2>1
    <2>4. to - lo = UpTo(units, hi) - lo
      BY <1>8
    <2>5. (IF 0 >= UpTo(units, hi) - lo THEN 0 ELSE UpTo(units, hi) - lo)
            = UpTo(units, hi) - UpTo(units, lo)
      BY <1>2 DEF UpTo
    <2> QED BY <2>2, <2>3, <2>4, <2>5
  <1>10. InRung(rung, units) = Max({0, to - rung.from + 1}) * rung.price
    BY DEF InRung, to
  <1> QED BY <1>4, <1>7, <1>9, <1>10 DEF rung

LadderLoop(n) == After(LAMBDA total, rung : total + InRung(rung, n), 0, Ladder(ByEnds))

LEMMA LadderRounds ==
    ASSUME tiers \in StoredTiers, LadderCovers, units \in Nat
    PROVE  Sums(LadderLoop(units), WithoutFees, units) /\ Len(Ladder(ByEnds)) = Len(tiers)
  <1> DEFINE L == Len(tiers)
             due == [i \in 1..L |-> DueOf(WithoutFees, i, units)]
             round == [i \in 1..L |-> [a \in Int |-> a + due[i]]]
             ladder == Ladder(ByEnds)
             f == LadderLoop(units)
  <1>1. L \in Nat /\ DOMAIN ByEnds = 1..L
    BY TiersShape, ByEndsShape
  <1>2. Len(ladder) = L
    <2>1. ladder = [i \in 1..L |-> ladder[i]]
      BY <1>1 DEF Ladder
    <2> HIDE DEF ladder, L
    <2> QED BY <1>1, <2>1
  <1>3. \A i \in 1..L : due[i] \in Int /\ InRung(ladder[i], units) = due[i]
    BY FeelessIsAsWide, DueIsNumber, RungIsTier
  <1>4. \A i \in 1..L : due[i] = DueOf(WithoutFees, i, units)
    OBVIOUS
  <1> HIDE DEF L, ladder, due
  <1>5. PICK g : Runs(g, L, Int, 0, round)
    <2>1. round \in [1..L -> [Int -> Int]]
      BY <1>3
    <2>2. 0 \in Int
      OBVIOUS
    <2> HIDE DEF round
    <2> QED BY <1>1, <2>1, <2>2, LoopRuns
  <1>6. g = [i \in 0..L |-> IF i = 0 THEN 0 ELSE g[i - 1] + InRung(ladder[i], units)]
    <2>1. ASSUME NEW i \in 0..L PROVE g[i] = IF i = 0 THEN 0 ELSE g[i - 1] + InRung(ladder[i], units)
      <3>1. i = 0 \/ (i \in 1..L /\ i - 1 \in 0..L)
        BY <1>1
      <3>2. CASE i \in 1..L /\ i - 1 \in 0..L
        <4>1. g[i] = round[i][g[i - 1]] /\ g[i - 1] \in Int
          BY <1>5, <3>2 DEF Runs
        <4> QED BY <1>3, <3>2, <4>1
      <3> QED BY <1>5, <3>1, <3>2 DEF Runs
    <2> QED BY <1>5, <2>1 DEF Runs
  <1>7. f = [i \in 0..L |-> IF i = 0 THEN 0 ELSE f[i - 1] + InRung(ladder[i], units)]
    BY <1>2, <1>6 DEF After, LadderLoop, ladder
  <1> HIDE DEF f
  <1>8. f[0] = 0 /\ \A i \in 1..L : f[i] = f[i - 1] + due[i]
    <2>1. 0 \in 0..L /\ \A i \in 1..L : i \in 0..L /\ i # 0
      BY <1>1
    <2> QED BY <1>3, <1>7, <2>1
  <1>9. \A i \in 0..L : f[i] \in Int
    <2>1. \A i \in 1..L : f[i - 1] \in Int => f[i] \in Int
      BY <1>3, <1>8
    <2>2. f[0] \in Int
      BY <1>8
    <2> QED BY <1>1, <2>1, <2>2, LoopKeepsType
  <1> QED BY <1>2, <1>4, <1>7, <1>8, <1>9 DEF Sums, f, L, ladder

LEMMA TheLoopsAgree ==
    ASSUME tiers \in StoredTiers, units \in 0..MaxUnits
    PROVE  LoopsAgree
  <1> DEFINE L == Len(tiers)
             a == CostSoFar(WithoutFees, units)
             b == QuotedSoFar(units)
             c == LadderLoop(units)
  <1>1. Sums(a, WithoutFees, units) /\ ComputeCost(WithoutFees, units) = a[L]
    BY FeelessIsAsWide, CostRounds
  <1>2. Sums(b, WithoutFees, units) /\ CalculateCost(ByEnds, units) = b[L]
    BY QuoteRounds
  <1>3. LadderCovers => Sums(c, WithoutFees, units) /\ LadderTotal(Ladder(ByEnds), units) = c[L]
    <2>1. units \in Nat
      BY PricingAssumption DEF PricingAssumption
    <2> QED BY <2>1, LadderRounds DEF LadderTotal, LadderLoop
  <1> HIDE DEF a, b, c, L
  <1>4. b[L] = a[L] /\ (LadderCovers => c[L] = a[L])
    BY <1>1, <1>2, <1>3, SameSums DEF L
  <1> QED BY <1>1, <1>2, <1>3, <1>4 DEF LoopsAgree

\* Whatever tiers are stored and however many units there are, the ledger charges each unit the price
\* of the tier it falls in and a fee for each tier entered, and nothing beyond the last; quote and
\* volume ladder, on the same tiers written by their ends, compute the same but for the fees
\* (computeCost.ts:33-55, costCalculationService.ts:61-87, launchkitPricingService.ts:138-159).
THEOREM LoopsPriceGraduated == PricingSpec => []PricesAreGraduated
  <1>1. PricingInit => PricingTypeOK
    BY PricingAssumption DEF PricingInit, PricingTypeOK, PricingAssumption
  <1>2. PricingTypeOK /\ [Meter]_pricingVars => PricingTypeOK'
    BY PricingAssumption DEF PricingTypeOK, Meter, pricingVars, StoredTiers, PricingAssumption
  <1>3. PricingTypeOK => PricesAreGraduated
    BY LedgerIsGraduated, TheLoopsAgree DEF PricesAreGraduated, PricingTypeOK
  <1> QED BY <1>1, <1>2, <1>3, PTL DEF PricingSpec
================================================================================
