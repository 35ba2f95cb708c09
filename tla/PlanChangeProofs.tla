---------------------------- MODULE PlanChangeProofs ----------------------------
(***************************************************************************)
(* Proof that the ledger of plan changes calls applied only what Stripe    *)
(* has charged, and that a subscriber is grandfathered once per plan, for  *)
(* any plans, any number of overlapping changes, archivings and jobs, and  *)
(* whatever the order of events and retries.                               *)
(***************************************************************************)
EXTENDS PlanChange, FiniteSetTheorems, SequenceTheorems, TLAPS

-----------------------------------------------------------------------------
(* Types.                                                                  *)

Price == Plans \cup {Inline}
ScheduleState == [phase : {"none", "mirror", "next", "last"}, price : Price \cup {NoPrice}]
LedgerRow == [plan : Plans, target : Plans \cup {NoPrice}, grandfathered : BOOLEAN,
              applied : BOOLEAN]
CallState == [at : {"idle", "immediate", "applied", "next_cycle", "phases", "scheduled", "done",
                    "failed"},
              plan : Plans \cup {NoPrice}]
Job == [kind : {"confirm", "grandfather"}, about : Price, id : Nat,
        at : {"start", "apply", "plan", "check", "insert", "end"},
        row : 0..Len(ledger), stalled : BOOLEAN]
Underway == {"immediate", "applied", "next_cycle", "phases", "scheduled"}

\* A call under way has a plan, and a second phase has a price.
PlansNamed ==
    /\ \A c \in Changes : call[c].at \in Underway => call[c].plan \in Plans
    /\ schedule.phase = "next" => schedule.price \in Price

\* A grandfathering job is about a plan; a confirming job that has read a row has the row of its
\* price, though the ledger may have grown since.
JobsNamed ==
    \A j \in planJobs :
        /\ j.kind = "grandfather" => j.about \in Plans
        /\ j.kind = "confirm" /\ j.at \in {"apply", "plan"} =>
                j.row \in 1..Len(ledger) /\ ledger[j.row].target = j.about

\* There are finitely many events, jobs and archivings, so that a new one gets an id of its own.
PlanFinite == IsFiniteSet(events) /\ IsFiniteSet(planJobs) /\ IsFiniteSet(archiving)

PlanTypeInv == PlanTypeOK /\ PlansNamed /\ JobsNamed /\ PlanFinite

\* PlanTypeOK in the names of this module.
LEMMA PlanTypes ==
    PlanTypeOK <=>
       /\ active \subseteq Plans
       /\ item \in Price /\ charged \subseteq Price
       /\ schedule \in ScheduleState
       /\ events \subseteq [id : Nat, price : Price]
       /\ priceRow \in Price /\ planRow \in Plans
       /\ ledger \in Seq(LedgerRow)
       /\ call \in [Changes -> CallState]
       /\ planJobs \subseteq Job
       /\ archiving \subseteq [plan : Plans, id : Nat]
  BY DEF PlanTypeOK, Price, ScheduleState, LedgerRow, CallState, Job

\* An id that nothing has: there are more numbers up to the size of a set than elements in it.
LEMMA FreshIsNew ==
    ASSUME NEW S, IsFiniteSet(S)
    PROVE  FreshIn(S) \in Nat /\ \A x \in S : x.id # FreshIn(S)
  <1> DEFINE Ids == 0..Cardinality(S)
             f == [n \in Ids |-> CHOOSE x \in S : x.id = n]
  <1>1. Cardinality(S) \in Nat
    BY FS_CardinalityType
  <1>2. IsFiniteSet(Ids) /\ Cardinality(Ids) = Cardinality(S) + 1
    BY <1>1, FS_Interval
  <1>3. \E n \in Ids : \A x \in S : x.id # n
    <2> SUFFICES ASSUME \A n \in Ids : \E x \in S : x.id = n
                 PROVE  FALSE
      OBVIOUS
    <2>1. f \in [Ids -> S] /\ \A n \in Ids : f[n].id = n
      OBVIOUS
    <2>2. Cardinality(S) < Cardinality(Ids)
      BY <1>1, <1>2
    <2> HIDE DEF Ids, f
    <2>3. \E m, n \in Ids : m # n /\ f[m] = f[n]
      BY <1>2, <2>1, <2>2, FS_PigeonHole
    <2> QED  BY <2>1, <2>3
  <1>4. FreshIn(S) \in Ids /\ \A x \in S : x.id # FreshIn(S)
    BY <1>3 DEF FreshIn
  <1> QED  BY <1>1, <1>4

\* The ledger grows by a row: the others stay where and as they are.
LEMMA LedgerGrows ==
    ASSUME ledger \in Seq(LedgerRow), NEW r \in LedgerRow, ledger' = Append(ledger, r)
    PROVE  /\ ledger' \in Seq(LedgerRow)
           /\ Len(ledger) \in Nat /\ Len(ledger') = Len(ledger) + 1
           /\ ledger'[Len(ledger) + 1] = r
           /\ \A i \in 1..Len(ledger) : ledger'[i] = ledger[i]
           /\ Job \subseteq Job'
  <1>1. /\ ledger' \in Seq(LedgerRow) /\ Len(ledger) \in Nat /\ Len(ledger') = Len(ledger) + 1
        /\ ledger'[Len(ledger) + 1] = r
        /\ \A i \in 1..Len(ledger) : ledger'[i] = ledger[i]
    BY AppendProperties, LenProperties
  <1>2. 0..Len(ledger) \subseteq 0..Len(ledger')
    BY <1>1
  <1> QED  BY <1>1, <1>2 DEF Job, Price

\* The rows that are added are rows.
LEMMA NewRows ==
    ASSUME NEW p \in Plans, NEW t \in Plans \cup {NoPrice}, NEW g \in BOOLEAN, NEW a \in BOOLEAN
    PROVE  /\ Row(p, t, g, a) \in LedgerRow
           /\ Row(p, t, g, a).plan = p /\ Row(p, t, g, a).target = t
           /\ Row(p, t, g, a).grandfathered = g /\ Row(p, t, g, a).applied = a
  BY DEF Row, LedgerRow

\* The price of a plan is one Stripe knows.
LEMMA PriceOfPlan ==
    ASSUME NEW p \in Plans
    PROVE  PriceOf(p) \in Price /\ (p \notin Overridden => PriceOf(p) = p)
  BY DEF PriceOf, Price

\* A job that is added has an id that no other has.
LEMMA JobAdded ==
    ASSUME PlanTypeInv, NEW kind \in {"confirm", "grandfather"}, NEW about \in Price,
           AddJob(kind, about)
    PROVE  \E j \in Job : /\ planJobs' = planJobs \cup {j} /\ IsFiniteSet(planJobs')
                          /\ j.kind = kind /\ j.about = about /\ j.at = "start"
  <1> DEFINE j == [kind |-> kind, about |-> about, id |-> FreshIn(planJobs), at |-> "start",
                   row |-> 0, stalled |-> FALSE]
  <1>1. FreshIn(planJobs) \in Nat
    BY FreshIsNew DEF PlanTypeInv, PlanFinite
  <1>2. ledger \in Seq(LedgerRow)
    BY PlanTypes DEF PlanTypeInv
  <1>3. Len(ledger) \in Nat
    BY <1>2, LenProperties
  <1>4. j \in Job
    BY <1>1, <1>3 DEF Job
  <1>5. planJobs' = planJobs \cup {j}
    BY DEF AddJob
  <1>6. IsFiniteSet(planJobs')
    BY <1>5, FS_AddElement DEF PlanTypeInv, PlanFinite
  <1> QED  BY <1>4, <1>5, <1>6

\* A job that goes on, begins again or ends leaves finitely many jobs.
LEMMA JobsStayFinite ==
    ASSUME PlanTypeInv, NEW j, NEW k, NEW T \in SUBSET {k}, planJobs' = (planJobs \ {j}) \cup T
    PROVE  IsFiniteSet(planJobs')
  <1>1. IsFiniteSet(planJobs \ {j})
    BY FS_Difference DEF PlanTypeInv, PlanFinite
  <1>2. IsFiniteSet(T)
    BY FS_Singleton, FS_Subset
  <1> QED  BY <1>1, <1>2, FS_Union

\* A job that goes on becomes another job, and the rest stays.
LEMMA JobReplaced ==
    ASSUME PlanTypeInv, NEW j \in planJobs, NEW k \in Job, NEW T \in SUBSET {k},
           planJobs' = (planJobs \ {j}) \cup T,
           UNCHANGED <<active, stripeVars, priceRow, planRow, ledger, call, archiving>>,
           k.kind = "grandfather" => k.about \in Plans,
           k.kind = "confirm" /\ k.at \in {"apply", "plan"} =>
                k.row \in 1..Len(ledger) /\ ledger[k.row].target = k.about
    PROVE  PlanTypeInv'
  <1>1. Job' = Job
    BY DEF Job, Price
  <1>2. PlanTypeOK'
    <2>1. planJobs' \subseteq Job'
      BY <1>1, PlanTypes DEF PlanTypeInv
    <2> QED  BY <2>1, PlanTypes DEF PlanTypeInv, stripeVars, PlanTypeOK, Price, Job
  <1>3. PlansNamed'
    BY DEF PlanTypeInv, PlansNamed, stripeVars
  <1>4. JobsNamed'
    BY DEF PlanTypeInv, JobsNamed, stripeVars
  <1>5. PlanFinite'
    BY JobsStayFinite DEF PlanTypeInv, PlanFinite, stripeVars
  <1> QED  BY <1>2, <1>3, <1>4, <1>5 DEF PlanTypeInv

\* A step that only rewrites calls.
LEMMA CallMoves ==
    ASSUME PlanTypeInv, NEW c \in Changes, NEW x \in CallState, call' = [call EXCEPT ![c] = x],
           x.at \in Underway => x.plan \in Plans
    PROVE  /\ call' \in [Changes -> CallState]
           /\ call'[c] = x /\ \A d \in Changes \ {c} : call'[d] = call[d]
           /\ \A d \in Changes : call'[d].at \in Underway => call'[d].plan \in Plans
  <1>1. call \in [Changes -> CallState]
    BY PlanTypes DEF PlanTypeInv
  <1>2. \A d \in Changes : call[d].at \in Underway => call[d].plan \in Plans
    BY DEF PlanTypeInv, PlansNamed
  <1> QED  BY <1>1, <1>2

LEMMA CallStates ==
    /\ Failed \in CallState /\ Failed.at = "failed"
    /\ [NoCall EXCEPT !.at = "done"] \in CallState /\ [NoCall EXCEPT !.at = "done"].at = "done"
    /\ \A p \in Plans, at \in Underway : [at |-> at, plan |-> p] \in CallState
    /\ \A x \in CallState, at \in Underway : /\ [x EXCEPT !.at = at] \in CallState
                                            /\ [x EXCEPT !.at = at].at = at
                                            /\ [x EXCEPT !.at = at].plan = x.plan
  BY DEF Failed, NoCall, CallState, Underway

\* Stripe charges a price and tells of it.
LEMMA Charges ==
    ASSUME PlanTypeInv, NEW price \in Price, Charge(price)
    PROVE  /\ item' = price /\ charged' = charged \cup {price} /\ charged' \subseteq Price
           /\ \A e \in events' : e \in events \/ e.price = price
           /\ events' \subseteq [id : Nat, price : Price] /\ IsFiniteSet(events')
  <1>1. FreshIn(events) \in Nat
    BY FreshIsNew DEF PlanTypeInv, PlanFinite
  <1>2. events \subseteq [id : Nat, price : Price] /\ charged \subseteq Price
    BY PlanTypes DEF PlanTypeInv
  <1>3. IsFiniteSet(events')
    BY FS_AddElement DEF PlanTypeInv, PlanFinite, Charge
  <1> QED  BY <1>1, <1>2, <1>3 DEF Charge

\* What becomes of a job that has read a row, or that is put back.
LEMMA JobRecords ==
    ASSUME NEW j \in Job, NEW i \in 0..Len(ledger), Len(ledger) \in Nat
    PROVE  /\ [j EXCEPT !.at = "apply", !.row = i] \in Job
           /\ [j EXCEPT !.at = "apply", !.row = i].kind = j.kind
           /\ [j EXCEPT !.at = "apply", !.row = i].about = j.about
           /\ [j EXCEPT !.at = "apply", !.row = i].at = "apply"
           /\ [j EXCEPT !.at = "apply", !.row = i].row = i
           /\ [j EXCEPT !.at = "start", !.row = 0, !.stalled = TRUE] \in Job
           /\ [j EXCEPT !.at = "start", !.row = 0, !.stalled = TRUE].kind = j.kind
           /\ [j EXCEPT !.at = "start", !.row = 0, !.stalled = TRUE].about = j.about
           /\ [j EXCEPT !.at = "start", !.row = 0, !.stalled = TRUE].at = "start"
  <1> DEFINE read == [j EXCEPT !.at = "apply"]
             back == [j EXCEPT !.at = "start"]
             begun == [back EXCEPT !.row = 0]
  <1>1. /\ read \in Job /\ read.kind = j.kind /\ read.about = j.about /\ read.at = "apply"
        /\ back \in Job /\ back.kind = j.kind /\ back.about = j.about /\ back.at = "start"
    BY DEF Job
  <1>2. 0 \in 0..Len(ledger)
    OBVIOUS
  <1>3. /\ [j EXCEPT !.at = "apply", !.row = i] = [read EXCEPT !.row = i]
        /\ [j EXCEPT !.at = "start", !.row = 0, !.stalled = TRUE] = [begun EXCEPT !.stalled = TRUE]
    OBVIOUS
  <1> HIDE DEF read, back
  <1>4. /\ [read EXCEPT !.row = i] \in Job
        /\ [read EXCEPT !.row = i].kind = j.kind /\ [read EXCEPT !.row = i].about = j.about
        /\ [read EXCEPT !.row = i].at = "apply" /\ [read EXCEPT !.row = i].row = i
    BY <1>1 DEF Job
  <1>5. begun \in Job /\ begun.kind = j.kind /\ begun.about = j.about /\ begun.at = "start"
    BY <1>1, <1>2 DEF Job
  <1> HIDE DEF begun
  <1>6. /\ [begun EXCEPT !.stalled = TRUE] \in Job
        /\ [begun EXCEPT !.stalled = TRUE].kind = j.kind
        /\ [begun EXCEPT !.stalled = TRUE].about = j.about
        /\ [begun EXCEPT !.stalled = TRUE].at = "start"
    BY <1>5 DEF Job
  <1> QED  BY <1>3, <1>4, <1>6

\* A job that ends leaves the others.
LEMMA PlanJobEnds ==
    ASSUME PlanTypeInv, NEW j \in planJobs, planJobs' = planJobs \ {j},
           UNCHANGED <<active, stripeVars, priceRow, planRow, ledger, call, archiving>>
    PROVE  PlanTypeInv'
  <1>1. IsFiniteSet(planJobs')
    BY FS_Difference DEF PlanTypeInv, PlanFinite
  <1>2. PlanTypeOK'
    BY DEF PlanTypeInv, PlanTypeOK, stripeVars
  <1> QED  BY <1>1, <1>2 DEF PlanTypeInv, PlansNamed, JobsNamed, PlanFinite, stripeVars, Price

\* A grandfathering job goes on.
LEMMA GrandfatherGoes ==
    ASSUME PlanTypeInv, NEW j \in planJobs, j.kind = "grandfather",
           NEW at \in {"check", "insert", "end"}, JobGoes(j, at),
           UNCHANGED <<active, stripeVars, priceRow, planRow, ledger, call, archiving>>
    PROVE  PlanTypeInv'
  <1> DEFINE k == [j EXCEPT !.at = at]
  <1>1. j \in Job /\ j.about \in Plans
    BY PlanTypes DEF PlanTypeInv, JobsNamed
  <1>2. k \in Job /\ k.kind = "grandfather" /\ k.about \in Plans
    BY <1>1 DEF Job
  <1>3. planJobs' = (planJobs \ {j}) \cup {k}
    BY DEF JobGoes
  <1> HIDE DEF k
  <1> QED  BY <1>2, <1>3, JobReplaced

\* A row that is applied keeps all else, and the other rows stay as they are.
LEMMA RowApplied ==
    ASSUME ledger \in Seq(LedgerRow), NEW i \in 1..Len(ledger),
           ledger' = [ledger EXCEPT ![i].applied = TRUE]
    PROVE  /\ ledger' \in Seq(LedgerRow) /\ Len(ledger') = Len(ledger)
           /\ ledger'[i].applied
           /\ \A k \in 1..Len(ledger) : /\ k # i => ledger'[k] = ledger[k]
                                        /\ ledger'[k].target = ledger[k].target
                                        /\ ledger'[k].plan = ledger[k].plan
                                        /\ ledger'[k].grandfathered = ledger[k].grandfathered
  <1>1. ledger[i] \in LedgerRow
    OBVIOUS
  <1> DEFINE r == [ledger[i] EXCEPT !.applied = TRUE]
  <1>2. /\ r \in LedgerRow /\ r.applied /\ r.target = ledger[i].target /\ r.plan = ledger[i].plan
        /\ r.grandfathered = ledger[i].grandfathered
    BY <1>1 DEF LedgerRow
  <1>3. ledger' = [ledger EXCEPT ![i] = r]
    OBVIOUS
  <1> HIDE DEF r
  <1>4. /\ [ledger EXCEPT ![i] = r] \in Seq(LedgerRow)
        /\ Len([ledger EXCEPT ![i] = r]) = Len(ledger)
        /\ \A k \in 1..Len(ledger) :
                [ledger EXCEPT ![i] = r][k] = IF k = i THEN r ELSE ledger[k]
    <2>1. \A S : \A q \in Seq(S) : \A n \in 1..Len(q) : \A e \in S :
            /\ [q EXCEPT ![n] = e] \in Seq(S)
            /\ Len([q EXCEPT ![n] = e]) = Len(q)
            /\ \A k \in 1..Len(q) : [q EXCEPT ![n] = e][k] = IF k = n THEN e ELSE q[k]
      BY ExceptSeq
    <2> QED  BY <1>2, <2>1
  <1>5. ledger'[i] = r /\ \A k \in 1..Len(ledger) : k # i => ledger'[k] = ledger[k]
    BY <1>3, <1>4
  <1> QED  BY <1>2, <1>3, <1>4, <1>5

LEMMA PlanTypeInit == PlanInit => PlanTypeInv
  <1> SUFFICES ASSUME PlanInit PROVE PlanTypeInv
    OBVIOUS
  <1>1. PlanTypeOK
    BY PlanAssumption, PlanTypes, EmptySeq DEF PlanInit, NoSchedule, NoCall, ScheduleState,
       CallState, Price
  <1>2. PlansNamed /\ JobsNamed
    BY DEF PlanInit, PlansNamed, JobsNamed, NoSchedule, NoCall, Underway
  <1>3. PlanFinite
    BY FS_EmptySet DEF PlanInit, PlanFinite
  <1> QED  BY <1>1, <1>2, <1>3 DEF PlanTypeInv

\* The types are kept by the steps of schedulePlanChange.
LEMMA ChangeKeepsTypes ==
    ASSUME PlanTypeInv, NEW c \in Changes, Job' = Job \/ ledger' # ledger,
           UNCHANGED <<active, item, charged, events, priceRow, planRow, ledger, planJobs, archiving>>,
           schedule' \in ScheduleState, schedule'.phase = "next" => schedule'.price \in Price,
           NEW x \in CallState, call' = [call EXCEPT ![c] = x],
           x.at \in Underway => x.plan \in Plans
    PROVE  PlanTypeInv'
  <1>1. call' \in [Changes -> CallState]
        /\ \A d \in Changes : call'[d].at \in Underway => call'[d].plan \in Plans
    BY CallMoves
  <1>2. PlanTypeOK'
    BY <1>1, PlanTypes DEF PlanTypeInv, PlanTypeOK, Price, ScheduleState, CallState
  <1>3. PlansNamed'
    BY <1>1 DEF PlansNamed, Price
  <1>4. JobsNamed' /\ PlanFinite'
    BY DEF PlanTypeInv, JobsNamed, PlanFinite
  <1> QED  BY <1>2, <1>3, <1>4 DEF PlanTypeInv

\* The types are kept by a step that appends a row to the ledger.
LEMMA AppendKeepsTypes ==
    ASSUME PlanTypeInv, NEW r \in LedgerRow, ledger' = Append(ledger, r),
           UNCHANGED <<active, stripeVars, priceRow, planRow, archiving>>,
           call' \in [Changes -> CallState],
           \A d \in Changes : call'[d].at \in Underway => call'[d].plan \in Plans,
           planJobs' \subseteq Job, IsFiniteSet(planJobs'),
           \A k \in planJobs' \ planJobs : k.kind = "grandfather" /\ k.about \in Plans
    PROVE  PlanTypeInv'
  <1>1. /\ ledger' \in Seq(LedgerRow) /\ Len(ledger) \in Nat /\ Len(ledger') = Len(ledger) + 1
        /\ \A i \in 1..Len(ledger) : ledger'[i] = ledger[i]
        /\ Job \subseteq Job'
    BY PlanTypes, LedgerGrows DEF PlanTypeInv
  <1>2. PlanTypeOK'
    <2>1. planJobs' \subseteq Job'
      BY <1>1
    <2> QED  BY <1>1, <2>1, PlanTypes DEF PlanTypeInv, PlanTypeOK, Price, ScheduleState, CallState, LedgerRow, Job, stripeVars
  <1>3. PlansNamed'
    BY DEF PlanTypeInv, PlansNamed, Price, stripeVars
  <1>4. JobsNamed'
    BY <1>1 DEF PlanTypeInv, JobsNamed
  <1>5. PlanFinite'
    BY DEF PlanTypeInv, PlanFinite, stripeVars
  <1> QED  BY <1>2, <1>3, <1>4, <1>5 DEF PlanTypeInv

LEMMA PlanTypeStep == PlanTypeInv /\ [PlanNext]_planVars => PlanTypeInv'
  <1> SUFFICES ASSUME PlanTypeInv, [PlanNext]_planVars PROVE PlanTypeInv'
    OBVIOUS
  <1>0. /\ PlanTypeOK /\ call \in [Changes -> CallState] /\ schedule \in ScheduleState
        /\ planJobs \subseteq Job /\ ledger \in Seq(LedgerRow) /\ item \in Price
        /\ \A d \in Changes : call[d].at \in Underway => call[d].plan \in Plans
        /\ schedule.phase = "next" => schedule.price \in Price
    BY PlanTypes DEF PlanTypeInv, PlansNamed
  <1>1. ASSUME NEW c \in Changes, NEW p \in Plans, NEW e \in {"immediate", "next_cycle"},
               RequestChange(c, p, e)
        PROVE  PlanTypeInv'
    <2> DEFINE x == IF p \in active \ CreditPlans THEN [at |-> e, plan |-> p] ELSE Failed
    <2>1. x \in CallState /\ (x.at \in Underway => x.plan \in Plans)
      BY CallStates DEF Underway
    <2> QED  BY <1>0, <1>1, <2>1, ChangeKeepsTypes DEF RequestChange, stripeVars, Job
  <1>2. ASSUME NEW c \in Changes, ChangeImmediately(c) PROVE PlanTypeInv'
    <2>1. call[c].plan \in Plans /\ call[c] \in CallState
      BY <1>0, <1>2 DEF ChangeImmediately, Underway
    <2> DEFINE x == [call[c] EXCEPT !.at = "applied"]
    <2>2. x \in CallState /\ x.at = "applied" /\ x.plan \in Plans /\ call' = [call EXCEPT ![c] = x]
      BY <1>0, <1>2, <2>1, CallStates DEF ChangeImmediately, Underway
    <2> HIDE DEF x
    <2>3. call' \in [Changes -> CallState]
          /\ \A d \in Changes : call'[d].at \in Underway => call'[d].plan \in Plans
      BY <2>2, CallMoves
    <2>4. /\ item' \in Price /\ charged' \subseteq Price
          /\ events' \subseteq [id : Nat, price : Price] /\ IsFiniteSet(events')
      BY <1>2, <2>1, PriceOfPlan, Charges DEF ChangeImmediately
    <2>5. UNCHANGED <<active, schedule, priceRow, planRow, ledger, planJobs, archiving>>
      BY <1>2 DEF ChangeImmediately
    <2>6. PlanTypeOK'
      BY <1>0, <2>3, <2>4, <2>5, PlanTypes DEF PlanTypeOK, Price, CallState
    <2> QED  BY <2>3, <2>4, <2>5, <2>6 DEF PlanTypeInv, PlansNamed, JobsNamed, PlanFinite, Price
  <1>3. ASSUME NEW c \in Changes, CreateSchedule(c) PROVE PlanTypeInv'
    <2>1. call[c].plan \in Plans /\ call[c] \in CallState
      BY <1>0, <1>3 DEF CreateSchedule, Underway
    <2> DEFINE x == IF schedule = NoSchedule THEN [call[c] EXCEPT !.at = "phases"] ELSE Failed
    <2>2. x \in CallState /\ (x.at \in Underway => x.plan \in Plans)
      BY <2>1, CallStates DEF Underway
    <2>3. call' = [call EXCEPT ![c] = x]
      BY <1>0, <1>3 DEF CreateSchedule
    <2>4. schedule' \in ScheduleState /\ (schedule'.phase = "next" => schedule'.price \in Price)
      BY <1>0, <1>3 DEF CreateSchedule, ScheduleState
    <2> HIDE DEF x
    <2> QED  BY <1>3, <2>2, <2>3, <2>4, ChangeKeepsTypes DEF CreateSchedule, Job
  <1>4. ASSUME NEW c \in Changes, UpdateSchedule(c) PROVE PlanTypeInv'
    <2>1. call[c].plan \in Plans /\ call[c] \in CallState
      BY <1>0, <1>4 DEF UpdateSchedule, Underway
    <2> DEFINE x == IF schedule.phase = "mirror" THEN [call[c] EXCEPT !.at = "scheduled"] ELSE Failed
    <2>2. x \in CallState /\ (x.at \in Underway => x.plan \in Plans)
      BY <2>1, CallStates DEF Underway
    <2>3. call' = [call EXCEPT ![c] = x]
      BY <1>0, <1>4 DEF UpdateSchedule
    <2>4. schedule' \in ScheduleState /\ (schedule'.phase = "next" => schedule'.price \in Price)
      BY <1>0, <1>4, <2>1, PriceOfPlan DEF UpdateSchedule, ScheduleState
    <2> HIDE DEF x
    <2> QED  BY <1>4, <2>2, <2>3, <2>4, ChangeKeepsTypes DEF UpdateSchedule, Job
  <1>5. ASSUME NEW c \in Changes, InsertLedgerRow(c) PROVE PlanTypeInv'
    <2>1. call[c].plan \in Plans
      BY <1>0, <1>5 DEF InsertLedgerRow, Underway
    <2> DEFINE target == IF call[c].plan \in Overridden THEN NoPrice ELSE call[c].plan
               r == Row(call[c].plan, target, FALSE, call[c].at = "applied")
               x == [NoCall EXCEPT !.at = "done"]
    <2>2. r \in LedgerRow /\ ledger' = Append(ledger, r)
      BY <1>5, <2>1, NewRows DEF InsertLedgerRow
    <2>3. x \in CallState /\ x.at \notin Underway /\ call' = [call EXCEPT ![c] = x]
      BY <1>5, CallStates DEF InsertLedgerRow, Underway
    <2> HIDE DEF x, r
    <2>4. call' \in [Changes -> CallState]
          /\ \A d \in Changes : call'[d].at \in Underway => call'[d].plan \in Plans
      BY <2>3, CallMoves
    <2>5. UNCHANGED <<active, stripeVars, priceRow, planRow, planJobs, archiving>>
      BY <1>5 DEF InsertLedgerRow
    <2>6. planJobs' \subseteq Job /\ IsFiniteSet(planJobs')
      BY <1>0, <2>5 DEF PlanTypeInv, PlanFinite
    <2> QED  BY <2>2, <2>4, <2>5, <2>6, AppendKeepsTypes
  <1>6. ASSUME NEW c \in Changes, ChangeFails(c) PROVE PlanTypeInv'
    <2>1. Failed \in CallState /\ Failed.at \notin Underway
      BY CallStates DEF Underway
    <2> QED  BY <1>0, <1>6, <2>1, ChangeKeepsTypes DEF ChangeFails, stripeVars, Job
  <1>7. ASSUME NEW p \in Plans, RecordChange(p) PROVE PlanTypeInv'
    <2>1. Row(p, NoPrice, FALSE, FALSE) \in LedgerRow
      BY NewRows
    <2>2. planJobs' \subseteq Job /\ IsFiniteSet(planJobs')
      BY <1>0, <1>7 DEF RecordChange, PlanTypeInv, PlanFinite
    <2> QED  BY <1>0, <1>7, <2>1, <2>2, AppendKeepsTypes DEF RecordChange
  <1>8. ASSUME NEW p \in Plans, ArchivePlan(p) PROVE PlanTypeInv'
    <2>1. /\ active' \subseteq Plans
          /\ archiving' \subseteq [plan : Plans, id : Nat] /\ IsFiniteSet(archiving')
      <3>1. FreshIn(archiving) \in Nat
        BY FreshIsNew DEF PlanTypeInv, PlanFinite
      <3>2. IsFiniteSet(archiving')
        BY <1>8, FS_AddElement DEF ArchivePlan, PlanTypeInv, PlanFinite
      <3>3. active \subseteq Plans /\ archiving \subseteq [plan : Plans, id : Nat]
        BY <1>0 DEF PlanTypeOK
      <3> QED  BY <1>8, <3>1, <3>2, <3>3 DEF ArchivePlan
    <2>2. UNCHANGED <<item, schedule, charged, events, priceRow, planRow, ledger, call, planJobs>>
      BY <1>8 DEF ArchivePlan, stripeVars
    <2>3. PlanTypeOK'
      BY <1>0, <2>1, <2>2, PlanTypes DEF PlanTypeOK
    <2> QED  BY <2>1, <2>2, <2>3 DEF PlanTypeInv, PlansNamed, JobsNamed, PlanFinite, Price
  <1>9. ASSUME NEW p \in Plans, SoftArchivePlan(p) PROVE PlanTypeInv'
    <2>1. /\ active' \subseteq Plans
          /\ UNCHANGED <<item, schedule, charged, events, priceRow, planRow, ledger, call, planJobs, archiving>>
      BY <1>0, <1>9, PlanTypes DEF SoftArchivePlan, stripeVars
    <2>2. PlanTypeOK'
      BY <1>0, <2>1 DEF PlanTypeOK
    <2> QED  BY <2>1, <2>2 DEF PlanTypeInv, PlansNamed, JobsNamed, PlanFinite, Price
  <1>10. ASSUME PeriodEnds PROVE PlanTypeInv'
    <2>1. \E price \in Price : Charge(price)
      BY <1>0, <1>10 DEF PeriodEnds
    <2>2. /\ item' \in Price /\ charged' \subseteq Price
          /\ events' \subseteq [id : Nat, price : Price] /\ IsFiniteSet(events')
      BY <2>1, Charges
    <2>3. schedule' \in ScheduleState /\ schedule'.phase # "next"
      BY <1>10 DEF PeriodEnds, NoSchedule, ScheduleState
    <2>4. UNCHANGED <<active, priceRow, planRow, ledger, call, planJobs, archiving>>
      BY <1>10 DEF PeriodEnds
    <2>5. PlanTypeOK'
      BY <1>0, <2>2, <2>3, <2>4, PlanTypes DEF PlanTypeOK, Price, ScheduleState
    <2> QED  BY <2>2, <2>3, <2>4, <2>5 DEF PlanTypeInv, PlansNamed, JobsNamed, PlanFinite, Price
  <1>11. ASSUME NEW e \in events, ConfirmFromWebhook(e) PROVE PlanTypeInv'
    <2>1. e.price \in Price /\ events' \subseteq events /\ IsFiniteSet(events')
      BY <1>11, PlanTypes, FS_Difference DEF ConfirmFromWebhook, PlanTypeInv, PlanFinite
    <2>2. UNCHANGED <<active, item, schedule, charged, planRow, ledger, call, archiving>>
          /\ priceRow' = e.price
      BY <1>11 DEF ConfirmFromWebhook
    <2>3. /\ planJobs' \subseteq Job /\ IsFiniteSet(planJobs')
          /\ \A k \in planJobs' \ planJobs : k.kind = "confirm" /\ k.at = "start"
      <3>1. CASE UNCHANGED planJobs
        BY <1>0, <3>1 DEF PlanTypeInv, PlanFinite
      <3>2. CASE AddJob("confirm", e.price)
        BY <1>0, <2>1, <3>2, JobAdded
      <3> QED  BY <1>11, <3>1, <3>2 DEF ConfirmFromWebhook
    <2>4. Job' = Job
      BY <2>2 DEF Job, Price
    <2>5. PlanTypeOK'
      BY <1>0, <2>1, <2>2, <2>3, <2>4 DEF PlanTypeOK, Price, Job
    <2>6. JobsNamed'
      BY <2>2, <2>3 DEF PlanTypeInv, JobsNamed
    <2> QED  BY <2>1, <2>2, <2>3, <2>5, <2>6 DEF PlanTypeInv, PlansNamed, PlanFinite, Price
  <1>12. ASSUME NEW a \in archiving, ArchiveEnqueue(a) PROVE PlanTypeInv'
    <2>1. a.plan \in Plans /\ archiving' \subseteq archiving /\ IsFiniteSet(archiving')
      BY <1>12, PlanTypes, FS_Difference DEF ArchiveEnqueue, PlanTypeInv, PlanFinite
    <2>2. UNCHANGED <<active, item, schedule, charged, events, priceRow, planRow, ledger, call>>
      BY <1>12 DEF ArchiveEnqueue, stripeVars
    <2>3. /\ planJobs' \subseteq Job /\ IsFiniteSet(planJobs')
          /\ \A k \in planJobs' \ planJobs : k.kind = "grandfather" /\ k.about \in Plans
      <3>1. CASE UNCHANGED planJobs
        BY <1>0, <3>1 DEF PlanTypeInv, PlanFinite
      <3>2. CASE AddJob("grandfather", a.plan)
        BY <1>0, <2>1, <3>2, JobAdded DEF Price
      <3> QED  BY <1>12, <3>1, <3>2 DEF ArchiveEnqueue
    <2>4. Job' = Job
      BY <2>2 DEF Job, Price
    <2>5. PlanTypeOK'
      BY <1>0, <2>1, <2>2, <2>3, <2>4 DEF PlanTypeOK, Price, Job
    <2>6. JobsNamed'
      BY <2>2, <2>3 DEF PlanTypeInv, JobsNamed
    <2> QED  BY <2>1, <2>2, <2>3, <2>5, <2>6 DEF PlanTypeInv, PlansNamed, PlanFinite, Price
  <1>13. ASSUME NEW j \in planJobs, ConfirmRead(j) PROVE PlanTypeInv'
    <2>1. UNCHANGED <<active, stripeVars, priceRow, planRow, ledger, call, archiving>>
          /\ j.kind = "confirm" /\ j \in Job
      BY <1>0, <1>13 DEF ConfirmRead
    <2>2. CASE \E i \in Pending : (\A k \in Pending : k <= i) /\ ledger[i].target = j.about
      <3> DEFINE i == CHOOSE i \in Pending : \A k \in Pending : k <= i
                 k == [j EXCEPT !.at = "apply", !.row = i]
      <3>1. i \in 1..Len(ledger) /\ ledger[i].target = j.about
        <4>1. Pending \subseteq 1..Len(ledger) /\ Len(ledger) \in Nat
          BY <1>0, LenProperties DEF Pending
        <4>2. PICK n \in Pending : (\A m \in Pending : m <= n) /\ ledger[n].target = j.about
          BY <2>2
        <4>3. i \in Pending /\ \A m \in Pending : m <= i
          BY <4>2
        <4>4. i = n
          BY <4>1, <4>2, <4>3
        <4> QED  BY <4>1, <4>2, <4>4
      <3> HIDE DEF i
      <3>2. Len(ledger) \in Nat
        BY <1>0, LenProperties
      <3>3. k \in Job /\ k.kind = "confirm" /\ k.row = i /\ k.about = j.about
        <4>1. i \in 0..Len(ledger)
          BY <3>1, <3>2
        <4>2. k \in Job /\ k.kind = j.kind /\ k.row = i /\ k.about = j.about
          BY <2>1, <3>2, <4>1, JobRecords, Zenon
        <4> QED  BY <2>1, <4>2
      <3>4. planJobs' = (planJobs \ {j}) \cup {k}
        BY <1>13, <2>2 DEF ConfirmRead, i
      <3> HIDE DEF k
      <3> QED  BY <2>1, <3>1, <3>3, <3>4, JobReplaced
    <2>3. CASE planJobs' = planJobs \ {j}
      BY <2>1, <2>3, JobReplaced, PlanJobEnds
    <2> QED  BY <1>13, <2>2, <2>3 DEF ConfirmRead, JobEndsHere
  <1>14. ASSUME NEW j \in planJobs, ConfirmApply(j) PROVE PlanTypeInv'
    <2>1. /\ UNCHANGED <<active, stripeVars, priceRow, planRow, call, archiving>>
          /\ j.kind = "confirm" /\ j.at = "apply" /\ j \in Job
          /\ j.row \in 1..Len(ledger) /\ ledger[j.row].target = j.about
      BY <1>0, <1>14 DEF ConfirmApply, PlanTypeInv, JobsNamed
    <2>2. /\ ledger' \in Seq(LedgerRow) /\ Len(ledger') = Len(ledger)
          /\ \A i \in 1..Len(ledger) : ledger'[i].target = ledger[i].target
      BY <1>0, <1>14, <2>1, RowApplied DEF ConfirmApply
    <2> DEFINE k == [j EXCEPT !.at = "plan"]
    <2>3. /\ k \in Job /\ k.kind = "confirm" /\ k.row = j.row /\ k.about = j.about
          /\ planJobs' = (planJobs \ {j}) \cup {k}
      BY <1>14, <2>1 DEF ConfirmApply, JobGoes, Job
    <2> HIDE DEF k
    <2>4. Job' = Job
      BY <2>2 DEF Job, Price
    <2>5. PlanTypeOK'
      <3>1. planJobs' \subseteq Job'
        BY <1>0, <2>3, <2>4
      <3> QED  BY <1>0, <2>1, <2>2, <3>1, PlanTypes DEF PlanTypeOK, Price, LedgerRow, Job, stripeVars
    <2>6. JobsNamed'
      BY <2>1, <2>2, <2>3 DEF PlanTypeInv, JobsNamed
    <2>7. IsFiniteSet(planJobs')
      BY <2>3, JobsStayFinite
    <2> QED  BY <2>1, <2>5, <2>6, <2>7 DEF PlanTypeInv, PlansNamed, PlanFinite, stripeVars, Price
  <1>15. ASSUME NEW j \in planJobs, ConfirmPlan(j) PROVE PlanTypeInv'
    <2>1. /\ UNCHANGED <<active, stripeVars, priceRow, ledger, call, archiving>>
          /\ j \in Job /\ j.row \in 1..Len(ledger) /\ ledger[j.row].target = j.about
          /\ planRow' = j.about /\ planJobs' = planJobs \ {j}
      BY <1>0, <1>15 DEF ConfirmPlan, PlanTypeInv, JobsNamed, JobEndsHere
    <2>2. planRow' \in Plans
      <3>1. ledger[j.row] \in LedgerRow
        BY <1>0, <2>1
      <3>2. j.about # NoPrice /\ j.about \in Plans \cup {NoPrice}
        BY <2>1, <3>1, PlanAssumption DEF LedgerRow, Job, Price
      <3> QED  BY <2>1, <3>2
    <2>3. IsFiniteSet(planJobs')
      BY <2>1, FS_Difference DEF PlanTypeInv, PlanFinite
    <2>4. PlanTypeOK'
      BY <1>0, <2>1, <2>2, PlanTypes DEF PlanTypeOK, Price, Job, stripeVars
    <2> QED  BY <2>1, <2>3, <2>4 DEF PlanTypeInv, PlansNamed, PlanFinite, JobsNamed, stripeVars, Price
  <1>16. ASSUME NEW j \in planJobs, GrandfatherRead(j) PROVE PlanTypeInv'
    <2>1. UNCHANGED <<active, stripeVars, priceRow, planRow, ledger, call, archiving>>
          /\ j.kind = "grandfather" /\ j \in Job /\ j.about \in Plans
      BY <1>0, <1>16 DEF GrandfatherRead, PlanTypeInv, JobsNamed
    <2>2. CASE JobGoes(j, "check")
      BY <2>1, <2>2, GrandfatherGoes
    <2>3. CASE planJobs' = planJobs \ {j}
      BY <2>1, <2>3, PlanJobEnds
    <2> QED  BY <1>16, <2>2, <2>3 DEF GrandfatherRead, JobEndsHere
  <1>17. ASSUME NEW j \in planJobs, GrandfatherCheck(j) PROVE PlanTypeInv'
    <2>1. UNCHANGED <<active, stripeVars, priceRow, planRow, ledger, call, archiving>>
          /\ j.kind = "grandfather" /\ j \in Job /\ j.about \in Plans
      BY <1>0, <1>17 DEF GrandfatherCheck, PlanTypeInv, JobsNamed
    <2>2. JobGoes(j, "end") \/ JobGoes(j, "insert")
      BY <1>17 DEF GrandfatherCheck
    <2> QED  BY <2>1, <2>2, GrandfatherGoes
  <1>18. ASSUME NEW j \in planJobs, GrandfatherInsert(j) PROVE PlanTypeInv'
    <2>1. /\ UNCHANGED <<active, stripeVars, priceRow, planRow, call, archiving>>
          /\ j.kind = "grandfather" /\ j \in Job /\ j.about \in Plans
      BY <1>0, <1>18 DEF GrandfatherInsert, PlanTypeInv, JobsNamed
    <2>2. Row(j.about, NoPrice, TRUE, FALSE) \in LedgerRow
      BY <2>1, NewRows
    <2> DEFINE k == [j EXCEPT !.at = "end"]
    <2>3. /\ k \in Job /\ k.kind = "grandfather" /\ k.about = j.about
          /\ planJobs' = (planJobs \ {j}) \cup {k}
      BY <1>18, <2>1 DEF GrandfatherInsert, JobGoes, Job
    <2> HIDE DEF k
    <2>4. IsFiniteSet(planJobs')
      BY <2>3, JobsStayFinite
    <2>5. planJobs' \subseteq Job
          /\ \A l \in planJobs' \ planJobs : l.kind = "grandfather" /\ l.about \in Plans
      BY <1>0, <2>1, <2>3
    <2>6. ledger' = Append(ledger, Row(j.about, NoPrice, TRUE, FALSE))
      BY <1>18 DEF GrandfatherInsert
    <2> QED  BY <1>0, <2>1, <2>2, <2>4, <2>5, <2>6, AppendKeepsTypes
  <1>19. ASSUME NEW j \in planJobs, GrandfatherEnds(j) PROVE PlanTypeInv'
    BY <1>19, PlanJobEnds DEF GrandfatherEnds, JobEndsHere
  <1>20. ASSUME NEW j \in planJobs, PlanJobStalls(j) PROVE PlanTypeInv'
    <2> DEFINE k == [j EXCEPT !.at = "start", !.row = 0, !.stalled = TRUE]
               T == {l \in {k} : ~j.stalled}
    <2>1. Len(ledger) \in Nat /\ j \in Job
      BY <1>0, LenProperties
    <2>2. k \in Job /\ k.kind = j.kind /\ k.about = j.about /\ k.at = "start"
      <3>1. 0 \in 0..Len(ledger)
        BY <2>1
      <3> QED  BY <2>1, <3>1, JobRecords
    <2>3. planJobs' = (planJobs \ {j}) \cup T /\ T \in SUBSET {k}
      BY <1>20 DEF PlanJobStalls
    <2>4. k.kind = "grandfather" => k.about \in Plans
      BY <2>2 DEF PlanTypeInv, JobsNamed
    <2>5. UNCHANGED <<active, stripeVars, priceRow, planRow, ledger, call, archiving>>
      BY <1>20 DEF PlanJobStalls
    <2> HIDE DEF k, T
    <2> QED  BY <2>2, <2>3, <2>4, <2>5, JobReplaced
  <1>21. CASE UNCHANGED planVars
    BY <1>21 DEF planVars, stripeVars, PlanTypeInv, PlanTypeOK, PlansNamed, JobsNamed, PlanFinite, Price
  <1> QED
    BY <1>1, <1>2, <1>3, <1>4, <1>5, <1>6, <1>7, <1>8, <1>9, <1>10, <1>11, <1>12, <1>13, <1>14,
       <1>15, <1>16, <1>17, <1>18, <1>19, <1>20, <1>21 DEF PlanNext

\* The types are kept in every reachable state, for any plans, changes and bound.
THEOREM PlansTypeCorrect == PlanSpec => []PlanTypeOK
  <1>1. PlanTypeInv => PlanTypeOK
    BY DEF PlanTypeInv
  <1> QED  BY PlanTypeInit, PlanTypeStep, <1>1, PTL DEF PlanSpec

-----------------------------------------------------------------------------
(* A change is called applied only when Stripe has charged it.             *)

\* Whoever is on his way to write `applied` holds a price that has been charged: Stripe's events,
\* the calls that changed the subscription at once, and the jobs the webhook added.
ChargedAreHeld ==
    /\ item \in charged
    /\ \A e \in events : e.price \in charged
    /\ \A c \in Changes : call[c].at = "applied" => PriceOf(call[c].plan) \in charged
    /\ \A j \in planJobs : j.kind = "confirm" => j.about \in charged

\* A confirming job only takes the steps of its function; it writes the row's plan_id after the
\* ledger's row.
ConfirmInOrder ==
    \A j \in planJobs : j.at \in {"apply", "plan"} =>
        j.kind = "confirm" /\ (j.at = "plan" => ledger[j.row].applied)

\* A grandfathering row has no target, so no event confirms it.
GrandfatheredHasNoTarget ==
    \A i \in 1..Len(ledger) : ledger[i].grandfathered => ledger[i].target = NoPrice

AppliedInv == PlanTypeInv /\ ChargedAreHeld /\ ConfirmInOrder /\ GrandfatheredHasNoTarget
              /\ AppliedWasCharged

LEMMA AppliedInit == PlanInit => AppliedInv
  <1> SUFFICES ASSUME PlanInit PROVE AppliedInv
    OBVIOUS
  <1>1. PlanTypeInv
    BY PlanTypeInit
  <1>2. Len(ledger) = 0
    BY EmptySeq DEF PlanInit
  <1> QED
    BY <1>1, <1>2 DEF PlanInit, AppliedInv, ChargedAreHeld, ConfirmInOrder, GrandfatheredHasNoTarget,
       AppliedWasCharged, NoCall

\* A step that leaves the ledger, the plan_id and the jobs alone, or only ends jobs or adds some that
\* are at their start, and charges at most more.
LEMMA HeldKept ==
    ASSUME AppliedInv, UNCHANGED <<ledger, planRow>>, charged \subseteq charged',
           \A j \in planJobs' : j \in planJobs \/ j.at \notin {"apply", "plan"}
    PROVE  ConfirmInOrder' /\ GrandfatheredHasNoTarget' /\ AppliedWasCharged'
  <1>1. ConfirmInOrder'
    BY DEF AppliedInv, ConfirmInOrder
  <1>2. GrandfatheredHasNoTarget'
    BY DEF AppliedInv, GrandfatheredHasNoTarget
  <1>3. AppliedWasCharged'
    BY DEF AppliedInv, AppliedWasCharged
  <1> QED  BY <1>1, <1>2, <1>3

\* A step that appends a row which, if it is applied, is of a price that has been charged.
LEMMA AppendedKept ==
    ASSUME AppliedInv, NEW r \in LedgerRow, ledger' = Append(ledger, r),
           UNCHANGED <<planRow, charged>>,
           r.grandfathered => r.target = NoPrice /\ ~r.applied,
           r.applied => r.target = NoPrice \/ r.target \in charged,
           \A j \in planJobs' : j \in planJobs \/ j.at \notin {"apply", "plan"}
    PROVE  ConfirmInOrder' /\ GrandfatheredHasNoTarget' /\ AppliedWasCharged'
  <1>1. /\ Len(ledger) \in Nat /\ Len(ledger') = Len(ledger) + 1 /\ ledger'[Len(ledger) + 1] = r
        /\ \A i \in 1..Len(ledger) : ledger'[i] = ledger[i]
    BY PlanTypes, LedgerGrows DEF AppliedInv, PlanTypeInv
  <1>2. \A i \in 1..Len(ledger') : i \in 1..Len(ledger) \/ i = Len(ledger) + 1
    BY <1>1
  <1>3. \A i \in 1..Len(ledger) : i \in 1..Len(ledger')
    BY <1>1
  <1>4. ConfirmInOrder'
    BY <1>1 DEF AppliedInv, ConfirmInOrder, PlanTypeInv, JobsNamed
  <1>5. GrandfatheredHasNoTarget'
    BY <1>1, <1>2 DEF AppliedInv, GrandfatheredHasNoTarget
  <1>6. \A i \in 1..Len(ledger') : ledger'[i].applied =>
            /\ ~ledger'[i].grandfathered
            /\ ledger'[i].target # NoPrice => ledger'[i].target \in charged'
    BY <1>1, <1>2 DEF AppliedInv, AppliedWasCharged
  <1>7. planRow' = FirstPlan \/ \E i \in 1..Len(ledger') : ledger'[i].applied /\ ledger'[i].target = planRow'
    BY <1>1, <1>3 DEF AppliedInv, AppliedWasCharged
  <1> QED  BY <1>4, <1>5, <1>6, <1>7 DEF AppliedWasCharged

LEMMA AppliedStep == AppliedInv /\ [PlanNext]_planVars => AppliedInv'
  <1> SUFFICES ASSUME AppliedInv, [PlanNext]_planVars PROVE AppliedInv'
    OBVIOUS
  <1>0. /\ PlanTypeInv /\ call \in [Changes -> CallState] /\ planJobs \subseteq Job
        /\ ledger \in Seq(LedgerRow)
        /\ \A d \in Changes : call[d].at \in Underway => call[d].plan \in Plans
    BY PlanTypes DEF AppliedInv, PlanTypeInv, PlansNamed
  <1>t. PlanTypeInv'
    BY <1>0, PlanTypeStep
  <1> SUFFICES ChargedAreHeld' /\ ConfirmInOrder' /\ GrandfatheredHasNoTarget' /\ AppliedWasCharged'
    BY <1>t DEF AppliedInv
  <1> USE <1>0
  <1>1. ASSUME NEW c \in Changes, NEW p \in Plans, NEW e \in {"immediate", "next_cycle"},
               RequestChange(c, p, e)
        PROVE  ChargedAreHeld' /\ ConfirmInOrder' /\ GrandfatheredHasNoTarget' /\ AppliedWasCharged'
    <2>1. UNCHANGED <<item, events, charged, ledger, planRow, planJobs>>
      BY <1>1 DEF RequestChange, stripeVars
    <2>2. \A d \in Changes : call'[d].at = "applied" => call'[d] = call[d]
      BY <1>1, CallStates DEF RequestChange
    <2>3. ChargedAreHeld'
      BY <2>1, <2>2 DEF AppliedInv, ChargedAreHeld, PriceOf
    <2> QED  BY <2>1, <2>3, HeldKept
  <1>2. ASSUME NEW c \in Changes, ChangeImmediately(c)
        PROVE  ChargedAreHeld' /\ ConfirmInOrder' /\ GrandfatheredHasNoTarget' /\ AppliedWasCharged'
    <2>1. call[c].plan \in Plans /\ Charge(PriceOf(call[c].plan)) /\ UNCHANGED <<ledger, planRow, planJobs>>
      BY <1>2 DEF ChangeImmediately, Underway
    <2>2. /\ item' = PriceOf(call[c].plan) /\ charged' = charged \cup {item'}
          /\ \A e \in events' : e \in events \/ e.price = item'
      BY <2>1, PriceOfPlan, Charges
    <2>3. call' = [call EXCEPT ![c].at = "applied"]
      BY <1>2 DEF ChangeImmediately
    <2>4. \A d \in Changes \ {c} : call'[d] = call[d]
      BY <2>3
    <2>5. call'[c].plan = call[c].plan
      <3>1. [call[c] EXCEPT !.at = "applied"].plan = call[c].plan
        BY CallStates DEF Underway
      <3> QED  BY <2>3, <3>1
    <2>6. ChargedAreHeld'
      BY <2>1, <2>2, <2>4, <2>5 DEF AppliedInv, ChargedAreHeld, PriceOf
    <2> QED  BY <2>1, <2>2, <2>6, HeldKept
  <1>3. ASSUME NEW c \in Changes, CreateSchedule(c) \/ UpdateSchedule(c) \/ ChangeFails(c)
        PROVE  ChargedAreHeld' /\ ConfirmInOrder' /\ GrandfatheredHasNoTarget' /\ AppliedWasCharged'
    <2>1. UNCHANGED <<item, events, charged, ledger, planRow, planJobs>>
      BY <1>3 DEF CreateSchedule, UpdateSchedule, ChangeFails, stripeVars
    <2>2. /\ \A d \in Changes \ {c} : call'[d] = call[d]
          /\ call'[c].at # "applied"
      <3>1. \A at \in Underway : [call[c] EXCEPT !.at = at].at = at
        BY CallStates
      <3>2. \/ call' = [call EXCEPT ![c] = Failed]
            \/ \E at \in {"phases", "scheduled"} : call' = [call EXCEPT ![c] = [call[c] EXCEPT !.at = at]]
        BY <1>3 DEF CreateSchedule, UpdateSchedule, ChangeFails
      <3>3. /\ Failed.at # "applied"
            /\ \A at \in {"phases", "scheduled"} : [call[c] EXCEPT !.at = at].at # "applied"
        BY <3>1, CallStates DEF Underway
      <3> QED  BY <3>2, <3>3
    <2>3. ChargedAreHeld'
      BY <2>1, <2>2 DEF AppliedInv, ChargedAreHeld, PriceOf
    <2> QED  BY <2>1, <2>3, HeldKept
  <1>4. ASSUME NEW c \in Changes, InsertLedgerRow(c)
        PROVE  ChargedAreHeld' /\ ConfirmInOrder' /\ GrandfatheredHasNoTarget' /\ AppliedWasCharged'
    <2>1. call[c].plan \in Plans /\ UNCHANGED <<item, events, charged, planRow, planJobs>>
      BY <1>4 DEF InsertLedgerRow, Underway, stripeVars
    <2> DEFINE target == IF call[c].plan \in Overridden THEN NoPrice ELSE call[c].plan
               r == Row(call[c].plan, target, FALSE, call[c].at = "applied")
    <2>2. /\ r \in LedgerRow /\ ledger' = Append(ledger, r)
          /\ ~r.grandfathered /\ r.target = target /\ (r.applied => call[c].at = "applied")
      <3>1. ~r.grandfathered /\ r.target = target /\ (r.applied => call[c].at = "applied")
        BY DEF Row
      <3> QED  BY <1>4, <2>1, <3>1, NewRows DEF InsertLedgerRow
    <2>3. r.applied => r.target = NoPrice \/ r.target \in charged
      BY <2>1, <2>2, PriceOfPlan DEF AppliedInv, ChargedAreHeld
    <2>4. \A d \in Changes : call'[d].at = "applied" => call'[d] = call[d]
      BY <1>4, CallStates DEF InsertLedgerRow
    <2>5. ChargedAreHeld'
      BY <2>1, <2>4 DEF AppliedInv, ChargedAreHeld, PriceOf
    <2> HIDE DEF r
    <2> QED  BY <2>1, <2>2, <2>3, <2>5, AppendedKept
  <1>5. ASSUME NEW p \in Plans, RecordChange(p)
        PROVE  ChargedAreHeld' /\ ConfirmInOrder' /\ GrandfatheredHasNoTarget' /\ AppliedWasCharged'
    <2>1. UNCHANGED <<item, events, charged, planRow, planJobs, call>>
      BY <1>5 DEF RecordChange, stripeVars
    <2> DEFINE r == Row(p, NoPrice, FALSE, FALSE)
    <2>2. /\ r \in LedgerRow /\ ledger' = Append(ledger, r) /\ ~r.grandfathered /\ ~r.applied
      BY <1>5, NewRows DEF RecordChange
    <2>3. ChargedAreHeld'
      BY <2>1 DEF AppliedInv, ChargedAreHeld, PriceOf
    <2> HIDE DEF r
    <2> QED  BY <2>1, <2>2, <2>3, AppendedKept
  <1>6. ASSUME NEW p \in Plans, ArchivePlan(p) \/ SoftArchivePlan(p)
        PROVE  ChargedAreHeld' /\ ConfirmInOrder' /\ GrandfatheredHasNoTarget' /\ AppliedWasCharged'
    <2>1. UNCHANGED <<item, events, charged, ledger, planRow, planJobs, call>>
      BY <1>6 DEF ArchivePlan, SoftArchivePlan, stripeVars
    <2>2. ChargedAreHeld'
      BY <2>1 DEF AppliedInv, ChargedAreHeld, PriceOf
    <2> QED  BY <2>1, <2>2, HeldKept
  <1>7. ASSUME PeriodEnds
        PROVE  ChargedAreHeld' /\ ConfirmInOrder' /\ GrandfatheredHasNoTarget' /\ AppliedWasCharged'
    <2>1. \E price \in Price : Charge(price)
      BY <1>7, PlanTypes DEF PeriodEnds, PlanTypeInv, PlansNamed
    <2>2. /\ charged' = charged \cup {item'} /\ \A e \in events' : e \in events \/ e.price = item'
      BY <2>1, Charges
    <2>3. UNCHANGED <<ledger, planRow, planJobs, call>>
      BY <1>7 DEF PeriodEnds
    <2>4. ChargedAreHeld'
      BY <2>2, <2>3 DEF AppliedInv, ChargedAreHeld, PriceOf
    <2> QED  BY <2>2, <2>3, <2>4, HeldKept
  <1>8. ASSUME NEW e \in events, ConfirmFromWebhook(e)
        PROVE  ChargedAreHeld' /\ ConfirmInOrder' /\ GrandfatheredHasNoTarget' /\ AppliedWasCharged'
    <2>1. UNCHANGED <<item, charged, ledger, planRow, call>> /\ events' \subseteq events
      BY <1>8 DEF ConfirmFromWebhook
    <2>2. e.price \in Price /\ e.price \in charged
      BY PlanTypes DEF AppliedInv, ChargedAreHeld, PlanTypeInv
    <2>3. \A j \in planJobs' : j \in planJobs \/ (j.about = e.price /\ j.at = "start")
      <3>1. CASE UNCHANGED planJobs
        BY <3>1
      <3>2. CASE AddJob("confirm", e.price)
        BY <2>2, <3>2, JobAdded
      <3> QED  BY <1>8, <3>1, <3>2 DEF ConfirmFromWebhook
    <2>4. ChargedAreHeld'
      BY <2>1, <2>2, <2>3 DEF AppliedInv, ChargedAreHeld, PriceOf
    <2> QED  BY <2>1, <2>3, <2>4, HeldKept
  <1>9. ASSUME NEW a \in archiving, ArchiveEnqueue(a)
        PROVE  ChargedAreHeld' /\ ConfirmInOrder' /\ GrandfatheredHasNoTarget' /\ AppliedWasCharged'
    <2>1. UNCHANGED <<item, events, charged, ledger, planRow, call>>
      BY <1>9 DEF ArchiveEnqueue, stripeVars
    <2>2. a.plan \in Price
      BY PlanTypes DEF PlanTypeInv, Price
    <2>3. \A j \in planJobs' : j \in planJobs \/ (j.kind = "grandfather" /\ j.at = "start")
      <3>1. CASE UNCHANGED planJobs
        BY <3>1
      <3>2. CASE AddJob("grandfather", a.plan)
        BY <2>2, <3>2, JobAdded
      <3> QED  BY <1>9, <3>1, <3>2 DEF ArchiveEnqueue
    <2>4. ChargedAreHeld'
      BY <2>1, <2>3 DEF AppliedInv, ChargedAreHeld, PriceOf
    <2> QED  BY <2>1, <2>3, <2>4, HeldKept
  <1>10. ASSUME NEW j \in planJobs, ConfirmRead(j)
         PROVE  ChargedAreHeld' /\ ConfirmInOrder' /\ GrandfatheredHasNoTarget' /\ AppliedWasCharged'
    <2>1. UNCHANGED <<item, events, charged, ledger, planRow, call>> /\ j \in Job /\ j.kind = "confirm"
      BY <1>10 DEF ConfirmRead, stripeVars
    <2>2. \A k \in planJobs' : k \in planJobs
            \/ (k.kind = j.kind /\ k.about = j.about /\ k.at = "apply")
      <3>1. \A i : LET k == [j EXCEPT !.at = "apply", !.row = i]
                   IN k.kind = j.kind /\ k.about = j.about /\ k.at = "apply"
        BY <2>1 DEF Job
      <3>2. \E i : planJobs' \subseteq planJobs \cup {[j EXCEPT !.at = "apply", !.row = i]}
        BY <1>10 DEF ConfirmRead, JobEndsHere
      <3> QED  BY <3>1, <3>2
    <2>3. ChargedAreHeld'
      BY <2>1, <2>2 DEF AppliedInv, ChargedAreHeld, PriceOf
    <2>4. ConfirmInOrder'
      BY <2>1, <2>2 DEF AppliedInv, ConfirmInOrder
    <2> QED  BY <2>1, <2>3, <2>4 DEF AppliedInv, GrandfatheredHasNoTarget, AppliedWasCharged
  <1>11. ASSUME NEW j \in planJobs, ConfirmApply(j)
         PROVE  ChargedAreHeld' /\ ConfirmInOrder' /\ GrandfatheredHasNoTarget' /\ AppliedWasCharged'
    <2>1. /\ UNCHANGED <<item, events, charged, planRow, call>> /\ j \in Job
          /\ j.kind = "confirm" /\ j.row \in 1..Len(ledger) /\ ledger[j.row].target = j.about
          /\ j.about \in charged /\ j.about # NoPrice
      BY <1>11, PlanAssumption DEF ConfirmApply, stripeVars, PlanTypeInv, JobsNamed, AppliedInv, ChargedAreHeld, Job, Price
    <2>2. /\ Len(ledger') = Len(ledger) /\ ledger'[j.row].applied
          /\ \A k \in 1..Len(ledger) : /\ k # j.row => ledger'[k] = ledger[k]
                                       /\ ledger'[k].target = ledger[k].target
                                       /\ ledger'[k].grandfathered = ledger[k].grandfathered
      BY <1>11, <2>1, RowApplied DEF ConfirmApply
    <2> DEFINE k == [j EXCEPT !.at = "plan"]
    <2>3. /\ k.kind = "confirm" /\ k.row = j.row /\ k.about = j.about /\ k.at = "plan"
          /\ planJobs' = (planJobs \ {j}) \cup {k}
      BY <1>11, <2>1 DEF ConfirmApply, JobGoes, Job
    <2> HIDE DEF k
    <2>4. ChargedAreHeld'
      BY <2>1, <2>3 DEF AppliedInv, ChargedAreHeld, PriceOf
    <2>5. \A i \in 1..Len(ledger) : ledger[i].applied => ledger'[i].applied
      BY <2>1, <2>2
    <2>6. ConfirmInOrder'
      BY <2>1, <2>2, <2>3, <2>5 DEF AppliedInv, ConfirmInOrder, PlanTypeInv, JobsNamed
    <2>7. GrandfatheredHasNoTarget'
      BY <2>2 DEF AppliedInv, GrandfatheredHasNoTarget
    <2>8. AppliedWasCharged'
      <3>1. ~ledger'[j.row].grandfathered /\ ledger'[j.row].target \in charged'
        BY <2>1, <2>2 DEF AppliedInv, GrandfatheredHasNoTarget
      <3>2. \A i \in 1..Len(ledger') : ledger'[i].applied =>
                /\ ~ledger'[i].grandfathered
                /\ ledger'[i].target # NoPrice => ledger'[i].target \in charged'
        BY <2>1, <2>2, <3>1 DEF AppliedInv, AppliedWasCharged
      <3>3. planRow' = FirstPlan \/ \E i \in 1..Len(ledger') : ledger'[i].applied /\ ledger'[i].target = planRow'
        BY <2>1, <2>2, <2>5 DEF AppliedInv, AppliedWasCharged
      <3> QED  BY <3>2, <3>3 DEF AppliedWasCharged
    <2> QED  BY <2>4, <2>6, <2>7, <2>8
  <1>12. ASSUME NEW j \in planJobs, ConfirmPlan(j)
         PROVE  ChargedAreHeld' /\ ConfirmInOrder' /\ GrandfatheredHasNoTarget' /\ AppliedWasCharged'
    <2>1. /\ UNCHANGED <<item, events, charged, ledger, call>> /\ planJobs' \subseteq planJobs
          /\ j.row \in 1..Len(ledger) /\ ledger[j.row].target = j.about /\ ledger[j.row].applied
          /\ planRow' = j.about
      BY <1>12 DEF ConfirmPlan, JobEndsHere, stripeVars, PlanTypeInv, JobsNamed, AppliedInv, ConfirmInOrder
    <2>2. ChargedAreHeld' /\ ConfirmInOrder' /\ GrandfatheredHasNoTarget'
      BY <2>1 DEF AppliedInv, ChargedAreHeld, ConfirmInOrder, GrandfatheredHasNoTarget, PriceOf
    <2>3. AppliedWasCharged'
      BY <2>1 DEF AppliedInv, AppliedWasCharged
    <2> QED  BY <2>2, <2>3
  <1>13. ASSUME NEW j \in planJobs, GrandfatherRead(j) \/ GrandfatherCheck(j) \/ GrandfatherEnds(j)
                                      \/ PlanJobStalls(j)
         PROVE  ChargedAreHeld' /\ ConfirmInOrder' /\ GrandfatheredHasNoTarget' /\ AppliedWasCharged'
    <2>1. UNCHANGED <<item, events, charged, ledger, planRow, call>> /\ j \in Job
      BY <1>13 DEF GrandfatherRead, GrandfatherCheck, GrandfatherEnds, PlanJobStalls, stripeVars
    <2>2. \A k \in planJobs' : k \in planJobs
            \/ (k.kind = j.kind /\ k.about = j.about /\ k.at \notin {"apply", "plan"})
      <3>1. CASE GrandfatherRead(j) \/ GrandfatherCheck(j) \/ GrandfatherEnds(j)
        <4>1. \A at : [j EXCEPT !.at = at].kind = j.kind /\ [j EXCEPT !.at = at].about = j.about
                      /\ [j EXCEPT !.at = at].at = at
          BY <2>1 DEF Job
        <4>2. \E at \in {"check", "insert", "end"} :
                planJobs' \subseteq planJobs \cup {[j EXCEPT !.at = at]}
          BY <3>1 DEF GrandfatherRead, GrandfatherCheck, GrandfatherEnds, JobGoes, JobEndsHere
        <4> QED  BY <4>1, <4>2
      <3>2. CASE PlanJobStalls(j)
        <4> DEFINE k == [j EXCEPT !.at = "start", !.row = 0, !.stalled = TRUE]
        <4>0. Len(ledger) \in Nat
          BY LenProperties
        <4>1. 0 \in 0..Len(ledger)
          BY <4>0
        <4>2. k.kind = j.kind /\ k.about = j.about /\ k.at = "start"
          BY <2>1, <4>0, <4>1, JobRecords
        <4>3. planJobs' \subseteq planJobs \cup {k}
          BY <3>2 DEF PlanJobStalls
        <4> HIDE DEF k
        <4> QED  BY <4>2, <4>3
      <3> QED  BY <1>13, <3>1, <3>2
    <2>3. ChargedAreHeld'
      BY <2>1, <2>2 DEF AppliedInv, ChargedAreHeld, PriceOf
    <2> QED  BY <2>1, <2>2, <2>3, HeldKept
  <1>14. ASSUME NEW j \in planJobs, GrandfatherInsert(j)
         PROVE  ChargedAreHeld' /\ ConfirmInOrder' /\ GrandfatheredHasNoTarget' /\ AppliedWasCharged'
    <2>1. /\ UNCHANGED <<item, events, charged, planRow, call>> /\ j \in Job
          /\ j.kind = "grandfather" /\ j.about \in Plans
      BY <1>14 DEF GrandfatherInsert, stripeVars, PlanTypeInv, JobsNamed
    <2> DEFINE r == Row(j.about, NoPrice, TRUE, FALSE)
               k == [j EXCEPT !.at = "end"]
    <2>2. r \in LedgerRow /\ ledger' = Append(ledger, r) /\ r.target = NoPrice /\ ~r.applied
      <3>1. r.target = NoPrice /\ ~r.applied
        BY DEF Row
      <3> QED  BY <1>14, <2>1, <3>1, NewRows DEF GrandfatherInsert
    <2>3. k.kind = "grandfather" /\ k.at = "end" /\ planJobs' \subseteq planJobs \cup {k}
      BY <1>14, <2>1 DEF GrandfatherInsert, JobGoes, Job
    <2> HIDE DEF r, k
    <2>4. ChargedAreHeld'
      BY <2>1, <2>3 DEF AppliedInv, ChargedAreHeld, PriceOf
    <2> QED  BY <2>1, <2>2, <2>3, <2>4, AppendedKept
  <1>15. CASE UNCHANGED planVars
    BY <1>15 DEF planVars, stripeVars, AppliedInv, ChargedAreHeld, ConfirmInOrder, GrandfatheredHasNoTarget, AppliedWasCharged, PriceOf
  <1> QED
    BY <1>1, <1>2, <1>3, <1>4, <1>5, <1>6, <1>7, <1>8, <1>9, <1>10, <1>11, <1>12, <1>13, <1>14,
       <1>15 DEF PlanNext

\* AppliedWasCharged: the ledger calls a change applied only if Stripe has charged its price, and the
\* subscription's plan_id is the first one or that of an applied row (planChangeService.ts:345-366),
\* in whatever order events, jobs, retries and other calls come: a job that has read a row holds a
\* price that was charged, and rows of the ledger never change but for `applied`.
THEOREM AppliedIsCharged == PlanSpec => []AppliedWasCharged
  <1>1. AppliedInv => AppliedWasCharged
    BY DEF AppliedInv
  <1> QED  BY AppliedInit, AppliedStep, <1>1, PTL DEF PlanSpec

-----------------------------------------------------------------------------
(* A subscriber is grandfathered once per plan.                            *)

HasGrandfathered(p) == \E i \in 1..Len(ledger) : ledger[i].plan = p /\ ledger[i].grandfathered
GrandfatherJobs(p) == {j \in planJobs : j.kind = "grandfather" /\ j.about = p}

\* A plan's one permission to grandfather is with the plan while it is active, then with the call
\* that archived it, then with the one job that call adds; it is used up by the row.
PermissionIsOne ==
    /\ \A p \in active : /\ \A a \in archiving : a.plan # p
                         /\ GrandfatherJobs(p) = {} /\ ~HasGrandfathered(p)
    /\ \A a \in archiving : /\ \A b \in archiving : a.plan = b.plan => a = b
                            /\ GrandfatherJobs(a.plan) = {} /\ ~HasGrandfathered(a.plan)
    /\ \A j, k \in planJobs : j.kind = "grandfather" /\ k.kind = "grandfather" /\ j.about = k.about
                                => j = k
    /\ \A j \in planJobs : j.kind = "grandfather" /\ j.at = "insert" => ~HasGrandfathered(j.about)

OnceInv == PermissionIsOne /\ GrandfatheredOnce

LEMMA OnceInit == PlanInit => OnceInv
  <1> SUFFICES ASSUME PlanInit PROVE OnceInv
    OBVIOUS
  <1>1. Len(ledger) = 0
    BY EmptySeq DEF PlanInit
  <1> QED
    BY <1>1 DEF PlanInit, OnceInv, PermissionIsOne, GrandfatherJobs, HasGrandfathered, GrandfatheredOnce

\* No permission is made by a step that archives no plan, adds no grandfathering job and takes none a
\* step further, and adds no grandfathering row.
LEMMA PermissionKept ==
    ASSUME PermissionIsOne, active' \subseteq active, archiving' \subseteq archiving,
           \A j \in planJobs' : j \in planJobs \/ j.kind = "confirm",
           \A p : HasGrandfathered(p)' => HasGrandfathered(p)
    PROVE  PermissionIsOne'
  <1>1. \A p : GrandfatherJobs(p)' \subseteq GrandfatherJobs(p)
    BY DEF GrandfatherJobs
  <1> HIDE DEF GrandfatherJobs, HasGrandfathered
  <1>2. \A p \in active' : /\ \A a \in archiving' : a.plan # p
                           /\ GrandfatherJobs(p)' = {} /\ ~HasGrandfathered(p)'
    BY <1>1 DEF PermissionIsOne
  <1>3. \A a \in archiving' : /\ \A b \in archiving' : a.plan = b.plan => a = b
                              /\ GrandfatherJobs(a.plan)' = {} /\ ~HasGrandfathered(a.plan)'
    BY <1>1 DEF PermissionIsOne
  <1>4. \A j, k \in planJobs' : j.kind = "grandfather" /\ k.kind = "grandfather" /\ j.about = k.about
                                => j = k
    BY DEF PermissionIsOne
  <1>5. \A j \in planJobs' : j.kind = "grandfather" /\ j.at = "insert" => ~HasGrandfathered(j.about)'
    BY DEF PermissionIsOne
  <1> QED  BY <1>2, <1>3, <1>4, <1>5 DEF PermissionIsOne

\* The permission of a plan stays with its job as the job goes on, ends or begins again.
LEMMA PermissionMoves ==
    ASSUME PermissionIsOne, UNCHANGED <<active, archiving>>,
           NEW j \in planJobs, NEW k, k.kind = j.kind, k.about = j.about,
           NEW T \in SUBSET {k}, planJobs' = (planJobs \ {j}) \cup T,
           \A p : HasGrandfathered(p)' => HasGrandfathered(p) \/ (j.kind = "grandfather" /\ p = j.about),
           j.kind = "grandfather" /\ k.at = "insert" => ~HasGrandfathered(j.about)'
    PROVE  PermissionIsOne'
  <1>1. \A p : GrandfatherJobs(p) = {} => GrandfatherJobs(p)' = {}
    BY DEF GrandfatherJobs
  <1>2. j.kind = "grandfather" => j \in GrandfatherJobs(j.about)
    BY DEF GrandfatherJobs
  <1>3. \A p \in active' : /\ \A a \in archiving' : a.plan # p
                           /\ GrandfatherJobs(p)' = {} /\ ~HasGrandfathered(p)'
    BY <1>1, <1>2 DEF PermissionIsOne
  <1>4. \A a \in archiving' : /\ \A b \in archiving' : a.plan = b.plan => a = b
                              /\ GrandfatherJobs(a.plan)' = {} /\ ~HasGrandfathered(a.plan)'
    BY <1>1, <1>2 DEF PermissionIsOne
  <1>5. \A l, m \in planJobs' : l.kind = "grandfather" /\ m.kind = "grandfather" /\ l.about = m.about
                                => l = m
    BY DEF PermissionIsOne
  <1>6. \A l \in planJobs' : l.kind = "grandfather" /\ l.at = "insert" => ~HasGrandfathered(l.about)'
    <2> SUFFICES ASSUME NEW l \in planJobs', l.kind = "grandfather", l.at = "insert"
                 PROVE  ~HasGrandfathered(l.about)'
      OBVIOUS
    <2>1. CASE l = k
      BY <2>1
    <2>2. CASE l \in planJobs /\ l # j
      <3>1. ~HasGrandfathered(l.about)
        BY <2>2 DEF PermissionIsOne
      <3>2. j.kind = "grandfather" => l.about # j.about
        BY <2>2 DEF PermissionIsOne
      <3> QED  BY <3>1, <3>2
    <2> QED  BY <2>1, <2>2
  <1> QED  BY <1>3, <1>4, <1>5, <1>6 DEF PermissionIsOne

\* What the ledger says of a plan changes only by a grandfathering row.
LEMMA GrandfatheredAppends ==
    ASSUME ledger \in Seq(LedgerRow), NEW r \in LedgerRow, ledger' = Append(ledger, r)
    PROVE  /\ \A p : HasGrandfathered(p)' <=> HasGrandfathered(p) \/ (r.grandfathered /\ r.plan = p)
           /\ GrandfatheredOnce /\ (r.grandfathered => ~HasGrandfathered(r.plan)) => GrandfatheredOnce'
  <1>1. /\ Len(ledger) \in Nat /\ Len(ledger') = Len(ledger) + 1 /\ ledger'[Len(ledger) + 1] = r
        /\ \A i \in 1..Len(ledger) : ledger'[i] = ledger[i]
    BY LedgerGrows
  <1>2. \A i : i \in 1..Len(ledger') <=> i \in 1..Len(ledger) \/ i = Len(ledger) + 1
    BY <1>1
  <1>3. \A p : HasGrandfathered(p)' <=> HasGrandfathered(p) \/ (r.grandfathered /\ r.plan = p)
    BY <1>1, <1>2 DEF HasGrandfathered
  <1>4. ASSUME GrandfatheredOnce, r.grandfathered => ~HasGrandfathered(r.plan)
        PROVE  GrandfatheredOnce'
    BY <1>1, <1>2, <1>4 DEF GrandfatheredOnce, HasGrandfathered
  <1> QED  BY <1>3, <1>4

LEMMA OnceStep == PlanTypeInv /\ OnceInv /\ [PlanNext]_planVars => OnceInv'
  <1> SUFFICES ASSUME PlanTypeInv, OnceInv, [PlanNext]_planVars PROVE OnceInv'
    OBVIOUS
  <1>0. /\ planJobs \subseteq Job /\ ledger \in Seq(LedgerRow)
        /\ PermissionIsOne /\ GrandfatheredOnce
    BY PlanTypes DEF PlanTypeInv, OnceInv
  <1> USE <1>0
  <1>1. ASSUME UNCHANGED ledger
        PROVE  GrandfatheredOnce' /\ \A p : HasGrandfathered(p)' <=> HasGrandfathered(p)
    BY <1>1 DEF GrandfatheredOnce, HasGrandfathered
  <1>2. ASSUME UNCHANGED <<active, archiving, planJobs, ledger>>
        PROVE  OnceInv'
    BY <1>1, <1>2, PermissionKept DEF OnceInv
  <1>3. ASSUME NEW c \in Changes, NEW p \in Plans, NEW e \in {"immediate", "next_cycle"},
               RequestChange(c, p, e)
        PROVE  OnceInv'
    BY <1>2, <1>3 DEF RequestChange
  <1>4. ASSUME NEW c \in Changes, ChangeImmediately(c) \/ CreateSchedule(c) \/ UpdateSchedule(c)
                                    \/ ChangeFails(c)
        PROVE  OnceInv'
    BY <1>2, <1>4 DEF ChangeImmediately, CreateSchedule, UpdateSchedule, ChangeFails
  <1>5. ASSUME PeriodEnds PROVE OnceInv'
    BY <1>2, <1>5 DEF PeriodEnds
  <1>6. ASSUME NEW c \in Changes, InsertLedgerRow(c) PROVE OnceInv'
    <2>1. call[c].plan \in Plans /\ UNCHANGED <<active, archiving, planJobs>>
      BY <1>6 DEF InsertLedgerRow, Underway, PlanTypeInv, PlansNamed
    <2> DEFINE target == IF call[c].plan \in Overridden THEN NoPrice ELSE call[c].plan
               r == Row(call[c].plan, target, FALSE, call[c].at = "applied")
    <2>2. r \in LedgerRow /\ ledger' = Append(ledger, r) /\ ~r.grandfathered
      <3>1. ~r.grandfathered
        BY DEF Row
      <3> QED  BY <1>6, <2>1, <3>1, NewRows DEF InsertLedgerRow
    <2> HIDE DEF r
    <2>3. GrandfatheredOnce' /\ \A p : HasGrandfathered(p)' <=> HasGrandfathered(p)
      BY <2>2, GrandfatheredAppends
    <2> QED  BY <2>1, <2>3, PermissionKept DEF OnceInv
  <1>7. ASSUME NEW p \in Plans, RecordChange(p) PROVE OnceInv'
    <2> DEFINE r == Row(p, NoPrice, FALSE, FALSE)
    <2>1. UNCHANGED <<active, archiving, planJobs>>
      BY <1>7 DEF RecordChange
    <2>2. r \in LedgerRow /\ ledger' = Append(ledger, r) /\ ~r.grandfathered
      BY <1>7, NewRows DEF RecordChange
    <2> HIDE DEF r
    <2>3. GrandfatheredOnce' /\ \A q : HasGrandfathered(q)' <=> HasGrandfathered(q)
      BY <2>2, GrandfatheredAppends
    <2> QED  BY <2>1, <2>3, PermissionKept DEF OnceInv
  <1>8. ASSUME NEW p \in Plans, ArchivePlan(p) PROVE OnceInv'
    <2>1. PICK n : /\ p \in active /\ active' = active \ {p}
                   /\ archiving' = archiving \cup {[plan |-> p, id |-> n]}
                   /\ UNCHANGED <<ledger, planJobs>>
      BY <1>8 DEF ArchivePlan
    <2>2. \A q : HasGrandfathered(q)' <=> HasGrandfathered(q)
      BY <1>1, <2>1
    <2>3. \A q : GrandfatherJobs(q)' = GrandfatherJobs(q)
      BY <2>1 DEF GrandfatherJobs
    <2>4. /\ \A a \in archiving : a.plan # p
          /\ GrandfatherJobs(p) = {} /\ ~HasGrandfathered(p)
      BY <2>1 DEF PermissionIsOne
    <2>5. PermissionIsOne'
      BY <2>1, <2>2, <2>3, <2>4 DEF PermissionIsOne
    <2> QED  BY <1>1, <2>1, <2>5 DEF OnceInv
  <1>9. ASSUME NEW p \in Plans, SoftArchivePlan(p) PROVE OnceInv'
    <2>1. active' \subseteq active /\ UNCHANGED <<archiving, ledger, planJobs>>
      BY <1>9 DEF SoftArchivePlan
    <2> QED  BY <1>1, <2>1, PermissionKept DEF OnceInv
  <1>10. ASSUME NEW e \in events, ConfirmFromWebhook(e) PROVE OnceInv'
    <2>1. UNCHANGED <<active, archiving, ledger>> /\ e.price \in Price
      BY <1>10, PlanTypes DEF ConfirmFromWebhook, PlanTypeInv
    <2>2. \A j \in planJobs' : j \in planJobs \/ j.kind = "confirm"
      <3>1. CASE UNCHANGED planJobs
        BY <3>1
      <3>2. CASE AddJob("confirm", e.price)
        BY <2>1, <3>2, JobAdded
      <3> QED  BY <1>10, <3>1, <3>2 DEF ConfirmFromWebhook
    <2> QED  BY <1>1, <2>1, <2>2, PermissionKept DEF OnceInv
  <1>11. ASSUME NEW a \in archiving, ArchiveEnqueue(a) PROVE OnceInv'
    <2>1. UNCHANGED <<active, ledger>> /\ archiving' = archiving \ {a} /\ a.plan \in Price
      BY <1>11, PlanTypes DEF ArchiveEnqueue, PlanTypeInv, Price
    <2>2. CASE UNCHANGED planJobs
      BY <1>1, <2>1, <2>2, PermissionKept DEF OnceInv
    <2>3. CASE AddJob("grandfather", a.plan)
      <3>1. PICK j \in Job : /\ planJobs' = planJobs \cup {j}
                             /\ j.kind = "grandfather" /\ j.about = a.plan /\ j.at = "start"
        BY <2>1, <2>3, JobAdded
      <3>2. \A q : HasGrandfathered(q)' <=> HasGrandfathered(q)
        BY <1>1, <2>1
      <3>3. \A q : q # a.plan => GrandfatherJobs(q)' = GrandfatherJobs(q)
        BY <3>1 DEF GrandfatherJobs
      <3>4. /\ a.plan \notin active /\ \A b \in archiving' : b.plan # a.plan
            /\ GrandfatherJobs(a.plan) = {} /\ ~HasGrandfathered(a.plan)
        BY <2>1 DEF PermissionIsOne
      <3>5. \A k \in planJobs : k.kind = "grandfather" => k.about # a.plan
        BY <3>4 DEF GrandfatherJobs
      <3>6. \A l, m \in planJobs' :
                l.kind = "grandfather" /\ m.kind = "grandfather" /\ l.about = m.about => l = m
        BY <3>1, <3>5 DEF PermissionIsOne
      <3>7. \A l \in planJobs' : l.kind = "grandfather" /\ l.at = "insert" => ~HasGrandfathered(l.about)'
        BY <3>1, <3>2 DEF PermissionIsOne
      <3>8. PermissionIsOne'
        BY <2>1, <3>2, <3>3, <3>4, <3>6, <3>7 DEF PermissionIsOne
      <3> QED  BY <1>1, <2>1, <3>8 DEF OnceInv
    <2> QED  BY <1>11, <2>2, <2>3 DEF ArchiveEnqueue
  <1>12. ASSUME NEW j \in planJobs, ConfirmRead(j) PROVE OnceInv'
    <2>1. UNCHANGED <<active, archiving, ledger>> /\ j \in Job /\ j.kind = "confirm"
      BY <1>12 DEF ConfirmRead
    <2>2. \A k \in planJobs' : k \in planJobs \/ k.kind = "confirm"
      <3>1. \A i : [j EXCEPT !.at = "apply", !.row = i].kind = j.kind
        BY <2>1 DEF Job
      <3>2. \E i : planJobs' \subseteq planJobs \cup {[j EXCEPT !.at = "apply", !.row = i]}
        BY <1>12 DEF ConfirmRead, JobEndsHere
      <3> QED  BY <2>1, <3>1, <3>2
    <2> QED  BY <1>1, <2>1, <2>2, PermissionKept DEF OnceInv
  <1>13. ASSUME NEW j \in planJobs, ConfirmApply(j) PROVE OnceInv'
    <2>1. /\ UNCHANGED <<active, archiving>> /\ j \in Job
          /\ j.kind = "confirm" /\ j.row \in 1..Len(ledger)
      BY <1>13 DEF ConfirmApply, PlanTypeInv, JobsNamed
    <2>2. /\ Len(ledger') = Len(ledger)
          /\ \A k \in 1..Len(ledger) : /\ ledger'[k].plan = ledger[k].plan
                                       /\ ledger'[k].grandfathered = ledger[k].grandfathered
      BY <1>13, <2>1, RowApplied DEF ConfirmApply
    <2>3. GrandfatheredOnce' /\ \A p : HasGrandfathered(p)' <=> HasGrandfathered(p)
      BY <2>2 DEF GrandfatheredOnce, HasGrandfathered
    <2>4. \A k \in planJobs' : k \in planJobs \/ k.kind = "confirm"
      BY <1>13, <2>1 DEF ConfirmApply, JobGoes, Job
    <2> QED  BY <2>1, <2>3, <2>4, PermissionKept DEF OnceInv
  <1>14. ASSUME NEW j \in planJobs, ConfirmPlan(j) \/ GrandfatherEnds(j) PROVE OnceInv'
    <2>1. UNCHANGED <<active, archiving, ledger>> /\ planJobs' \subseteq planJobs
      BY <1>14 DEF ConfirmPlan, GrandfatherEnds, JobEndsHere
    <2> QED  BY <1>1, <2>1, PermissionKept DEF OnceInv
  <1>15. ASSUME NEW j \in planJobs, GrandfatherRead(j) PROVE OnceInv'
    <2> DEFINE k == [j EXCEPT !.at = "check"]
    <2>1. UNCHANGED <<active, archiving, ledger>> /\ k.kind = j.kind /\ k.about = j.about /\ k.at = "check"
      BY <1>15 DEF GrandfatherRead, Job
    <2>2. \E T \in SUBSET {k} : planJobs' = (planJobs \ {j}) \cup T
      <3>1. planJobs' = (planJobs \ {j}) \cup {k} \/ planJobs' = (planJobs \ {j}) \cup {}
        BY <1>15 DEF GrandfatherRead, JobGoes, JobEndsHere
      <3> QED  BY <3>1
    <2> HIDE DEF k
    <2> QED  BY <1>1, <2>1, <2>2, PermissionMoves DEF OnceInv
  <1>16. ASSUME NEW j \in planJobs, GrandfatherCheck(j) PROVE OnceInv'
    <2> DEFINE at == IF HasGrandfathered(j.about) THEN "end" ELSE "insert"
               k == [j EXCEPT !.at = at]
    <2>1. UNCHANGED <<active, archiving, ledger>> /\ k.kind = j.kind /\ k.about = j.about /\ k.at = at
      BY <1>16 DEF GrandfatherCheck, Job
    <2>2. planJobs' = (planJobs \ {j}) \cup {k}
      BY <1>16 DEF GrandfatherCheck, JobGoes, HasGrandfathered
    <2>3. k.at = "insert" => ~HasGrandfathered(j.about)
      BY <2>1
    <2> HIDE DEF k
    <2> QED  BY <1>1, <2>1, <2>2, <2>3, PermissionMoves DEF OnceInv
  <1>17. ASSUME NEW j \in planJobs, GrandfatherInsert(j) PROVE OnceInv'
    <2> DEFINE r == Row(j.about, NoPrice, TRUE, FALSE)
               k == [j EXCEPT !.at = "end"]
    <2>1. /\ UNCHANGED <<active, archiving>> /\ j.kind = "grandfather" /\ j.about \in Plans
          /\ ~HasGrandfathered(j.about)
      BY <1>17 DEF GrandfatherInsert, PlanTypeInv, JobsNamed, PermissionIsOne
    <2>2. r \in LedgerRow /\ ledger' = Append(ledger, r) /\ r.plan = j.about /\ r.grandfathered
      <3>1. r.plan = j.about /\ r.grandfathered
        BY DEF Row
      <3> QED  BY <1>17, <2>1, <3>1, NewRows DEF GrandfatherInsert
    <2>3. /\ k.kind = j.kind /\ k.about = j.about /\ k.at = "end"
          /\ planJobs' = (planJobs \ {j}) \cup {k}
      BY <1>17 DEF GrandfatherInsert, JobGoes, Job
    <2> HIDE DEF r, k
    <2>4. GrandfatheredOnce' /\ \A p : HasGrandfathered(p)' <=> HasGrandfathered(p) \/ p = j.about
      BY <2>1, <2>2, GrandfatheredAppends
    <2> QED  BY <2>1, <2>3, <2>4, PermissionMoves DEF OnceInv
  <1>18. ASSUME NEW j \in planJobs, PlanJobStalls(j) PROVE OnceInv'
    <2> DEFINE k == [j EXCEPT !.at = "start", !.row = 0, !.stalled = TRUE]
               T == {l \in {k} : ~j.stalled}
    <2>0. Len(ledger) \in Nat /\ j \in Job
      BY LenProperties
    <2>1. 0 \in 0..Len(ledger)
      BY <2>0
    <2>2. k.kind = j.kind /\ k.about = j.about /\ k.at = "start"
      BY <2>0, <2>1, JobRecords
    <2>3. planJobs' = (planJobs \ {j}) \cup T /\ T \in SUBSET {k} /\ UNCHANGED <<active, archiving, ledger>>
      BY <1>18 DEF PlanJobStalls
    <2> HIDE DEF k, T
    <2> QED  BY <1>1, <2>2, <2>3, PermissionMoves DEF OnceInv
  <1>19. CASE UNCHANGED planVars
    BY <1>2, <1>19 DEF planVars
  <1> QED
    BY <1>3, <1>4, <1>5, <1>6, <1>7, <1>8, <1>9, <1>10, <1>11, <1>12, <1>13, <1>14, <1>15, <1>16,
       <1>17, <1>18, <1>19 DEF PlanNext

\* GrandfatheredOnce: no two rows grandfather the same plan, though no index forbids it
\* (planCatalogService.ts:223-228, planChangeService.ts:283-289): the one permission that the
\* locked row of an active plan gives passes to one call, to one job and to one row, and a job that
\* is put back after it inserted finds its row.
THEOREM SubscriberGrandfatheredOnce == PlanSpec => []GrandfatheredOnce
  <1>1. OnceInv => GrandfatheredOnce
    BY DEF OnceInv
  <1> QED  BY PlanTypeInit, PlanTypeStep, OnceInit, OnceStep, <1>1, PTL DEF PlanSpec
=============================================================================
