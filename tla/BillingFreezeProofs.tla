------------------------- MODULE BillingFreezeProofs -------------------------
(***************************************************************************)
(* Proofs about BillingFreeze, for any number of pairs, jobs, calls, grace *)
(* periods, subscriptions and promotion runs.  First the types: TypeInv    *)
(* says what each step changes.  Then the safety properties: lemmas say    *)
(* who may change each table and where each step of a handler leads, and   *)
(* the inductive invariant SafetyInv is built on them.  The last part      *)
(* shows that the composed system implements LicenseLifecycle.             *)
(***************************************************************************)
EXTENDS BillingFreeze, TLAPS

\* The steps of a handler at which it has read the pair it works for.
WithPair == {"suspend", "check", "insert", "readSub", "stripeCancel", "recordCancel",
             "plan", "stripeCreate", "recordCreate"}

\* The local variables a handler relies on are set, and a job that is not dead has an
\* attempt left.
LocalsOK ==
    /\ \A w \in Procs : /\ pc[w] \in WithPair => arg[w].pair \in Pairs
                        /\ pc[w] \in {"plan", "stripeCreate"} => arg[w].plan \in Plans
                        /\ pc[w] = "stripeCancel" => arg[w].sub \in Subs
                        /\ pc[w] = "recordCreate" => arg[w].sub \in Subs \cup {CreditSub}
    /\ \A i \in Invoices : pc[i] # "failed" => tries[i] # 0
    /\ \A g \in scan : grace[g].pair \in Pairs

\* A promotion run works on rows that exist.
TodoOK == \A r \in Promoters : \A s \in todo[r] : staged[s].state # "absent"

LicenseInv == LicenseTypeOK /\ TodoOK

TypeInv == TypeOK /\ TodoOK /\ LocalsOK

-----------------------------------------------------------------------------
(* How Return and Throw move a handler.                                    *)

LEMMA KeptType ==
    ASSUME TypeOK, NEW w \in Procs
    PROVE  Kept(w) \in Locals
  BY DEF TypeOK, Kept, Locals, NoLocals

LEMMA ReturnStep ==
    ASSUME TypeOK, NEW w \in Procs, Return(w)
    PROVE  /\ pc' \in [Procs -> Steps] /\ arg' \in [Procs -> Locals]
           /\ tries' = tries /\ scan' = scan
           /\ pc'[w] \in {"completed", "next", "idle"}
           /\ pc'[w] = "completed" => w \in Invoices
           /\ arg'[w] = Kept(w)
           /\ \A x \in Procs \ {w} : pc'[x] = pc[x] /\ arg'[x] = arg[x]
  BY KeptType DEF TypeOK, Return, Goto, Steps

LEMMA ThrowStep ==
    ASSUME TypeInv, NEW w \in Procs, Throw(w), pc[w] # "failed"
    PROVE  /\ pc' \in [Procs -> Steps] /\ arg' \in [Procs -> Locals]
           /\ tries' \in [Invoices -> 0..MaxTries] /\ scan' = scan
           /\ pc'[w] \in {"failed", "lookup", "next", "idle"}
           /\ arg'[w] = Kept(w)
           /\ w \in Invoices => pc'[w] \in {"failed", "lookup"}
           /\ \A i \in Invoices : pc'[i] # "failed" => tries'[i] # 0
           /\ \A x \in Procs \ {w} : pc'[x] = pc[x] /\ arg'[x] = arg[x]
  <1>1. arg' \in [Procs -> Locals] /\ arg'[w] = Kept(w)
        /\ \A x \in Procs \ {w} : arg'[x] = arg[x]
    BY KeptType DEF TypeInv, TypeOK, Throw
  <1>2. CASE w \in Invoices
    <2>1. tries[w] \in 0..MaxTries /\ tries[w] # 0
      BY <1>2 DEF TypeInv, TypeOK, LocalsOK
    <2>2. /\ tries' = [tries EXCEPT ![w] = @ - 1]
          /\ pc' = [pc EXCEPT ![w] = IF tries[w] = 1 THEN "failed" ELSE "lookup"]
      BY <1>2 DEF Throw, Goto
    <2>3. tries' \in [Invoices -> 0..MaxTries]
      <3>1. tries[w] - 1 \in 0..MaxTries
        BY <2>1, MaxTriesAssumption
      <3>2. tries \in [Invoices -> 0..MaxTries]
        BY DEF TypeInv, TypeOK
      <3> QED  BY <1>2, <2>2, <3>1, <3>2
    <2>4. \A i \in Invoices : pc'[i] # "failed" => tries'[i] # 0
      BY <1>2, <2>1, <2>2 DEF TypeInv, TypeOK, LocalsOK, Procs
    <2> QED  BY <1>1, <1>2, <2>2, <2>3, <2>4 DEF TypeInv, TypeOK, Throw, Steps
  <1>3. CASE w \notin Invoices
    BY <1>1, <1>3 DEF TypeInv, TypeOK, LocalsOK, Throw, Goto, Steps, Procs
  <1> QED  BY <1>2, <1>3

LEMMA InitType == Init => TypeInv
  <1> SUFFICES ASSUME Init PROVE TypeInv
    OBVIOUS
  <1>1. LicenseTypeOK
    BY DEF Init, LicenseInit, LicenseTypeOK, Licence, NoLicence, Reasons, StagedChange
  <1>2. grace \in [Graces -> GracePeriod] /\ stripe \in [Subs -> Subscription]
    BY DEF Init, GracePeriod, Subscription
  <1>3. row \in [Pairs -> SubscriptionRow] /\ arg \in [Procs -> Locals]
    BY DEF Init, SubscriptionRow, NoRow, Locals, NoLocals
  <1>4. pc \in [Procs -> Steps] /\ tries \in [Invoices -> 0..MaxTries]
    BY MaxTriesAssumption DEF Init, Steps
  <1>5. replay \in [Pairs -> [Plans -> Subs \cup {None}]] /\ due \in SUBSET Graces
        /\ scan \in SUBSET Graces
    BY DEF Init
  <1>6. LocalsOK
    BY MaxTriesAssumption DEF Init, LocalsOK, WithPair, Procs
  <1>7. TodoOK
    BY DEF Init, LicenseInit, TodoOK
  <1> QED  BY <1>1, <1>2, <1>3, <1>4, <1>5, <1>6, <1>7 DEF TypeInv, TypeOK

-----------------------------------------------------------------------------
(* Every step preserves the type invariant.                                *)

LEMMA LicenseStepType ==
    ASSUME LicenseInv, LicenseNext
    PROVE  LicenseInv'
  <1> USE DEF LicenseInv, LicenseTypeOK, TodoOK
  <1>1. ASSUME NEW p \in Pairs, CreateLicense(p) PROVE LicenseInv'
    BY <1>1 DEF CreateLicense, Licence, Statuses
  <1>2. ASSUME NEW p \in Pairs, ActivateLicense(p) PROVE LicenseInv'
    BY <1>2 DEF ActivateLicense, Licence, Statuses
  <1>3. ASSUME NEW p \in Pairs, FreezeLicense(p) PROVE LicenseInv'
    BY <1>3 DEF FreezeLicense, Suspend, Licence, Statuses, Reasons
  <1>4. ASSUME NEW p \in Pairs, UnfreezeProduct(p) PROVE LicenseInv'
    BY <1>4 DEF UnfreezeProduct, Licence, Statuses, Reasons
  <1>5. ASSUME NEW p \in Pairs, CancelLicense(p) PROVE LicenseInv'
    BY <1>5 DEF CancelLicense, Licence, Statuses, Reasons
  <1>6. ASSUME NEW s \in Stages, StageChange(s) PROVE LicenseInv'
    BY <1>6 DEF StageChange, StagedChange
  <1>7. ASSUME NEW r \in Promoters, PromotionRead(r) PROVE LicenseInv'
    BY <1>7 DEF PromotionRead
  <1>8. ASSUME NEW r \in Promoters, PromotionWrite(r) PROVE LicenseInv'
    <2> PICK s \in todo[r] :
          /\ lic' = [lic EXCEPT ![staged[s].pair].status = staged[s].to]
          /\ staged' = [staged EXCEPT ![s].state = "promoted"]
          /\ todo' = [todo EXCEPT ![r] = @ \ {s}]
      BY <1>8 DEF PromotionWrite
    <2>1. s \in Stages /\ staged[s].state # "absent"
      BY <1>8
    <2>2. todo' \in [Promoters -> SUBSET Stages]
      BY <1>8
    <2>3. staged[s].to \in Statuses \cup {"none"}
      BY <2>1 DEF StagedChange, NoChange
    <2>4. lic' \in [Pairs -> Licence]
      BY <2>3 DEF Licence
    <2>5. staged' \in [Stages -> StagedChange]
      BY <2>1 DEF StagedChange, NoChange
    <2>6. TodoOK'
      BY <1>8, <2>1, <2>5
    <2> QED  BY <2>2, <2>4, <2>5, <2>6
  <1>9. ASSUME NEW r \in Promoters, PromotionSkip(r) \/ PromotionCrash(r)
        PROVE  LicenseInv'
    BY <1>9 DEF PromotionSkip, PromotionCrash
  <1> QED  BY <1>1, <1>2, <1>3, <1>4, <1>5, <1>6, <1>7, <1>8, <1>9 DEF LicenseNext

FreezeTypeOK ==
    /\ grace \in [Graces -> GracePeriod]
    /\ due \in SUBSET Graces
    /\ row \in [Pairs -> SubscriptionRow]
    /\ stripe \in [Subs -> Subscription]
    /\ replay \in [Pairs -> [Plans -> Subs \cup {None}]]

\* A grace period of a pair stays one of the pair.
GracesKept == \A g \in Graces : grace[g].pair # None => grace'[g].pair = grace[g].pair

LEMMA ProcsSplit ==
    /\ Scanner \in Procs /\ Invoices \subseteq Procs /\ Callers \subseteq Procs
    /\ Scanner \notin Invoices /\ Scanner \notin Callers
    /\ \A c \in Callers : c \notin Invoices
  BY ProcsAssumption DEF Procs

LEMMA NoneIsNoPair == None \notin Pairs /\ None \notin Subs /\ None \notin Plans
  BY NamesAssumption DEF NamesAssumption

LEMMA FreezeTypeSame ==
    ASSUME TypeInv, UNCHANGED freezeVars
    PROVE  FreezeTypeOK' /\ GracesKept
  BY DEF TypeInv, TypeOK, FreezeTypeOK, GracesKept, freezeVars

LEMMA LicenseTypeSame ==
    ASSUME TypeInv, UNCHANGED licenseVars
    PROVE  LicenseTypeOK' /\ TodoOK'
  BY DEF TypeInv, TypeOK, LicenseTypeOK, TodoOK, licenseVars

LEMMA ReturnType ==
    ASSUME TypeInv, NEW w \in Procs, Return(w), pc[w] # "failed",
           LicenseTypeOK', TodoOK', FreezeTypeOK', GracesKept
    PROVE  TypeInv'
  <1>1. /\ pc' \in [Procs -> Steps] /\ arg' \in [Procs -> Locals]
        /\ tries' = tries /\ scan' = scan
        /\ pc'[w] \in {"completed", "next", "idle"}
        /\ \A x \in Procs \ {w} : pc'[x] = pc[x] /\ arg'[x] = arg[x]
    BY ReturnStep DEF TypeInv
  <1>2. TypeOK'
    BY <1>1 DEF TypeInv, TypeOK, FreezeTypeOK
  <1>3. LocalsOK'
    <2>1. \A i \in Invoices : pc'[i] # "failed" => tries'[i] # 0
      BY <1>1, ProcsSplit DEF TypeInv, LocalsOK
    <2>2. \A g \in scan' : grace'[g].pair \in Pairs
      BY <1>1, NoneIsNoPair DEF TypeInv, TypeOK, LocalsOK, GracesKept
    <2> QED  BY <1>1, <2>1, <2>2 DEF TypeInv, LocalsOK, WithPair
  <1> QED  BY <1>2, <1>3 DEF TypeInv

LEMMA ThrowType ==
    ASSUME TypeInv, NEW w \in Procs, Throw(w), pc[w] # "failed",
           LicenseTypeOK', TodoOK', FreezeTypeOK', GracesKept
    PROVE  TypeInv'
  <1>1. /\ pc' \in [Procs -> Steps] /\ arg' \in [Procs -> Locals]
        /\ tries' \in [Invoices -> 0..MaxTries] /\ scan' = scan
        /\ pc'[w] \in {"failed", "lookup", "next", "idle"}
        /\ \A i \in Invoices : pc'[i] # "failed" => tries'[i] # 0
        /\ \A x \in Procs \ {w} : pc'[x] = pc[x] /\ arg'[x] = arg[x]
    BY ThrowStep
  <1>2. TypeOK'
    BY <1>1 DEF TypeInv, TypeOK, FreezeTypeOK
  <1>3. \A g \in scan' : grace'[g].pair \in Pairs
    BY <1>1, NoneIsNoPair DEF TypeInv, TypeOK, LocalsOK, GracesKept
  <1>4. LocalsOK'
    BY <1>1, <1>3 DEF TypeInv, LocalsOK, WithPair
  <1> QED  BY <1>1, <1>2, <1>4 DEF TypeInv

LEMMA GotoType ==
    ASSUME TypeInv, NEW w \in Procs, NEW step \in Steps \ {"failed"}, Goto(w, step),
           pc[w] # "failed",
           NEW l \in Locals, arg' = [arg EXCEPT ![w] = l],
           step \in WithPair => l.pair \in Pairs,
           step \in {"plan", "stripeCreate"} => l.plan \in Plans,
           step = "stripeCancel" => l.sub \in Subs,
           step = "recordCreate" => l.sub \in Subs \cup {CreditSub},
           UNCHANGED tries, scan' \in SUBSET Graces, \A g \in scan' : grace'[g].pair \in Pairs,
           LicenseTypeOK', TodoOK', FreezeTypeOK'
    PROVE  TypeInv'
  <1>1. pc' = [pc EXCEPT ![w] = step]
    BY DEF Goto
  <1>2. TypeOK'
    BY <1>1 DEF TypeInv, TypeOK, FreezeTypeOK
  <1>3. \A i \in Invoices : pc'[i] # "failed" => tries'[i] # 0
    BY <1>1, ProcsSplit DEF TypeInv, TypeOK, LocalsOK
  <1>4. ASSUME NEW x \in Procs
        PROVE  /\ pc'[x] \in WithPair => arg'[x].pair \in Pairs
               /\ pc'[x] \in {"plan", "stripeCreate"} => arg'[x].plan \in Plans
               /\ pc'[x] = "stripeCancel" => arg'[x].sub \in Subs
               /\ pc'[x] = "recordCreate" => arg'[x].sub \in Subs \cup {CreditSub}
    BY <1>1 DEF TypeInv, TypeOK, LocalsOK
  <1>5. LocalsOK'
    BY <1>3, <1>4 DEF LocalsOK
  <1> QED  BY <1>2, <1>5 DEF TypeInv

LEMMA ScanKept ==
    ASSUME TypeInv, GracesKept, scan' = scan
    PROVE  scan' \in SUBSET Graces /\ \A g \in scan' : grace'[g].pair \in Pairs
  BY NoneIsNoPair DEF TypeInv, TypeOK, LocalsOK, GracesKept

\* A step to another point of the handler that changes no local variable.
LEMMA GotoSameType ==
    ASSUME TypeInv, NEW w \in Procs, NEW step \in Steps \ {"failed"}, Goto(w, step),
           pc[w] # "failed", UNCHANGED <<arg, tries, scan>>,
           step \in WithPair => arg[w].pair \in Pairs,
           step \in {"plan", "stripeCreate"} => arg[w].plan \in Plans,
           step = "stripeCancel" => arg[w].sub \in Subs,
           step = "recordCreate" => arg[w].sub \in Subs \cup {CreditSub},
           LicenseTypeOK', TodoOK', FreezeTypeOK', GracesKept
    PROVE  TypeInv'
  <1> DEFINE l == arg[w]
  <1>1. l \in Locals /\ arg' = [arg EXCEPT ![w] = l]
    BY DEF TypeInv, TypeOK
  <1>2. scan' \in SUBSET Graces /\ \A g \in scan' : grace'[g].pair \in Pairs
    BY ScanKept
  <1>3. /\ step \in WithPair => l.pair \in Pairs
        /\ step \in {"plan", "stripeCreate"} => l.plan \in Plans
        /\ step = "stripeCancel" => l.sub \in Subs
        /\ step = "recordCreate" => l.sub \in Subs \cup {CreditSub}
    OBVIOUS
  <1> HIDE DEF l
  <1> QED  BY <1>1, <1>2, <1>3, GotoType

LEMMA JobStepType ==
    ASSUME TypeInv, NEW i \in Invoices, EnqueuePaymentFailed(i) \/ JobStep(i)
    PROVE  TypeInv'
  <1>0. i \in Procs /\ {"lookup", "suspend", "check", "insert", "readSub"} \subseteq Steps
    BY ProcsSplit DEF Steps
  <1>1. ASSUME EnqueuePaymentFailed(i) PROVE TypeInv'
    <2>1. LicenseTypeOK' /\ TodoOK' /\ FreezeTypeOK' /\ GracesKept
      BY <1>1, LicenseTypeSame, FreezeTypeSame DEF EnqueuePaymentFailed
    <2> QED  BY <1>0, <1>1, <2>1, GotoSameType DEF EnqueuePaymentFailed, WithPair
  <1>2. ASSUME LookupInvoice(i) PROVE TypeInv'
    <2>1. LicenseTypeOK' /\ TodoOK' /\ FreezeTypeOK' /\ GracesKept
      BY <1>2, LicenseTypeSame, FreezeTypeSame DEF LookupInvoice
    <2>2. ASSUME NEW p \in Pairs, arg' = [arg EXCEPT ![i].pair = p], Goto(i, "suspend"),
                 UNCHANGED <<tries, scan>>
          PROVE  TypeInv'
      <3> DEFINE l == [arg[i] EXCEPT !.pair = p]
      <3>1. l \in Locals /\ arg' = [arg EXCEPT ![i] = l] /\ l.pair = p
        BY <1>0, <2>2 DEF TypeInv, TypeOK, Locals
      <3>2. scan' \in SUBSET Graces /\ \A g \in scan' : grace'[g].pair \in Pairs
        BY <2>1, <2>2, ScanKept
      <3>3. "suspend" \in Steps \ {"failed"} /\ pc[i] # "failed"
        BY <1>2 DEF LookupInvoice, Steps
      <3>4. /\ "suspend" \in WithPair => l.pair \in Pairs
            /\ "suspend" \in {"plan", "stripeCreate"} => l.plan \in Plans
            /\ "suspend" = "stripeCancel" => l.sub \in Subs
            /\ "suspend" = "recordCreate" => l.sub \in Subs \cup {CreditSub}
        BY <3>1
      <3>5. UNCHANGED tries
        BY <2>2
      <3> HIDE DEF l
      <3> QED  BY <1>0, <2>1, <2>2, <3>1, <3>2, <3>3, <3>4, <3>5, GotoType
    <2>3. CASE Return(i)
      BY <1>0, <1>2, <2>1, <2>3, ReturnType DEF LookupInvoice
    <2> QED  BY <1>2, <2>2, <2>3 DEF LookupInvoice
  <1>3. ASSUME SuspendForPayment(i) PROVE TypeInv'
    <2>1. FreezeTypeOK' /\ GracesKept
      BY <1>3, FreezeTypeSame DEF SuspendForPayment
    <2>2. LicenseTypeOK' /\ TodoOK'
      BY <1>3 DEF SuspendForPayment, Suspend, TypeInv, TypeOK, LicenseTypeOK, TodoOK,
                  Licence, Statuses, Reasons
    <2>3. arg[i].pair \in Pairs
      BY <1>0, <1>3 DEF SuspendForPayment, TypeInv, LocalsOK, WithPair
    <2> QED  BY <1>0, <1>3, <2>1, <2>2, <2>3, GotoSameType DEF SuspendForPayment
  <1>4. ASSUME SuspendRefused(i) PROVE TypeInv'
    <2>1. LicenseTypeOK' /\ TodoOK' /\ FreezeTypeOK' /\ GracesKept
      BY <1>4, LicenseTypeSame, FreezeTypeSame DEF SuspendRefused
    <2>2. arg[i].pair \in Pairs
      BY <1>0, <1>4 DEF SuspendRefused, TypeInv, LocalsOK, WithPair
    <2> QED  BY <1>0, <1>4, <2>1, <2>2, GotoSameType DEF SuspendRefused
  <1>5. ASSUME SuspendThrows(i) PROVE TypeInv'
    <2>1. LicenseTypeOK' /\ TodoOK' /\ FreezeTypeOK' /\ GracesKept
      BY <1>5, LicenseTypeSame, FreezeTypeSame DEF SuspendThrows
    <2> QED  BY <1>0, <1>5, <2>1, ThrowType DEF SuspendThrows
  <1>6. ASSUME CheckOpenGrace(i) PROVE TypeInv'
    <2>1. LicenseTypeOK' /\ TodoOK' /\ FreezeTypeOK' /\ GracesKept
      BY <1>6, LicenseTypeSame, FreezeTypeSame DEF CheckOpenGrace
    <2>2. arg[i].pair \in Pairs
      BY <1>0, <1>6 DEF CheckOpenGrace, TypeInv, LocalsOK, WithPair
    <2>3. CASE Return(i)
      BY <1>0, <1>6, <2>1, <2>3, ReturnType DEF CheckOpenGrace
    <2>4. CASE Goto(i, "insert") /\ UNCHANGED <<arg, tries, scan>>
      BY <1>0, <1>6, <2>1, <2>2, <2>4, GotoSameType DEF CheckOpenGrace
    <2> QED  BY <1>6, <2>3, <2>4 DEF CheckOpenGrace
  <1>7. ASSUME InsertGrace(i) PROVE TypeInv'
    <2>1. LicenseTypeOK' /\ TodoOK'
      BY <1>7, LicenseTypeSame DEF InsertGrace
    <2>2. arg[i].pair \in Pairs
      BY <1>0, <1>7 DEF InsertGrace, TypeInv, LocalsOK, WithPair
    <2>3. PICK g \in Graces :
            /\ grace[g].state = "absent"
            /\ grace' = [grace EXCEPT ![g] = [state |-> "open", pair |-> arg[i].pair]]
      BY <1>7 DEF InsertGrace
    <2>4. [state |-> "open", pair |-> arg[i].pair] \in GracePeriod
      BY <2>2 DEF GracePeriod
    <2>5. grace \in [Graces -> GracePeriod]
      BY DEF TypeInv, TypeOK
    <2>6. grace[g].pair = None
      BY <2>3, <2>5 DEF GracePeriod, NoGrace, Resolutions
    <2>7. FreezeTypeOK'
      BY <1>7, <2>3, <2>4, <2>5 DEF InsertGrace, TypeInv, TypeOK, FreezeTypeOK
    <2>8. GracesKept
      BY <2>3, <2>5, <2>6 DEF GracesKept
    <2> QED  BY <1>0, <1>7, <2>1, <2>2, <2>7, <2>8, GotoSameType DEF InsertGrace
  <1> QED  BY <1>1, <1>2, <1>3, <1>4, <1>5, <1>6, <1>7 DEF JobStep

LEMMA CancelStepType ==
    ASSUME TypeInv, NEW w \in Procs, CancelStep(w) \/ StepFails(w)
    PROVE  TypeInv'
  <1>0. {"recordCancel", "stripeCancel"} \subseteq Steps
    BY DEF Steps
  <1>1. ASSUME ReadSubscription(w) PROVE TypeInv'
    <2> DEFINE s == row[arg[w].pair].sub
               step == IF s = CreditSub THEN "recordCancel" ELSE "stripeCancel"
               l == [arg[w] EXCEPT !.sub = s]
    <2>1. LicenseTypeOK' /\ TodoOK' /\ FreezeTypeOK' /\ GracesKept
      BY <1>1, LicenseTypeSame, FreezeTypeSame DEF ReadSubscription
    <2>2. arg[w].pair \in Pairs /\ pc[w] # "failed"
      BY <1>1 DEF ReadSubscription, TypeInv, LocalsOK, WithPair
    <2>3. s \in Subs \cup {CreditSub, None}
      BY <2>2 DEF TypeInv, TypeOK, SubscriptionRow
    <2>4. CASE s = None
      BY <1>1, <2>1, <2>2, <2>4, ThrowType DEF ReadSubscription
    <2>5. CASE s # None
      <3>1. Goto(w, step) /\ arg' = [arg EXCEPT ![w].sub = s] /\ UNCHANGED <<tries, scan>>
        BY <1>1, <2>5 DEF ReadSubscription
      <3>2. l \in Locals /\ arg' = [arg EXCEPT ![w] = l] /\ l.pair \in Pairs /\ l.sub = s
        BY <2>2, <2>3, <3>1 DEF TypeInv, TypeOK, Locals
      <3>3. scan' \in SUBSET Graces /\ \A g \in scan' : grace'[g].pair \in Pairs
        BY <2>1, <3>1, ScanKept
      <3>4. step \in Steps \ {"failed"} /\ step \notin {"plan", "stripeCreate", "recordCreate"}
        BY <1>0
      <3>5. step = "stripeCancel" => l.sub \in Subs
        BY <2>3, <2>5, <3>2
      <3>6. /\ step \in WithPair => l.pair \in Pairs
            /\ step \in {"plan", "stripeCreate"} => l.plan \in Plans
            /\ step = "recordCreate" => l.sub \in Subs \cup {CreditSub}
        BY <3>2, <3>4
      <3>7. UNCHANGED tries
        BY <3>1
      <3> HIDE DEF l, step, s
      <3> QED  BY <2>1, <2>2, <3>1, <3>2, <3>3, <3>4, <3>5, <3>6, <3>7, GotoType
    <2> QED  BY <2>4, <2>5
  <1>2. ASSUME StripeCancel(w) PROVE TypeInv'
    <2>1. LicenseTypeOK' /\ TodoOK'
      BY <1>2, LicenseTypeSame DEF StripeCancel
    <2>2. arg[w].pair \in Pairs /\ arg[w].sub \in Subs /\ pc[w] # "failed"
      BY <1>2 DEF StripeCancel, TypeInv, LocalsOK, WithPair
    <2>3. GracesKept
      BY <1>2 DEF StripeCancel, GracesKept
    <2>4. CASE /\ stripe[arg[w].sub].state = "active"
               /\ stripe' = IF arg[w].now THEN [stripe EXCEPT ![arg[w].sub].state = "canceled"]
                                          ELSE [stripe EXCEPT ![arg[w].sub].atEnd = TRUE]
               /\ Goto(w, "recordCancel")
               /\ UNCHANGED <<arg, tries, scan>>
      <3> DEFINE s == arg[w].sub
      <3>a. stripe[s] \in [state : {"active", "canceled"}, atEnd : BOOLEAN, pair : Pairs]
        BY <2>2, <2>4 DEF TypeInv, TypeOK, Subscription, NoSubscription
      <3>b. /\ [stripe[s] EXCEPT !.state = "canceled"] \in Subscription
            /\ [stripe[s] EXCEPT !.atEnd = TRUE] \in Subscription
        BY <3>a DEF Subscription
      <3>c. stripe \in [Subs -> Subscription] /\ s \in Subs
        BY <2>2 DEF TypeInv, TypeOK
      <3>d. \/ stripe' = [stripe EXCEPT ![s] = [stripe[s] EXCEPT !.state = "canceled"]]
            \/ stripe' = [stripe EXCEPT ![s] = [stripe[s] EXCEPT !.atEnd = TRUE]]
        BY <2>4
      <3>1. stripe' \in [Subs -> Subscription]
        BY <3>b, <3>c, <3>d
      <3>2. FreezeTypeOK'
        BY <1>2, <3>1 DEF StripeCancel, TypeInv, TypeOK, FreezeTypeOK
      <3> QED  BY <1>0, <2>1, <2>2, <2>3, <2>4, <3>2, GotoSameType
    <2>5. CASE Throw(w) /\ UNCHANGED stripe
      <3>1. FreezeTypeOK'
        BY <1>2, <2>5 DEF StripeCancel, TypeInv, TypeOK, FreezeTypeOK
      <3> QED  BY <2>1, <2>2, <2>3, <2>5, <3>1, ThrowType
    <2> QED  BY <1>2, <2>4, <2>5 DEF StripeCancel
  <1>3. ASSUME RecordCancel(w) PROVE TypeInv'
    <2>1. LicenseTypeOK' /\ TodoOK'
      BY <1>3, LicenseTypeSame DEF RecordCancel
    <2>2. row' \in [Pairs -> SubscriptionRow]
      <3>1. row \in [Pairs -> SubscriptionRow]
        BY DEF TypeInv, TypeOK
      <3>2. PICK p : \/ row' = [row EXCEPT ![p].status = "canceled"]
                     \/ row' = [row EXCEPT ![p].atEnd = TRUE]
        BY <1>3 DEF RecordCancel
      <3>3. \A x \in SubscriptionRow : /\ [x EXCEPT !.status = "canceled"] \in SubscriptionRow
                                       /\ [x EXCEPT !.atEnd = TRUE] \in SubscriptionRow
        BY DEF SubscriptionRow
      <3> QED  BY <3>1, <3>2, <3>3
    <2>3. FreezeTypeOK' /\ GracesKept
      BY <1>3, <2>2 DEF RecordCancel, TypeInv, TypeOK, FreezeTypeOK, GracesKept
    <2> QED  BY <1>3, <2>1, <2>3, ReturnType DEF RecordCancel
  <1>4. ASSUME StepFails(w) PROVE TypeInv'
    <2>1. LicenseTypeOK' /\ TodoOK' /\ FreezeTypeOK' /\ GracesKept
      BY <1>4, LicenseTypeSame, FreezeTypeSame DEF StepFails
    <2> QED  BY <1>4, <2>1, ThrowType DEF StepFails, Running
  <1> QED  BY <1>1, <1>2, <1>3, <1>4 DEF CancelStep

\* Resolving some open periods keeps the type of the table and the pair of each row.
LEMMA ResolveType ==
    ASSUME TypeInv, NEW gs, NEW resolution \in Resolutions, Resolve(gs, resolution),
           \A g \in gs : grace[g].state = "open"
    PROVE  grace' \in [Graces -> GracePeriod] /\ GracesKept
  <1>1. ASSUME NEW g \in Graces
        PROVE  grace'[g] \in GracePeriod /\ grace'[g].pair = grace[g].pair
    BY DEF TypeInv, TypeOK, Resolve, GracePeriod, NoGrace, Resolutions
  <1> QED  BY <1>1 DEF Resolve, GracesKept

LEMMA CallStepType ==
    ASSUME TypeInv, NEW c \in Callers, CallStep(c)
    PROVE  TypeInv'
  <1>0. c \in Procs /\ {"readSub", "plan", "stripeCreate", "recordCreate"} \subseteq Steps
    BY ProcsSplit DEF Steps
  <1>1. ASSUME NEW p \in Pairs, HandleLicenceCancelled(c, p) PROVE TypeInv'
    <2> DEFINE l == [NoLocals EXCEPT !.pair = p, !.now = TRUE]
    <2>1. LicenseTypeOK' /\ TodoOK'
      BY <1>1, LicenseTypeSame DEF HandleLicenceCancelled
    <2>2. grace' \in [Graces -> GracePeriod] /\ GracesKept
      BY <1>1, ResolveType DEF HandleLicenceCancelled, OpenGraces, Resolutions
    <2>3. FreezeTypeOK'
      BY <1>1, <2>2 DEF HandleLicenceCancelled, TypeInv, TypeOK, FreezeTypeOK
    <2>4. l \in Locals /\ l.pair \in Pairs
      BY DEF Locals, NoLocals
    <2>5. scan' \in SUBSET Graces /\ \A g \in scan' : grace'[g].pair \in Pairs
      BY <1>1, <2>2, ScanKept DEF HandleLicenceCancelled
    <2>6. /\ pc[c] = "idle" /\ Goto(c, "readSub") /\ UNCHANGED tries
          /\ arg' = [arg EXCEPT ![c] = l]
      BY <1>1 DEF HandleLicenceCancelled
    <2>7. /\ "readSub" \in WithPair => l.pair \in Pairs
          /\ "readSub" \in {"plan", "stripeCreate"} => l.plan \in Plans
          /\ "readSub" = "stripeCancel" => l.sub \in Subs
          /\ "readSub" = "recordCreate" => l.sub \in Subs \cup {CreditSub}
      BY <2>4
    <2> HIDE DEF l
    <2> QED  BY <1>0, <2>1, <2>2, <2>3, <2>4, <2>5, <2>6, <2>7, GotoType
  <1>2. ASSUME NEW p \in Pairs, NEW q \in Plans, HandleLicenseReactivated(c, p, q)
        PROVE  TypeInv'
    <2> DEFINE l == [NoLocals EXCEPT !.pair = p, !.plan = q]
    <2>1. LicenseTypeOK' /\ TodoOK'
      BY <1>2, LicenseTypeSame DEF HandleLicenseReactivated
    <2>2. grace' \in [Graces -> GracePeriod] /\ GracesKept
      BY <1>2, ResolveType DEF HandleLicenseReactivated, OpenGraces, Resolutions
    <2>3. FreezeTypeOK'
      BY <1>2, <2>2 DEF HandleLicenseReactivated, TypeInv, TypeOK, FreezeTypeOK
    <2>4. l \in Locals /\ l.pair \in Pairs /\ l.plan \in Plans
      BY DEF Locals, NoLocals
    <2>5. scan' \in SUBSET Graces /\ \A g \in scan' : grace'[g].pair \in Pairs
      BY <1>2, <2>2, ScanKept DEF HandleLicenseReactivated
    <2>6. /\ pc[c] = "idle" /\ Goto(c, "plan") /\ UNCHANGED tries
          /\ arg' = [arg EXCEPT ![c] = l]
      BY <1>2 DEF HandleLicenseReactivated
    <2>7. /\ "plan" \in WithPair => l.pair \in Pairs
          /\ "plan" \in {"plan", "stripeCreate"} => l.plan \in Plans
          /\ "plan" = "stripeCancel" => l.sub \in Subs
          /\ "plan" = "recordCreate" => l.sub \in Subs \cup {CreditSub}
      BY <2>4
    <2> HIDE DEF l
    <2> QED  BY <1>0, <2>1, <2>2, <2>3, <2>4, <2>5, <2>6, <2>7, GotoType
  <1>3. ASSUME LookupPlan(c) PROVE TypeInv'
    <2> DEFINE l == [arg[c] EXCEPT !.sub = CreditSub]
    <2>1. LicenseTypeOK' /\ TodoOK' /\ FreezeTypeOK' /\ GracesKept
      BY <1>3, LicenseTypeSame, FreezeTypeSame DEF LookupPlan
    <2>2. pc[c] = "plan" /\ arg[c].pair \in Pairs /\ arg[c].plan \in Plans
      BY <1>0, <1>3 DEF LookupPlan, TypeInv, LocalsOK, WithPair
    <2>3. scan' \in SUBSET Graces /\ \A g \in scan' : grace'[g].pair \in Pairs
      BY <1>3, <2>1, ScanKept DEF LookupPlan
    <2>4. l \in Locals /\ l.pair \in Pairs /\ l.sub = CreditSub
      BY <1>0, <2>2 DEF TypeInv, TypeOK, Locals
    <2>5. CASE Goto(c, "recordCreate") /\ arg' = [arg EXCEPT ![c].sub = CreditSub]
      <3>1. arg' = [arg EXCEPT ![c] = l] /\ UNCHANGED tries
        BY <1>3, <2>5 DEF LookupPlan
      <3>2. /\ "recordCreate" \in WithPair => l.pair \in Pairs
            /\ "recordCreate" \in {"plan", "stripeCreate"} => l.plan \in Plans
            /\ "recordCreate" = "stripeCancel" => l.sub \in Subs
            /\ "recordCreate" = "recordCreate" => l.sub \in Subs \cup {CreditSub}
        BY <2>4
      <3> HIDE DEF l
      <3> QED  BY <1>0, <2>1, <2>2, <2>3, <2>4, <2>5, <3>1, <3>2, GotoType
    <2>6. CASE Goto(c, "stripeCreate") /\ UNCHANGED arg
      BY <1>0, <1>3, <2>1, <2>2, <2>6, GotoSameType DEF LookupPlan
    <2> QED  BY <1>3, <2>5, <2>6 DEF LookupPlan
  <1>4. ASSUME StripeCreate(c) PROVE TypeInv'
    <2> DEFINE p == arg[c].pair
               q == arg[c].plan
    <2>1. LicenseTypeOK' /\ TodoOK' /\ GracesKept
      BY <1>4, LicenseTypeSame DEF StripeCreate, GracesKept
    <2>2. pc[c] = "stripeCreate" /\ p \in Pairs /\ q \in Plans
      BY <1>0, <1>4 DEF StripeCreate, TypeInv, LocalsOK, WithPair
    <2>3. PICK s \in Subs :
            /\ \/ stripe' = stripe
               \/ stripe' = [stripe EXCEPT ![s] = [state |-> "active", atEnd |-> FALSE,
                                                   pair |-> p]]
            /\ replay' = [replay EXCEPT ![p][q] = s]
            /\ arg' = [arg EXCEPT ![c].sub = s]
      BY <1>4 DEF StripeCreate
    <2> DEFINE l == [arg[c] EXCEPT !.sub = s]
    <2>a. /\ [state |-> "active", atEnd |-> FALSE, pair |-> p] \in Subscription
          /\ stripe \in [Subs -> Subscription]
      BY <2>2 DEF TypeInv, TypeOK, Subscription
    <2>4. stripe' \in [Subs -> Subscription]
      BY <2>3, <2>a
    <2>5. replay' \in [Pairs -> [Plans -> Subs \cup {None}]]
      BY <2>2, <2>3 DEF TypeInv, TypeOK
    <2>6. FreezeTypeOK'
      BY <1>4, <2>4, <2>5 DEF StripeCreate, TypeInv, TypeOK, FreezeTypeOK
    <2>7. l \in Locals /\ arg' = [arg EXCEPT ![c] = l] /\ l.pair \in Pairs /\ l.sub \in Subs
      <3>1. arg[c] \in Locals
        BY <1>0 DEF TypeInv, TypeOK
      <3>2. l \in Locals /\ l.pair = p /\ l.sub = s
        BY <3>1 DEF Locals
      <3>3. arg' = [arg EXCEPT ![c] = l]
        BY <2>3
      <3> QED  BY <2>2, <3>2, <3>3
    <2>8. scan' \in SUBSET Graces /\ \A g \in scan' : grace'[g].pair \in Pairs
      BY <1>4, <2>1, ScanKept DEF StripeCreate
    <2>9. Goto(c, "recordCreate") /\ UNCHANGED tries
      BY <1>4 DEF StripeCreate
    <2>10. /\ "recordCreate" \in WithPair => l.pair \in Pairs
           /\ "recordCreate" \in {"plan", "stripeCreate"} => l.plan \in Plans
           /\ "recordCreate" = "stripeCancel" => l.sub \in Subs
           /\ "recordCreate" = "recordCreate" => l.sub \in Subs \cup {CreditSub}
      BY <2>7
    <2> HIDE DEF l
    <2> QED  BY <1>0, <2>1, <2>2, <2>6, <2>7, <2>8, <2>9, <2>10, GotoType
  <1>5. ASSUME RecordCreate(c) PROVE TypeInv'
    <2>1. LicenseTypeOK' /\ TodoOK' /\ GracesKept
      BY <1>5, LicenseTypeSame DEF RecordCreate, GracesKept
    <2>2. arg[c].pair \in Pairs /\ arg[c].sub \in Subs \cup {CreditSub}
      BY <1>0, <1>5 DEF RecordCreate, TypeInv, LocalsOK, WithPair
    <2>3. row' \in [Pairs -> SubscriptionRow]
      BY <1>5, <2>2 DEF RecordCreate, TypeInv, TypeOK, SubscriptionRow
    <2>4. FreezeTypeOK'
      BY <1>5, <2>3 DEF RecordCreate, TypeInv, TypeOK, FreezeTypeOK
    <2> QED  BY <1>0, <1>5, <2>1, <2>4, ReturnType DEF RecordCreate
  <1> QED  BY <1>1, <1>2, <1>3, <1>4, <1>5 DEF CallStep

LEMMA ScannerStepType ==
    ASSUME TypeInv, ScannerStep
    PROVE  TypeInv'
  <1>0. Scanner \in Procs /\ {"next", "readSub", "idle"} \subseteq Steps
    BY ProcsSplit DEF Steps
  <1>1. ASSUME Scan PROVE TypeInv'
    <2> DEFINE expired == {g \in due : grace[g].state = "open"}
               l == arg[Scanner]
    <2>1. LicenseTypeOK' /\ TodoOK'
      BY <1>1, LicenseTypeSame DEF Scan
    <2>2. /\ pc[Scanner] = "idle" /\ Resolve(expired, "expired") /\ scan' = expired
          /\ Goto(Scanner, "next") /\ UNCHANGED <<arg, tries, due, row, stripe, replay>>
      BY <1>1 DEF Scan
    <2>3. grace' \in [Graces -> GracePeriod] /\ GracesKept
      BY <2>2, ResolveType DEF Resolutions
    <2>4. FreezeTypeOK'
      BY <2>2, <2>3 DEF TypeInv, TypeOK, FreezeTypeOK
    <2>5. l \in Locals /\ arg' = [arg EXCEPT ![Scanner] = l]
      BY <1>0, <2>2 DEF TypeInv, TypeOK
    <2>6. ASSUME NEW g \in expired PROVE g \in Graces /\ grace'[g].pair \in Pairs
      BY <2>3, NoneIsNoPair DEF TypeInv, TypeOK, GracePeriod, NoGrace, Resolutions, GracesKept
    <2>7. /\ "next" \in WithPair => l.pair \in Pairs
          /\ "next" \in {"plan", "stripeCreate"} => l.plan \in Plans
          /\ "next" = "stripeCancel" => l.sub \in Subs
          /\ "next" = "recordCreate" => l.sub \in Subs \cup {CreditSub}
      BY DEF WithPair
    <2> HIDE DEF l, expired
    <2> QED  BY <1>0, <2>1, <2>2, <2>4, <2>5, <2>6, <2>7, GotoType
  <1>2. ASSUME ScanNext PROVE TypeInv'
    <2>1. LicenseTypeOK' /\ TodoOK' /\ FreezeTypeOK' /\ GracesKept
      BY <1>2, LicenseTypeSame, FreezeTypeSame DEF ScanNext
    <2>2. PICK g \in scan :
            /\ arg' = [arg EXCEPT ![Scanner] = [NoLocals EXCEPT !.pair = grace[g].pair,
                                                                !.now = TRUE]]
            /\ scan' = scan \ {g}
      BY <1>2 DEF ScanNext
    <2> DEFINE l == [NoLocals EXCEPT !.pair = grace[g].pair, !.now = TRUE]
    <2>3. grace[g].pair \in Pairs
      BY DEF TypeInv, LocalsOK
    <2>4. l \in Locals /\ l.pair \in Pairs
      BY <2>3 DEF Locals, NoLocals
    <2>5. scan' \in SUBSET Graces
      BY <2>2 DEF TypeInv, TypeOK
    <2>6. \A h \in scan' : grace'[h].pair \in Pairs
      BY <1>2, <2>2 DEF ScanNext, freezeVars, TypeInv, LocalsOK
    <2>7. /\ pc[Scanner] = "next" /\ Goto(Scanner, "readSub") /\ UNCHANGED tries
          /\ arg' = [arg EXCEPT ![Scanner] = l]
      BY <1>2, <2>2 DEF ScanNext
    <2>8. /\ "readSub" \in WithPair => l.pair \in Pairs
          /\ "readSub" \in {"plan", "stripeCreate"} => l.plan \in Plans
          /\ "readSub" = "stripeCancel" => l.sub \in Subs
          /\ "readSub" = "recordCreate" => l.sub \in Subs \cup {CreditSub}
      BY <2>4
    <2> HIDE DEF l
    <2> QED  BY <1>0, <2>1, <2>4, <2>5, <2>6, <2>7, <2>8, GotoType
  <1>3. ASSUME ScanEnds PROVE TypeInv'
    <2>1. LicenseTypeOK' /\ TodoOK' /\ FreezeTypeOK'
      BY <1>3, LicenseTypeSame, FreezeTypeSame DEF ScanEnds
    <2>2. /\ pc' = [pc EXCEPT ![Scanner] = "idle"] /\ scan' = {} /\ UNCHANGED <<arg, tries>>
      BY <1>3 DEF ScanEnds, Goto
    <2>3. TypeOK'
      BY <1>0, <2>1, <2>2 DEF TypeInv, TypeOK, FreezeTypeOK
    <2>4. LocalsOK'
      BY <2>2, ProcsSplit DEF TypeInv, TypeOK, LocalsOK, WithPair
    <2> QED  BY <2>1, <2>3, <2>4 DEF TypeInv
  <1> QED  BY <1>1, <1>2, <1>3 DEF ScannerStep

\* What the steps of Stripe and of time leave alone.
LEMMA ProcsSameType ==
    ASSUME TypeInv, UNCHANGED <<licenseVars, grace, procVars>>, FreezeTypeOK'
    PROVE  TypeInv'
  <1>1. LicenseTypeOK' /\ TodoOK'
    BY LicenseTypeSame
  <1>2. UNCHANGED <<grace, pc, arg, tries, scan>>
    BY DEF procVars
  <1>3. TypeOK'
    BY <1>1, <1>2 DEF TypeInv, TypeOK, FreezeTypeOK
  <1>4. LocalsOK'
    BY <1>2 DEF TypeInv, LocalsOK
  <1> QED  BY <1>1, <1>3, <1>4 DEF TypeInv

LEMMA EnvironmentType ==
    ASSUME TypeInv, Environment
    PROVE  TypeInv'
  <1>1. ASSUME NEW g \in Graces, GraceExpires(g) PROVE TypeInv'
    <2>1. FreezeTypeOK'
      BY <1>1 DEF GraceExpires, TypeInv, TypeOK, FreezeTypeOK
    <2> QED  BY <1>1, <2>1, ProcsSameType DEF GraceExpires
  <1>2. ASSUME NEW s \in Subs, NEW p \in Pairs, SubscribedInStripe(s, p) PROVE TypeInv'
    <2>1. [state |-> "active", atEnd |-> FALSE, pair |-> p] \in Subscription
      BY DEF Subscription
    <2>2. FreezeTypeOK'
      BY <1>2, <2>1 DEF SubscribedInStripe, TypeInv, TypeOK, FreezeTypeOK
    <2> QED  BY <1>2, <2>2, ProcsSameType DEF SubscribedInStripe
  <1>3. ASSUME NEW s \in Subs, PeriodEnds(s) PROVE TypeInv'
    <2>1. [stripe[s] EXCEPT !.state = "canceled"] \in Subscription
      BY <1>3 DEF PeriodEnds, TypeInv, TypeOK, Subscription, NoSubscription
    <2>2. FreezeTypeOK'
      BY <1>3, <2>1 DEF PeriodEnds, TypeInv, TypeOK, FreezeTypeOK
    <2> QED  BY <1>3, <2>2, ProcsSameType DEF PeriodEnds
  <1>4. ASSUME NEW s \in Subs, HandleSubscriptionUpdated(s) PROVE TypeInv'
    <2>1. PICK status \in {"active", stripe[s].state}, atEnd \in {FALSE, stripe[s].atEnd} :
            row' = [row EXCEPT ![stripe[s].pair] =
                      [sub |-> s, status |-> status, atEnd |-> atEnd]]
      BY <1>4 DEF HandleSubscriptionUpdated
    <2>2. stripe[s] \in [state : {"active", "canceled"}, atEnd : BOOLEAN, pair : Pairs]
      BY <1>4 DEF HandleSubscriptionUpdated, TypeInv, TypeOK, Subscription, NoSubscription
    <2>3. [sub |-> s, status |-> status, atEnd |-> atEnd] \in SubscriptionRow
      BY <2>2 DEF SubscriptionRow
    <2>4. FreezeTypeOK'
      BY <1>4, <2>1, <2>3 DEF HandleSubscriptionUpdated, TypeInv, TypeOK, FreezeTypeOK
    <2> QED  BY <1>4, <2>4, ProcsSameType DEF HandleSubscriptionUpdated
  <1>5. ASSUME NEW s \in Subs, HandleSubscriptionDeleted(s) PROVE TypeInv'
    <2>1. row' \in [Pairs -> SubscriptionRow]
      BY <1>5 DEF HandleSubscriptionDeleted, TypeInv, TypeOK, SubscriptionRow
    <2>2. FreezeTypeOK'
      BY <1>5, <2>1 DEF HandleSubscriptionDeleted, TypeInv, TypeOK, FreezeTypeOK
    <2> QED  BY <1>5, <2>2, ProcsSameType DEF HandleSubscriptionDeleted
  <1>6. ASSUME NEW p \in Pairs, NEW q \in Plans, KeyExpires(p, q) PROVE TypeInv'
    <2>1. FreezeTypeOK'
      BY <1>6 DEF KeyExpires, TypeInv, TypeOK, FreezeTypeOK
    <2> QED  BY <1>6, <2>1, ProcsSameType DEF KeyExpires
  <1> QED  BY <1>1, <1>2, <1>3, <1>4, <1>5, <1>6 DEF Environment

LEMMA NextType == TypeInv /\ [Next]_vars => TypeInv'
  <1> SUFFICES ASSUME TypeInv, [Next]_vars PROVE TypeInv'
    OBVIOUS
  <1>1. CASE LicenseStep
    <2>1. LicenseInv'
      BY <1>1, LicenseStepType DEF LicenseStep, TypeInv, TypeOK, LicenseInv
    <2>2. UNCHANGED <<grace, due, row, stripe, replay, pc, arg, tries, scan>>
      BY <1>1 DEF LicenseStep, freezeVars, procVars
    <2>3. TypeOK'
      BY <2>1, <2>2 DEF TypeInv, TypeOK, LicenseInv
    <2>4. LocalsOK'
      BY <2>2 DEF TypeInv, LocalsOK
    <2> QED  BY <2>1, <2>3, <2>4 DEF TypeInv, LicenseInv
  <1>2. CASE UNCHANGED vars
    <2>1. UNCHANGED licenseVars /\ UNCHANGED freezeVars /\ UNCHANGED <<grace, procVars>>
      BY <1>2 DEF vars, licenseVars, freezeVars, procVars
    <2>2. FreezeTypeOK'
      BY <2>1, FreezeTypeSame
    <2> QED  BY <2>1, <2>2, ProcsSameType
  <1> QED  BY <1>1, <1>2, JobStepType, CallStepType, CancelStepType, ScannerStepType,
              EnvironmentType DEF Next

\* Every variable keeps its type, the local variables a handler uses are set, and a job
\* that is started again has attempts left: pc, arg and tries of
\* billingFreezeService.ts's handlers, for any number of concurrent ones.
THEOREM TypeCorrect == Spec => []TypeOK
  <1>1. TypeInv => TypeOK
    BY DEF TypeInv
  <1> QED  BY InitType, NextType, <1>1, PTL DEF Spec

-----------------------------------------------------------------------------
(* Who changes what, and where a step leads.                               *)

LEMMA NextGroups ==
    ASSUME [Next]_vars
    PROVE  \/ LicenseStep
           \/ \E i \in Invoices : EnqueuePaymentFailed(i) \/ JobStep(i)
           \/ \E c \in Callers : CallStep(c)
           \/ \E w \in Procs : CancelStep(w) \/ StepFails(w)
           \/ ScannerStep
           \/ Environment
           \/ UNCHANGED <<licenseVars, freezeVars, procVars>>
  <1>1. CASE UNCHANGED vars
    BY <1>1 DEF vars, licenseVars, freezeVars, procVars
  <1> QED  BY <1>1 DEF Next

\* Who writes billing_grace_periods.
LEMMA GraceSteps ==
    ASSUME [Next]_vars
    PROVE  \/ UNCHANGED grace
           \/ \E i \in Invoices : InsertGrace(i)
           \/ \E c \in Callers, p \in Pairs :
                 HandleLicenceCancelled(c, p)
                     \/ \E q \in Plans : HandleLicenseReactivated(c, p, q)
           \/ Scan
  <1>1. CASE LicenseStep
    BY <1>1 DEF LicenseStep, freezeVars
  <1>2. ASSUME NEW i \in Invoices, EnqueuePaymentFailed(i) \/ JobStep(i), ~InsertGrace(i)
        PROVE  UNCHANGED grace
    BY <1>2 DEF EnqueuePaymentFailed, JobStep, LookupInvoice, SuspendForPayment,
                SuspendRefused, SuspendThrows, CheckOpenGrace, freezeVars
  <1>3. ASSUME NEW c \in Callers, LookupPlan(c) \/ StripeCreate(c) \/ RecordCreate(c)
        PROVE  UNCHANGED grace
    BY <1>3 DEF LookupPlan, StripeCreate, RecordCreate, freezeVars
  <1>4. ASSUME NEW w \in Procs, CancelStep(w) \/ StepFails(w) PROVE UNCHANGED grace
    BY <1>4 DEF CancelStep, ReadSubscription, StripeCancel, RecordCancel, StepFails, freezeVars
  <1>5. CASE ScanNext \/ ScanEnds
    BY <1>5 DEF ScanNext, ScanEnds, freezeVars
  <1>6. CASE Environment
    BY <1>6 DEF Environment, GraceExpires, SubscribedInStripe, PeriodEnds,
                HandleSubscriptionUpdated, HandleSubscriptionDeleted, KeyExpires
  <1>7. CASE UNCHANGED <<licenseVars, freezeVars, procVars>>
    BY <1>7 DEF freezeVars
  <1> QED  BY <1>1, <1>2, <1>3, <1>4, <1>5, <1>6, <1>7, NextGroups DEF CallStep, ScannerStep

\* Who changes a subscription in Stripe, or what Stripe replays.
LEMMA StripeSteps ==
    ASSUME [Next]_vars
    PROVE  \/ UNCHANGED <<stripe, replay>>
           \/ \E w \in Procs : StripeCancel(w)
           \/ \E c \in Callers : StripeCreate(c)
           \/ \E s \in Subs : PeriodEnds(s) \/ \E p \in Pairs : SubscribedInStripe(s, p)
           \/ \E p \in Pairs, q \in Plans : KeyExpires(p, q)
  <1>1. CASE LicenseStep
    BY <1>1 DEF LicenseStep, freezeVars
  <1>2. ASSUME NEW i \in Invoices, EnqueuePaymentFailed(i) \/ JobStep(i)
        PROVE  UNCHANGED <<stripe, replay>>
    BY <1>2 DEF EnqueuePaymentFailed, JobStep, LookupInvoice, SuspendForPayment,
                SuspendRefused, SuspendThrows, CheckOpenGrace, InsertGrace, freezeVars
  <1>3. ASSUME NEW c \in Callers, CallStep(c), ~StripeCreate(c)
        PROVE  UNCHANGED <<stripe, replay>>
    BY <1>3 DEF CallStep, HandleLicenceCancelled, HandleLicenseReactivated, LookupPlan,
                RecordCreate, freezeVars
  <1>4. ASSUME NEW w \in Procs, CancelStep(w) \/ StepFails(w), ~StripeCancel(w)
        PROVE  UNCHANGED <<stripe, replay>>
    BY <1>4 DEF CancelStep, ReadSubscription, RecordCancel, StepFails, freezeVars
  <1>5. CASE ScannerStep
    BY <1>5 DEF ScannerStep, Scan, ScanNext, ScanEnds, freezeVars
  <1>6. ASSUME Environment,
               ~\E s \in Subs : PeriodEnds(s) \/ \E p \in Pairs : SubscribedInStripe(s, p),
               ~\E p \in Pairs, q \in Plans : KeyExpires(p, q)
        PROVE  UNCHANGED <<stripe, replay>>
    BY <1>6 DEF Environment, GraceExpires, HandleSubscriptionUpdated,
                HandleSubscriptionDeleted
  <1>7. CASE UNCHANGED <<licenseVars, freezeVars, procVars>>
    BY <1>7 DEF freezeVars
  <1> QED  BY <1>1, <1>2, <1>3, <1>4, <1>5, <1>6, <1>7, NextGroups

\* Who writes stripe_subscriptions.
LEMMA RowSteps ==
    ASSUME [Next]_vars
    PROVE  \/ UNCHANGED row
           \/ \E w \in Procs : RecordCancel(w)
           \/ \E c \in Callers : RecordCreate(c)
           \/ \E s \in Subs : HandleSubscriptionUpdated(s) \/ HandleSubscriptionDeleted(s)
  <1>1. CASE LicenseStep
    BY <1>1 DEF LicenseStep, freezeVars
  <1>2. ASSUME NEW i \in Invoices, EnqueuePaymentFailed(i) \/ JobStep(i)
        PROVE  UNCHANGED row
    BY <1>2 DEF EnqueuePaymentFailed, JobStep, LookupInvoice, SuspendForPayment,
                SuspendRefused, SuspendThrows, CheckOpenGrace, InsertGrace, freezeVars
  <1>3. ASSUME NEW c \in Callers, CallStep(c), ~RecordCreate(c) PROVE UNCHANGED row
    BY <1>3 DEF CallStep, HandleLicenceCancelled, HandleLicenseReactivated, LookupPlan,
                StripeCreate, freezeVars
  <1>4. ASSUME NEW w \in Procs, CancelStep(w) \/ StepFails(w), ~RecordCancel(w)
        PROVE  UNCHANGED row
    BY <1>4 DEF CancelStep, ReadSubscription, StripeCancel, StepFails, freezeVars
  <1>5. CASE ScannerStep
    BY <1>5 DEF ScannerStep, Scan, ScanNext, ScanEnds, freezeVars
  <1>6. ASSUME Environment,
               ~\E s \in Subs : HandleSubscriptionUpdated(s) \/ HandleSubscriptionDeleted(s)
        PROVE  UNCHANGED row
    BY <1>6 DEF Environment, GraceExpires, SubscribedInStripe, PeriodEnds, KeyExpires
  <1>7. CASE UNCHANGED <<licenseVars, freezeVars, procVars>>
    BY <1>7 DEF freezeVars
  <1> QED  BY <1>1, <1>2, <1>3, <1>4, <1>5, <1>6, <1>7, NextGroups

-----------------------------------------------------------------------------
(* A process is moved by its own steps only.                               *)

Moves(w) == pc'[w] # pc[w] \/ arg'[w] # arg[w]

\* What an action of process w does to the other processes.
OthersStay(w) == \A x \in Procs \ {w} : pc'[x] = pc[x] /\ arg'[x] = arg[x]

LEMMA ReturnOthers ==
    ASSUME TypeInv, NEW w \in Procs, Return(w) \/ Throw(w)
    PROVE  OthersStay(w)
  BY DEF TypeInv, TypeOK, Return, Throw, Goto, OthersStay

LEMMA JobOthers ==
    ASSUME TypeInv, NEW i \in Invoices, EnqueuePaymentFailed(i) \/ JobStep(i)
    PROVE  OthersStay(i)
  <1>0. i \in Procs /\ pc \in [Procs -> Steps] /\ arg \in [Procs -> Locals]
    BY ProcsSplit DEF TypeInv, TypeOK
  <1>1. CASE Return(i) \/ Throw(i)
    BY <1>0, <1>1, ReturnOthers
  <1>2. CASE ~(Return(i) \/ Throw(i))
    BY <1>0, <1>2 DEF EnqueuePaymentFailed, JobStep, LookupInvoice, SuspendForPayment,
       SuspendRefused, SuspendThrows, CheckOpenGrace, InsertGrace, Goto, OthersStay
  <1> QED  BY <1>1, <1>2

LEMMA CancelOthers ==
    ASSUME TypeInv, NEW w \in Procs, CancelStep(w) \/ StepFails(w)
    PROVE  OthersStay(w)
  <1>0. pc \in [Procs -> Steps] /\ arg \in [Procs -> Locals]
    BY DEF TypeInv, TypeOK
  <1>1. CASE Return(w) \/ Throw(w)
    BY <1>1, ReturnOthers
  <1>2. CASE ~(Return(w) \/ Throw(w))
    BY <1>0, <1>2 DEF CancelStep, ReadSubscription, StripeCancel, RecordCancel, StepFails,
       Goto, OthersStay
  <1> QED  BY <1>1, <1>2

LEMMA CallOthers ==
    ASSUME TypeInv, NEW c \in Callers, CallStep(c)
    PROVE  OthersStay(c)
  <1>0. c \in Procs /\ pc \in [Procs -> Steps] /\ arg \in [Procs -> Locals]
    BY ProcsSplit DEF TypeInv, TypeOK
  <1>1. CASE RecordCreate(c)
    BY <1>0, <1>1, ReturnOthers DEF RecordCreate
  <1>2. CASE \E p \in Pairs : HandleLicenceCancelled(c, p)
                                \/ \E q \in Plans : HandleLicenseReactivated(c, p, q)
    BY <1>0, <1>2 DEF HandleLicenceCancelled, HandleLicenseReactivated, Goto, OthersStay
  <1>3. CASE LookupPlan(c) \/ StripeCreate(c)
    BY <1>0, <1>3 DEF LookupPlan, StripeCreate, Goto, OthersStay
  <1> QED  BY <1>1, <1>2, <1>3 DEF CallStep

LEMMA ScannerOthers ==
    ASSUME TypeInv, ScannerStep
    PROVE  OthersStay(Scanner)
  BY ProcsSplit DEF TypeInv, TypeOK, ScannerStep, Scan, ScanNext, ScanEnds, Goto, OthersStay

LEMMA OwnSteps ==
    ASSUME TypeInv, [Next]_vars, NEW w \in Procs, Moves(w)
    PROVE  \/ w \in Invoices /\ (EnqueuePaymentFailed(w) \/ JobStep(w))
           \/ w \in Callers /\ CallStep(w)
           \/ CancelStep(w) \/ StepFails(w)
           \/ w = Scanner /\ ScannerStep
  <1>1. CASE LicenseStep
    BY <1>1 DEF LicenseStep, procVars, Moves
  <1>2. ASSUME NEW i \in Invoices, EnqueuePaymentFailed(i) \/ JobStep(i) PROVE w = i
    BY <1>2, JobOthers DEF OthersStay, Moves
  <1>3. ASSUME NEW c \in Callers, CallStep(c) PROVE w = c
    BY <1>3, CallOthers DEF OthersStay, Moves
  <1>4. ASSUME NEW x \in Procs, CancelStep(x) \/ StepFails(x) PROVE w = x
    BY <1>4, CancelOthers DEF OthersStay, Moves
  <1>5. CASE ScannerStep
    BY <1>5, ScannerOthers DEF OthersStay, Moves
  <1>6. CASE Environment
    BY <1>6 DEF Environment, GraceExpires, SubscribedInStripe, PeriodEnds,
                HandleSubscriptionUpdated, HandleSubscriptionDeleted, KeyExpires, procVars,
                Moves
  <1>7. CASE UNCHANGED <<licenseVars, freezeVars, procVars>>
    BY <1>7 DEF procVars, Moves
  <1> QED  BY <1>1, <1>2, <1>3, <1>4, <1>5, <1>6, <1>7, NextGroups

\* Steps a handler can be at without a grace period of its pair, and those it enters
\* only once there is one.
Early == {"idle", "lookup", "suspend", "check", "insert", "next", "completed", "failed"}
Late == {"readSub", "stripeCancel", "recordCancel", "plan", "stripeCreate", "recordCreate"}

LEMMA EndsEarly ==
    ASSUME TypeInv, NEW w \in Procs, Return(w) \/ Throw(w)
    PROVE  pc'[w] \in Early
  BY DEF TypeInv, TypeOK, Return, Throw, Goto, Early

\* The action by which a handler enters a late step.
LEMMA Entries ==
    ASSUME TypeInv, [Next]_vars, NEW w \in Procs, Moves(w)
    PROVE  \/ pc'[w] \in Early
           \/ pc'[w] = "readSub" /\ \/ w \in Invoices /\ InsertGrace(w)
                                    \/ \E p \in Pairs : HandleLicenceCancelled(w, p)
                                    \/ w = Scanner /\ ScanNext
           \/ pc'[w] = "stripeCancel" /\ ReadSubscription(w)
           \/ pc'[w] = "recordCancel" /\ (ReadSubscription(w) \/ StripeCancel(w))
           \/ pc'[w] = "plan" /\ \E p \in Pairs, q \in Plans : HandleLicenseReactivated(w, p, q)
           \/ pc'[w] = "stripeCreate" /\ LookupPlan(w)
           \/ pc'[w] = "recordCreate" /\ w \in Callers /\ (LookupPlan(w) \/ StripeCreate(w))
  <1>0. pc \in [Procs -> Steps]
    BY DEF TypeInv, TypeOK
  <1>1. CASE Return(w) \/ Throw(w)
    BY <1>1, EndsEarly
  <1>2. CASE ~(Return(w) \/ Throw(w))
    <2>1. CASE w \in Invoices /\ (EnqueuePaymentFailed(w) \/ JobStep(w))
      BY <1>0, <1>2, <2>1 DEF EnqueuePaymentFailed, JobStep, LookupInvoice,
         SuspendForPayment, SuspendRefused, SuspendThrows, CheckOpenGrace, InsertGrace, Goto,
         Early
    <2>2. CASE w \in Callers /\ CallStep(w)
      BY <1>0, <1>2, <2>2 DEF CallStep, HandleLicenceCancelled, HandleLicenseReactivated,
         LookupPlan, StripeCreate, RecordCreate, Goto, Early
    <2>3. CASE CancelStep(w) \/ StepFails(w)
      BY <1>0, <1>2, <2>3 DEF CancelStep, ReadSubscription, StripeCancel, RecordCancel,
         StepFails, Goto
    <2>4. CASE w = Scanner /\ ScannerStep
      BY <1>0, <2>4 DEF ScannerStep, Scan, ScanNext, ScanEnds, Goto, Early
    <2> QED  BY <2>1, <2>2, <2>3, <2>4, OwnSteps
  <1> QED  BY <1>1, <1>2

-----------------------------------------------------------------------------
(* Grace periods: they keep their pair, and their resolution.              *)

ResolvedKeep == \A g \in Graces : grace[g].state \in Resolutions => grace'[g] = grace[g]
Complete == \A g \in Graces :
               grace[g].state = "open" /\ grace'[g].state \in {"cancelled", "reactivated"}
                   => OpenGraces(grace[g].pair)' = {}

LEMMA GraceFacts ==
    ASSUME TypeInv, [Next]_vars
    PROVE  GracesKept /\ ResolvedKeep /\ Complete
  <1>0. grace \in [Graces -> GracePeriod] /\ due \in SUBSET Graces
    BY DEF TypeInv, TypeOK
  <1>1. CASE UNCHANGED grace
    BY <1>1 DEF GracesKept, ResolvedKeep, Complete, Resolutions
  <1>2. ASSUME NEW i \in Invoices, InsertGrace(i)
        PROVE  GracesKept /\ ResolvedKeep /\ Complete
    <2>1. PICK g \in Graces :
            /\ grace[g].state = "absent"
            /\ grace' = [grace EXCEPT ![g] = [state |-> "open", pair |-> arg[i].pair]]
      BY <1>2 DEF InsertGrace
    <2>2. grace[g].pair = None
      BY <1>0, <2>1 DEF GracePeriod, NoGrace, Resolutions
    <2>3. GracesKept /\ ResolvedKeep
      BY <1>0, <2>1, <2>2 DEF GracesKept, ResolvedKeep, Resolutions
    <2>4. \A h \in Graces : ~(grace[h].state = "open"
                                /\ grace'[h].state \in {"cancelled", "reactivated"})
      BY <1>0, <2>1
    <2> QED  BY <2>3, <2>4 DEF Complete
  <1>3. ASSUME NEW p \in Pairs, NEW resolution \in {"cancelled", "reactivated"},
               Resolve(OpenGraces(p), resolution)
        PROVE  GracesKept /\ ResolvedKeep /\ Complete
    <2>1. ASSUME NEW g \in Graces
          PROVE  grace'[g] = IF g \in OpenGraces(p)
                             THEN [grace[g] EXCEPT !.state = resolution] ELSE grace[g]
      BY <1>3 DEF Resolve
    <2>2. ASSUME NEW g \in Graces PROVE grace'[g].pair = grace[g].pair
      BY <1>0, <2>1 DEF GracePeriod, NoGrace
    <2>3. ResolvedKeep
      BY <2>1 DEF ResolvedKeep, OpenGraces, Resolutions
    <2>4. ASSUME NEW g \in Graces, grace'[g].state = "open"
          PROVE  g \notin OpenGraces(p) /\ grace'[g] = grace[g]
      <3>1. CASE g \in OpenGraces(p)
        <4>1. grace'[g].state = resolution
          BY <1>0, <2>1, <3>1 DEF GracePeriod, NoGrace
        <4> QED  BY <4>1, <2>4
      <3> QED  BY <2>1, <3>1
    <2>5. ASSUME NEW g \in Graces, grace[g].state = "open",
                 grace'[g].state \in {"cancelled", "reactivated"}
          PROVE  OpenGraces(grace[g].pair)' = {}
      <3>1. g \in OpenGraces(p)
        BY <2>1, <2>5
      <3>2. grace'[g].pair = p /\ grace[g].pair = p
        BY <2>2, <3>1 DEF OpenGraces
      <3>3. \A h \in Graces : ~(grace'[h].state = "open" /\ grace'[h].pair = p)
        BY <2>2, <2>4 DEF OpenGraces
      <3>4. OpenGraces(p)' = {}
        BY <3>3 DEF OpenGraces
      <3>5. OpenGraces(grace[g].pair)' = {h \in Graces : grace'[h].state = "open"
                                                        /\ grace'[h].pair = grace'[g].pair}
        BY DEF OpenGraces
      <3> QED  BY <3>2, <3>3, <3>5
    <2> QED  BY <2>2, <2>3, <2>5 DEF GracesKept, Complete
  <1>4. ASSUME Scan PROVE GracesKept /\ ResolvedKeep /\ Complete
    <2> DEFINE expired == {g \in due : grace[g].state = "open"}
    <2>1. ASSUME NEW g \in Graces
          PROVE  grace'[g] = IF g \in expired
                             THEN [grace[g] EXCEPT !.state = "expired"] ELSE grace[g]
      BY <1>4 DEF Scan, Resolve
    <2>2. ASSUME NEW g \in Graces
          PROVE  /\ grace'[g].pair = grace[g].pair
                 /\ grace[g].state = "open" => grace'[g].state \in {"open", "expired"}
      <3>1. grace[g] \in GracePeriod
        BY <1>0
      <3>2. grace'[g] \in {grace[g], [grace[g] EXCEPT !.state = "expired"]}
        BY <2>1
      <3> QED  BY <3>1, <3>2 DEF GracePeriod, NoGrace
    <2>3. ResolvedKeep
      BY <2>1 DEF ResolvedKeep, Resolutions
    <2>4. ASSUME NEW g \in Graces, grace[g].state = "open"
          PROVE  grace'[g].state \in {"open", "expired"}
      BY <2>2, <2>4
    <2> QED  BY <2>2, <2>3, <2>4 DEF GracesKept, Complete
  <1> QED  BY <1>1, <1>2, <1>3, <1>4, GraceSteps DEF HandleLicenceCancelled,
              HandleLicenseReactivated

LEMMA GracePairsStay ==
    ASSUME GracesKept, NEW p \in Pairs, HasGrace(p)
    PROVE  HasGrace(p)'
  BY NoneIsNoPair DEF GracesKept, HasGrace

\* A resolved grace period keeps its resolution, however many calls of
\* handleLicenceCancelled, handleLicenseReactivated and the scanner race for it.
THEOREM ResolutionIsFinal == Spec => ResolvedOnce
  <1>1. TypeInv /\ [Next]_vars
            => [\A g \in Graces : grace[g].state \in Resolutions => grace'[g] = grace[g]]_vars
    BY GraceFacts DEF ResolvedKeep
  <1> QED  BY InitType, NextType, <1>1, PTL DEF Spec, ResolvedOnce

\* A cancellation or a reactivation leaves its pair no open period, however many jobs
\* opened one for it.
THEOREM ResolutionLeavesNoneOpen == Spec => ResolutionIsComplete
  <1>1. TypeInv /\ [Next]_vars
            => [\A g \in Graces :
                  grace[g].state = "open" /\ grace'[g].state \in {"cancelled", "reactivated"}
                      => OpenGraces(grace[g].pair)' = {}]_vars
    BY GraceFacts DEF Complete
  <1> QED  BY InitType, NextType, <1>1, PTL DEF Spec, ResolutionIsComplete

-----------------------------------------------------------------------------
(* Subscriptions: nothing crosses from one pair to another.                *)

SubsKept == \A s \in Subs : stripe[s].pair # None => stripe'[s].pair = stripe[s].pair

\* SubscriptionOfItsPair is inductive together with what Stripe may replay.
ReplayOfItsPair ==
    \A p \in Pairs, q \in Plans : replay[p][q] \in Subs => stripe[replay[p][q]].pair = p

PairInv == SubscriptionOfItsPair /\ ReplayOfItsPair

LEMMA LateLocals ==
    ASSUME TypeInv, NEW w \in Procs
    PROVE  /\ pc[w] \in Late => arg[w].pair \in Pairs
           /\ pc[w] = "stripeCancel" => arg[w].sub \in Subs
           /\ pc[w] = "stripeCreate" => arg[w].plan \in Plans
  BY DEF TypeInv, LocalsOK, WithPair, Late

LEMMA CreateFacts ==
    ASSUME TypeInv, PairInv, NEW c \in Callers, StripeCreate(c)
    PROVE  \E s \in Subs : /\ stripe'[s].pair = arg[c].pair
                           /\ \/ UNCHANGED stripe
                              \/ stripe[s].pair = None
                                 /\ \A x \in Subs \ {s} : stripe'[x] = stripe[x]
                           /\ replay' = [replay EXCEPT ![arg[c].pair][arg[c].plan] = s]
                           /\ arg' = [arg EXCEPT ![c].sub = s]
  <1>1. c \in Procs /\ pc[c] = "stripeCreate"
    BY ProcsSplit DEF StripeCreate
  <1>2. arg[c].pair \in Pairs /\ arg[c].plan \in Plans /\ stripe \in [Subs -> Subscription]
    BY <1>1, LateLocals DEF TypeInv, TypeOK, Late
  <1>3. PICK s \in Subs :
          /\ \/ s = replay[arg[c].pair][arg[c].plan] /\ UNCHANGED stripe
             \/ /\ stripe[s].state = "absent"
                /\ stripe' = [stripe EXCEPT ![s] = [state |-> "active", atEnd |-> FALSE,
                                                    pair |-> arg[c].pair]]
          /\ replay' = [replay EXCEPT ![arg[c].pair][arg[c].plan] = s]
          /\ arg' = [arg EXCEPT ![c].sub = s]
    BY DEF StripeCreate
  <1>4. CASE s = replay[arg[c].pair][arg[c].plan] /\ UNCHANGED stripe
    BY <1>2, <1>3, <1>4 DEF PairInv, ReplayOfItsPair
  <1>5. CASE /\ stripe[s].state = "absent"
             /\ stripe' = [stripe EXCEPT ![s] = [state |-> "active", atEnd |-> FALSE,
                                                 pair |-> arg[c].pair]]
    <2>1. stripe[s].pair = None
      BY <1>2, <1>5 DEF Subscription, NoSubscription
    <2> QED  BY <1>2, <1>3, <1>5, <2>1
  <1> QED  BY <1>3, <1>4, <1>5

LEMMA SubsFacts ==
    ASSUME TypeInv, PairInv, [Next]_vars
    PROVE  SubsKept
  <1>0. stripe \in [Subs -> Subscription]
    BY DEF TypeInv, TypeOK
  <1>1. ASSUME NEW w \in Procs, StripeCancel(w) PROVE SubsKept
    <2>1. arg[w].sub \in Subs
      BY <1>1, LateLocals DEF StripeCancel
    <2>2. stripe[arg[w].sub] \in Subscription
      BY <1>0, <2>1
    <2>3. \/ UNCHANGED stripe
          \/ stripe' = [stripe EXCEPT ![arg[w].sub].state = "canceled"]
          \/ stripe' = [stripe EXCEPT ![arg[w].sub].atEnd = TRUE]
      BY <1>1 DEF StripeCancel
    <2>4. stripe'[arg[w].sub].pair = stripe[arg[w].sub].pair
      BY <1>0, <2>1, <2>2, <2>3 DEF Subscription, NoSubscription
    <2>5. \A s \in Subs \ {arg[w].sub} : stripe'[s] = stripe[s]
      BY <1>0, <2>3
    <2> QED  BY <2>4, <2>5 DEF SubsKept
  <1>2. ASSUME NEW c \in Callers, StripeCreate(c) PROVE SubsKept
    BY <1>2, CreateFacts DEF SubsKept
  <1>3. ASSUME NEW s \in Subs, PeriodEnds(s) PROVE SubsKept
    <2>1. stripe[s] \in Subscription
      BY <1>0
    <2> QED  BY <1>0, <1>3, <2>1 DEF PeriodEnds, SubsKept, Subscription, NoSubscription
  <1>4. ASSUME NEW s \in Subs, NEW p \in Pairs, SubscribedInStripe(s, p) PROVE SubsKept
    <2>1. stripe[s].pair = None
      BY <1>0, <1>4 DEF SubscribedInStripe, Subscription, NoSubscription
    <2> QED  BY <1>0, <1>4, <2>1 DEF SubscribedInStripe, SubsKept
  <1>5. CASE UNCHANGED stripe
    BY <1>5 DEF SubsKept
  <1> QED  BY <1>1, <1>2, <1>3, <1>4, <1>5, StripeSteps DEF KeyExpires

LEMMA PairInvNext ==
    ASSUME TypeInv, PairInv, [Next]_vars
    PROVE  PairInv'
  <1>0. SubsKept
    BY SubsFacts
  <1> USE NoneIsNoPair
  <1>1. \A p \in Pairs : row'[p].sub \in Subs => stripe'[row'[p].sub].pair = p
    <2>0. row \in [Pairs -> SubscriptionRow] /\ stripe \in [Subs -> Subscription]
      BY DEF TypeInv, TypeOK
    <2>1. SUFFICES ASSUME NEW p \in Pairs, row'[p].sub \in Subs, row'[p].sub # row[p].sub
                   PROVE  stripe'[row'[p].sub].pair = p
      BY <1>0 DEF PairInv, SubscriptionOfItsPair, SubsKept
    <2>2. ASSUME NEW w \in Procs, RecordCancel(w) PROVE FALSE
      <3>1. row[p] \in SubscriptionRow
        BY <2>0
      <3> QED  BY <2>0, <2>1, <2>2, <3>1 DEF RecordCancel, SubscriptionRow
    <2>3. ASSUME NEW c \in Callers, RecordCreate(c) PROVE stripe'[row'[p].sub].pair = p
      <3>1. c \in Procs /\ pc[c] = "recordCreate" /\ UNCHANGED stripe
        BY <2>3, ProcsSplit DEF RecordCreate
      <3>2. row' = [row EXCEPT ![arg[c].pair] = [sub |-> arg[c].sub, status |-> "active",
                                                 atEnd |-> FALSE]]
        BY <2>3 DEF RecordCreate
      <3>3. p = arg[c].pair /\ row'[p].sub = arg[c].sub
        BY <2>0, <2>1, <3>2
      <3> QED  BY <2>1, <3>1, <3>3 DEF PairInv, SubscriptionOfItsPair
    <2>4. ASSUME NEW s \in Subs, HandleSubscriptionUpdated(s)
          PROVE  stripe'[row'[p].sub].pair = p
      <3>1. PICK status \in {"active", stripe[s].state}, atEnd \in {FALSE, stripe[s].atEnd} :
              row' = [row EXCEPT ![stripe[s].pair] =
                        [sub |-> s, status |-> status, atEnd |-> atEnd]]
        BY <2>4 DEF HandleSubscriptionUpdated
      <3>2. p = stripe[s].pair /\ row'[p].sub = s
        BY <2>0, <2>1, <3>1
      <3> QED  BY <2>4, <3>2 DEF HandleSubscriptionUpdated
    <2>5. ASSUME NEW s \in Subs, HandleSubscriptionDeleted(s) PROVE FALSE
      <3>1. row[p] \in SubscriptionRow
        BY <2>0
      <3> QED  BY <2>0, <2>1, <2>5, <3>1 DEF HandleSubscriptionDeleted, SubscriptionRow
    <2> QED  BY <2>1, <2>2, <2>3, <2>4, <2>5, RowSteps
  <1>2. \A w \in Procs : pc'[w] \in {"stripeCancel", "recordCreate"} /\ arg'[w].sub \in Subs
                            => stripe'[arg'[w].sub].pair = arg'[w].pair
    <2>1. SUFFICES ASSUME NEW w \in Procs, pc'[w] \in {"stripeCancel", "recordCreate"},
                          arg'[w].sub \in Subs
                   PROVE  stripe'[arg'[w].sub].pair = arg'[w].pair
      OBVIOUS
    <2>0. arg \in [Procs -> Locals]
      BY DEF TypeInv, TypeOK
    <2>2. CASE ~Moves(w)
      <3>1. stripe[arg[w].sub].pair = arg[w].pair /\ arg[w].pair \in Pairs
        BY <2>1, <2>2, LateLocals DEF PairInv, SubscriptionOfItsPair, Moves, Late
      <3> QED  BY <1>0, <2>1, <2>2, <3>1 DEF Moves, SubsKept
    <2>3. ASSUME ReadSubscription(w), pc'[w] = "stripeCancel"
          PROVE  stripe'[arg'[w].sub].pair = arg'[w].pair
      <3>1. arg[w].pair \in Pairs
        BY <2>3, LateLocals DEF ReadSubscription, Late
      <3>2. ~Throw(w)
        BY <2>3, EndsEarly DEF Early
      <3>3. arg' = [arg EXCEPT ![w].sub = row[arg[w].pair].sub] /\ UNCHANGED stripe
        BY <2>3, <3>2 DEF ReadSubscription, freezeVars
      <3>4. arg'[w].sub = row[arg[w].pair].sub /\ arg'[w].pair = arg[w].pair
        BY <2>0, <3>3 DEF Locals
      <3> QED  BY <2>1, <3>1, <3>3, <3>4 DEF PairInv, SubscriptionOfItsPair
    <2>4. ASSUME LookupPlan(w), pc'[w] = "recordCreate"
          PROVE  FALSE
      <3>1. pc' = [pc EXCEPT ![w] = IF arg[w].plan \in CreditPlans THEN "recordCreate"
                                                                  ELSE "stripeCreate"]
        BY <2>4 DEF LookupPlan, Goto
      <3>2. arg[w].plan \in CreditPlans
        BY <2>4, <3>1 DEF TypeInv, TypeOK
      <3>3. arg' = [arg EXCEPT ![w].sub = CreditSub]
        BY <2>4, <3>2 DEF LookupPlan
      <3> QED  BY <2>0, <2>1, <3>3, NamesAssumption DEF Locals
    <2>5. ASSUME StripeCreate(w), w \in Callers
          PROVE  stripe'[arg'[w].sub].pair = arg'[w].pair
      <3>1. PICK s \in Subs : stripe'[s].pair = arg[w].pair
                              /\ arg' = [arg EXCEPT ![w].sub = s]
        BY <2>5, CreateFacts
      <3> QED  BY <2>0, <3>1 DEF Locals
    <2>6. Moves(w) => \/ pc'[w] = "stripeCancel" /\ ReadSubscription(w)
                      \/ pc'[w] = "recordCreate" /\ w \in Callers /\ (LookupPlan(w) \/ StripeCreate(w))
      BY <2>1, Entries DEF Early
    <2> QED  BY <2>2, <2>3, <2>4, <2>5, <2>6
  <1>3. ReplayOfItsPair'
    <2>0. replay \in [Pairs -> [Plans -> Subs \cup {None}]]
      BY DEF TypeInv, TypeOK
    <2>1. SUFFICES ASSUME NEW p \in Pairs, NEW q \in Plans, replay'[p][q] \in Subs,
                          replay'[p][q] # replay[p][q]
                   PROVE  stripe'[replay'[p][q]].pair = p
      BY <1>0 DEF PairInv, ReplayOfItsPair, SubsKept
    <2>2. ASSUME NEW c \in Callers, StripeCreate(c) PROVE stripe'[replay'[p][q]].pair = p
      <3>1. PICK s \in Subs : stripe'[s].pair = arg[c].pair
                              /\ replay' = [replay EXCEPT ![arg[c].pair][arg[c].plan] = s]
        BY <2>2, CreateFacts
      <3>2. p = arg[c].pair /\ replay'[p][q] = s
        BY <2>0, <2>1, <3>1
      <3> QED  BY <3>1, <3>2
    <2>3. ASSUME NEW x \in Pairs, NEW y \in Plans, KeyExpires(x, y) PROVE FALSE
      BY <2>0, <2>1, <2>3 DEF KeyExpires
    <2> QED  BY <2>1, <2>2, <2>3, StripeSteps DEF StripeCancel, PeriodEnds, SubscribedInStripe
  <1> QED  BY <1>1, <1>2, <1>3 DEF PairInv, SubscriptionOfItsPair

-----------------------------------------------------------------------------
(* Nothing is cancelled without a grace period.                            *)

\* A handler that is past the grace period works for a pair that has one.
GraceForHandlers == \A w \in Procs : pc[w] \in Late => HasGrace(arg[w].pair)

GraceInv == GraceForHandlers /\ NoCancellationWithoutGrace

\* The three ways into a late step that do not come from another late step.
LEMMA GraceAtEntry ==
    ASSUME TypeInv, [Next]_vars, NEW w \in Procs,
           \/ w \in Invoices /\ InsertGrace(w)
           \/ \E p \in Pairs : \/ HandleLicenceCancelled(w, p)
                               \/ \E q \in Plans : HandleLicenseReactivated(w, p, q)
           \/ w = Scanner /\ ScanNext
    PROVE  arg'[w].pair \in Pairs /\ HasGrace(arg[w].pair)'
  <1>0. /\ GracesKept /\ arg \in [Procs -> Locals] /\ grace \in [Graces -> GracePeriod]
        /\ scan \in SUBSET Graces
    BY GraceFacts DEF TypeInv, TypeOK
  <1>1. CASE InsertGrace(w)
    <2>1. arg[w].pair \in Pairs /\ UNCHANGED arg
      BY <1>1 DEF InsertGrace, TypeInv, LocalsOK, WithPair
    <2>2. \E g \in Graces : grace'[g].pair = arg[w].pair
      BY <1>0, <1>1 DEF InsertGrace
    <2> QED  BY <2>1, <2>2 DEF HasGrace
  <1>2. ASSUME NEW p \in Pairs,
               HandleLicenceCancelled(w, p) \/ \E q \in Plans : HandleLicenseReactivated(w, p, q)
        PROVE  arg'[w].pair \in Pairs /\ HasGrace(arg[w].pair)'
    <2>1. HasGrace(p)
      BY <1>2 DEF HandleLicenceCancelled, HandleLicenseReactivated, OpenGraces, HasGrace
    <2>2. arg'[w].pair = p
      BY <1>0, <1>2 DEF HandleLicenceCancelled, HandleLicenseReactivated, NoLocals
    <2>3. HasGrace(p)'
      BY <1>0, <2>1, GracePairsStay
    <2> QED  BY <2>2, <2>3 DEF HasGrace
  <1>3. CASE w = Scanner /\ ScanNext
    <2>1. PICK g \in scan : arg' = [arg EXCEPT ![Scanner] =
                                      [NoLocals EXCEPT !.pair = grace[g].pair, !.now = TRUE]]
      BY <1>3 DEF ScanNext
    <2>2. g \in Graces /\ grace[g].pair \in Pairs /\ arg'[w].pair = grace[g].pair
      BY <1>0, <1>3, <2>1 DEF TypeInv, LocalsOK, NoLocals
    <2>3. grace'[g].pair = grace[g].pair
      BY <1>0, <2>2, NoneIsNoPair DEF GracesKept
    <2> QED  BY <2>2, <2>3 DEF HasGrace
  <1> QED  BY <1>1, <1>2, <1>3

\* The other late steps keep the pair of the late step before them.
LEMMA LateKeepsPair ==
    ASSUME TypeInv, [Next]_vars, NEW w \in Procs, pc'[w] \in Late,
           \/ ReadSubscription(w) \/ StripeCancel(w) \/ LookupPlan(w) \/ StripeCreate(w)
    PROVE  pc[w] \in Late /\ arg'[w].pair = arg[w].pair
  <1>0. arg \in [Procs -> Locals]
    BY DEF TypeInv, TypeOK
  <1>1. ~Throw(w)
    BY EndsEarly DEF Early, Late
  <1>2. pc[w] \in Late
    BY DEF ReadSubscription, StripeCancel, LookupPlan, StripeCreate, Late
  <1>3. CASE ReadSubscription(w)
    BY <1>0, <1>1, <1>2, <1>3 DEF ReadSubscription, Locals
  <1>4. CASE StripeCancel(w)
    BY <1>1, <1>2, <1>4 DEF StripeCancel
  <1>5. CASE LookupPlan(w)
    BY <1>0, <1>2, <1>5 DEF LookupPlan, Locals
  <1>6. CASE StripeCreate(w)
    BY <1>0, <1>2, <1>6 DEF StripeCreate, Locals
  <1> QED  BY <1>3, <1>4, <1>5, <1>6

LEMMA GraceInvNext ==
    ASSUME TypeInv, PairInv, GraceInv, [Next]_vars
    PROVE  GraceInv'
  <1>0. GracesKept /\ stripe \in [Subs -> Subscription]
    BY GraceFacts DEF TypeInv, TypeOK
  <1>1. ASSUME NEW w \in Procs, pc'[w] \in Late PROVE HasGrace(arg[w].pair)'
    <2>1. CASE ~Moves(w)
      <3>1. pc[w] \in Late /\ arg'[w] = arg[w]
        BY <1>1, <2>1 DEF Moves
      <3>2. arg[w].pair \in Pairs /\ HasGrace(arg[w].pair)
        BY <3>1, LateLocals DEF GraceInv, GraceForHandlers
      <3>3. \E g \in Graces : grace'[g].pair = arg[w].pair
        BY <1>0, <3>2, NoneIsNoPair DEF GracesKept, HasGrace
      <3> QED  BY <3>1, <3>3 DEF HasGrace
    <2>2. CASE Moves(w)
      <3>1. CASE \/ ReadSubscription(w) \/ StripeCancel(w) \/ LookupPlan(w) \/ StripeCreate(w)
        <4>1. pc[w] \in Late /\ arg'[w].pair = arg[w].pair
          BY <1>1, <3>1, LateKeepsPair
        <4>2. arg[w].pair \in Pairs /\ \E g \in Graces : grace[g].pair = arg[w].pair
          BY <4>1, LateLocals DEF GraceInv, GraceForHandlers, HasGrace
        <4>3. \E g \in Graces : grace'[g].pair = arg[w].pair
          BY <1>0, <4>2, NoneIsNoPair DEF GracesKept
        <4> QED  BY <4>1, <4>3 DEF HasGrace
      <3>2. CASE ~(ReadSubscription(w) \/ StripeCancel(w) \/ LookupPlan(w) \/ StripeCreate(w))
        BY <1>1, <2>2, <3>2, Entries, GraceAtEntry DEF Early, Late
      <3> QED  BY <3>1, <3>2
    <2> QED  BY <2>1, <2>2
  <1>2. ASSUME NEW s \in Subs, stripe'[s].state = "canceled" \/ stripe'[s].atEnd
        PROVE  HasGrace(stripe[s].pair)'
    <2>0. SubsKept
      BY SubsFacts
    <2>1. CASE stripe[s].state = "canceled" \/ stripe[s].atEnd
      <3>1. stripe[s].pair \in Pairs
        BY <1>0, <2>1 DEF Subscription, NoSubscription
      <3>2. stripe'[s].pair = stripe[s].pair
        BY <2>0, <3>1, NoneIsNoPair DEF SubsKept
      <3>3. \E g \in Graces : grace[g].pair = stripe[s].pair
        BY <2>1 DEF GraceInv, NoCancellationWithoutGrace, HasGrace
      <3>4. \E g \in Graces : grace'[g].pair = stripe[s].pair
        BY <1>0, <3>1, <3>3, NoneIsNoPair DEF GracesKept
      <3> QED  BY <3>2, <3>4 DEF HasGrace
    <2>2. CASE ~(stripe[s].state = "canceled" \/ stripe[s].atEnd)
      <3>1. ASSUME NEW w \in Procs, StripeCancel(w) PROVE HasGrace(stripe[s].pair)'
        <4>1. arg[w].sub \in Subs /\ pc[w] = "stripeCancel" /\ UNCHANGED grace
          BY <3>1, LateLocals DEF StripeCancel
        <4>2. s = arg[w].sub
          BY <1>0, <1>2, <2>2, <3>1, <4>1 DEF StripeCancel
        <4>3. stripe[s].pair = arg[w].pair /\ HasGrace(arg[w].pair) /\ arg[w].pair \in Pairs
          BY <4>1, <4>2, LateLocals DEF PairInv, SubscriptionOfItsPair, GraceInv,
             GraceForHandlers, Late
        <4>4. stripe'[s].pair = arg[w].pair
          BY <2>0, <4>3, NoneIsNoPair DEF SubsKept
        <4> QED  BY <4>1, <4>3, <4>4 DEF HasGrace
      <3>2. ASSUME NEW c \in Callers, StripeCreate(c) PROVE FALSE
        BY <1>0, <1>2, <2>2, <3>2 DEF StripeCreate
      <3>3. ASSUME NEW x \in Subs, PeriodEnds(x) PROVE FALSE
        BY <1>0, <1>2, <2>2, <3>3 DEF PeriodEnds
      <3>4. ASSUME NEW x \in Subs, NEW p \in Pairs, SubscribedInStripe(x, p) PROVE FALSE
        BY <1>0, <1>2, <2>2, <3>4 DEF SubscribedInStripe
      <3> QED  BY <1>2, <2>2, <3>1, <3>2, <3>3, <3>4, StripeSteps DEF KeyExpires
    <2> QED  BY <2>1, <2>2
  <1> QED  BY <1>1, <1>2 DEF GraceInv, GraceForHandlers, NoCancellationWithoutGrace

-----------------------------------------------------------------------------
(* A suspension for a failed payment has, or will have, its grace period.  *)

\* Who writes licenses and staged_license_changes.
LEMMA LicenseSteps ==
    ASSUME [Next]_vars
    PROVE  \/ UNCHANGED licenseVars
           \/ LicenseNext
           \/ \E i \in Invoices : SuspendForPayment(i)
  <1>1. ASSUME NEW i \in Invoices, EnqueuePaymentFailed(i) \/ JobStep(i),
               ~SuspendForPayment(i)
        PROVE  UNCHANGED licenseVars
    BY <1>1 DEF EnqueuePaymentFailed, JobStep, LookupInvoice, SuspendRefused,
                SuspendThrows, CheckOpenGrace, InsertGrace
  <1>2. ASSUME NEW c \in Callers, CallStep(c) PROVE UNCHANGED licenseVars
    BY <1>2 DEF CallStep, HandleLicenceCancelled, HandleLicenseReactivated, LookupPlan,
                StripeCreate, RecordCreate
  <1>3. ASSUME NEW w \in Procs, CancelStep(w) \/ StepFails(w) PROVE UNCHANGED licenseVars
    BY <1>3 DEF CancelStep, ReadSubscription, StripeCancel, RecordCancel, StepFails
  <1>4. CASE ScannerStep
    BY <1>4 DEF ScannerStep, Scan, ScanNext, ScanEnds
  <1>5. CASE Environment
    BY <1>5 DEF Environment, GraceExpires, SubscribedInStripe, PeriodEnds,
                HandleSubscriptionUpdated, HandleSubscriptionDeleted, KeyExpires
  <1> QED  BY <1>1, <1>2, <1>3, <1>4, <1>5, NextGroups DEF LicenseStep

\* A job that works for p leaves it only behind a grace period of p.
LEMMA JobHoldsPair ==
    ASSUME TypeInv, GraceInv, [Next]_vars, NEW i \in Invoices, NEW p \in Pairs,
           arg[i].pair = p, pc[i] \notin {"idle", "completed"}, ~HasGrace(p)
    PROVE  arg'[i].pair = p /\ pc'[i] \notin {"idle", "completed"}
  <1>0. /\ i \in Procs /\ i \notin Callers /\ i # Scanner
        /\ pc \in [Procs -> Steps] /\ arg \in [Procs -> Locals] /\ p # None
    BY ProcsSplit, NoneIsNoPair DEF TypeInv, TypeOK
  <1>1. ASSUME Throw(i), pc[i] # "failed"
        PROVE  arg'[i].pair = p /\ pc'[i] \notin {"idle", "completed"}
    BY <1>0, <1>1, ThrowStep DEF Kept, NoLocals
  <1>2. CASE LookupInvoice(i)
    <2>1. PICK x \in Pairs : /\ arg[i].pair \in {None, x}
                             /\ arg' = [arg EXCEPT ![i].pair = x]
                             /\ Goto(i, "suspend")
      BY <1>0, <1>2 DEF LookupInvoice
    <2> QED  BY <1>0, <2>1 DEF Goto, Locals
  <1>3. CASE SuspendForPayment(i) \/ SuspendRefused(i) \/ InsertGrace(i)
    BY <1>0, <1>3 DEF SuspendForPayment, SuspendRefused, InsertGrace, Goto
  <1>4. CASE SuspendThrows(i)
    BY <1>1, <1>4 DEF SuspendThrows
  <1>5. CASE CheckOpenGrace(i)
    BY <1>0, <1>5 DEF CheckOpenGrace, OpenGraces, HasGrace, Goto
  <1>6. ASSUME CancelStep(i) PROVE FALSE
    BY <1>0, <1>6 DEF CancelStep, ReadSubscription, StripeCancel, RecordCancel, GraceInv,
                      GraceForHandlers, Late
  <1>7. CASE StepFails(i)
    BY <1>1, <1>7 DEF StepFails, Running
  <1>8. CASE ~Moves(i)
    BY <1>8 DEF Moves
  <1>9. ~EnqueuePaymentFailed(i)
    BY DEF EnqueuePaymentFailed
  <1> QED  BY <1>0, <1>2, <1>3, <1>4, <1>5, <1>6, <1>7, <1>8, <1>9, OwnSteps DEF JobStep

\* PaymentSuspensionHasGrace without the status, which a staged change may set to
\* suspended at any time.
SuspensionInv ==
    \A p \in Pairs : lic[p].reason = "payment_failed"
        => \/ HasGrace(p)
           \/ \E i \in Invoices : arg[i].pair = p /\ pc[i] \notin {"idle", "completed"}

LEMMA LicenseReasons ==
    ASSUME TypeInv, LicenseNext, NEW p \in Pairs, lic'[p].reason = "payment_failed"
    PROVE  lic[p].reason = "payment_failed"
  <1>0. lic \in [Pairs -> Licence] /\ lic[p] \in Licence
    BY DEF TypeInv, TypeOK, LicenseTypeOK
  <1>1. CASE UNCHANGED lic
    BY <1>1
  <1>2. ASSUME NEW x \in Pairs,
               \/ CreateLicense(x) \/ ActivateLicense(x) \/ FreezeLicense(x)
               \/ UnfreezeProduct(x) \/ CancelLicense(x)
        PROVE  lic[p].reason = "payment_failed"
    BY <1>0, <1>2 DEF CreateLicense, ActivateLicense, FreezeLicense, Suspend,
                      UnfreezeProduct, CancelLicense, Licence
  <1>3. ASSUME NEW r \in Promoters, PromotionWrite(r) PROVE lic[p].reason = "payment_failed"
    <2>1. PICK s \in todo[r] : lic' = [lic EXCEPT ![staged[s].pair].status = staged[s].to]
      BY <1>3 DEF PromotionWrite
    <2> QED  BY <1>0, <2>1 DEF Licence
  <1>4. ASSUME NEW s \in Stages, StageChange(s) PROVE UNCHANGED lic
    BY <1>4 DEF StageChange
  <1>5. ASSUME NEW r \in Promoters, PromotionRead(r) \/ PromotionSkip(r) \/ PromotionCrash(r)
        PROVE  UNCHANGED lic
    BY <1>5 DEF PromotionRead, PromotionSkip, PromotionCrash
  <1> QED  BY <1>1, <1>2, <1>3, <1>4, <1>5 DEF LicenseNext

LEMMA SuspensionInvNext ==
    ASSUME TypeInv, GraceInv, SuspensionInv, [Next]_vars
    PROVE  SuspensionInv'
  <1> SUFFICES ASSUME NEW p \in Pairs, lic'[p].reason = "payment_failed", ~HasGrace(p)'
               PROVE  \E i \in Invoices : arg'[i].pair = p
                                          /\ pc'[i] \notin {"idle", "completed"}
    BY DEF SuspensionInv, HasGrace
  <1>1. ~HasGrace(p)
    BY GraceFacts, GracePairsStay
  <1>2. \E i \in Invoices : arg[i].pair = p /\ pc[i] \notin {"idle", "completed"}
    <2>1. CASE lic[p].reason = "payment_failed"
      BY <1>1, <2>1 DEF SuspensionInv
    <2>2. ASSUME NEW i \in Invoices, SuspendForPayment(i), lic[p].reason # "payment_failed"
          PROVE  arg[i].pair = p /\ pc[i] = "suspend"
      BY <2>2 DEF SuspendForPayment, Suspend, TypeInv, TypeOK, LicenseTypeOK
    <2>3. CASE UNCHANGED licenseVars
      BY <2>1, <2>3 DEF licenseVars
    <2>4. CASE LicenseNext
      BY <2>1, <2>4, LicenseReasons
    <2> QED  BY <2>1, <2>2, <2>3, <2>4, LicenseSteps
  <1> QED  BY <1>1, <1>2, JobHoldsPair

-----------------------------------------------------------------------------
(* The inductive invariant and the theorems.                               *)

SafetyInv == TypeInv /\ PairInv /\ GraceInv /\ SuspensionInv

LEMMA SafetyInit == Init => SafetyInv
  <1> SUFFICES ASSUME Init PROVE PairInv /\ GraceInv /\ SuspensionInv
    BY InitType DEF SafetyInv
  <1>1. PairInv
    BY NoneIsNoPair DEF Init, PairInv, SubscriptionOfItsPair, ReplayOfItsPair, NoRow
  <1>2. GraceInv
    BY DEF Init, GraceInv, GraceForHandlers, NoCancellationWithoutGrace, NoSubscription, Late
  <1>3. SuspensionInv
    BY DEF Init, LicenseInit, SuspensionInv, NoLicence
  <1> QED  BY <1>1, <1>2, <1>3

LEMMA SafetyNext == SafetyInv /\ [Next]_vars => SafetyInv'
  BY NextType, PairInvNext, GraceInvNext, SuspensionInvNext DEF SafetyInv

\* No subscription is canceled, or scheduled to be, for a customer without a grace period.
THEOREM CancellationNeedsGrace == Spec => []NoCancellationWithoutGrace
  <1>1. SafetyInv => NoCancellationWithoutGrace
    BY DEF SafetyInv, GraceInv
  <1> QED  BY SafetyInit, SafetyNext, <1>1, PTL DEF Spec

\* Rows, replayed Stripe answers and handlers never hold another pair's subscription.
THEOREM SubscriptionsStayWithTheirPair == Spec => []SubscriptionOfItsPair
  <1>1. SafetyInv => SubscriptionOfItsPair
    BY DEF SafetyInv, PairInv
  <1> QED  BY SafetyInit, SafetyNext, <1>1, PTL DEF Spec

\* A payment suspension without a grace period has a job that still has to open one, or
\* that died trying.
THEOREM SuspensionOpensGrace == Spec => []PaymentSuspensionHasGrace
  <1>1. SafetyInv => PaymentSuspensionHasGrace
    BY DEF SafetyInv, SuspensionInv, PaymentSuspensionHasGrace
  <1> QED  BY SafetyInit, SafetyNext, <1>1, PTL DEF Spec

-----------------------------------------------------------------------------
(* The composed system implements LicenseLifecycle: whatever the queue     *)
(* jobs, the promotion cron and the operators do at the same time, a       *)
(* licence takes no edge that is neither in the state machine nor staged.  *)

Status == [p \in Pairs |-> lic[p].status]
Existing == {x \in Stages : staged[x].state # "absent"}
Approved == {<<staged[s].pair, staged[s].to>> : s \in Existing}

LEMMA ViewsSame ==
    ASSUME UNCHANGED <<lic, staged>>
    PROVE  UNCHANGED <<Status, Approved>>
  BY DEF Status, Approved, Existing

LEMMA ApprovedSame ==
    ASSUME UNCHANGED staged
    PROVE  Approved' = Approved
  BY DEF Approved, Existing

\* Setting the status of one licence is setting one point of the view.
LEMMA StatusStep ==
    ASSUME LicenseTypeOK, NEW p \in Pairs, NEW l \in Licence,
           lic' = [lic EXCEPT ![p] = l]
    PROVE  Status' = [Status EXCEPT ![p] = l.status]
  BY DEF LicenseTypeOK, Status

\* An FSM operation is an edge of the state machine.
LEMMA EdgeStep ==
    ASSUME LicenseTypeOK, NEW p \in Pairs, NEW l \in Licence, l.status \in Statuses,
           lic' = [lic EXCEPT ![p] = l], UNCHANGED staged,
           <<lic[p].status, l.status>> \in Lifecycle!Edges
    PROVE  Lifecycle!Next
  <1>1. Status' = [Status EXCEPT ![p] = l.status] /\ Approved' = Approved
    BY StatusStep, ApprovedSame
  <1>2. Status[p] = lic[p].status
    BY DEF Status
  <1>3. l.status \in Lifecycle!Statuses /\ <<Status[p], l.status>> \in Lifecycle!Edges
    BY <1>2 DEF Lifecycle!Statuses, Statuses
  <1>4. Lifecycle!Move(p)
    BY <1>1, <1>3 DEF Lifecycle!Move, Status, Approved, Existing
  <1> QED  BY <1>4 DEF Lifecycle!Next

LEMMA EdgeList ==
    /\ <<"none", "pending">> \in Lifecycle!Edges
    /\ <<"pending", "active">> \in Lifecycle!Edges
    /\ <<"active", "suspended">> \in Lifecycle!Edges
    /\ <<"suspended", "active">> \in Lifecycle!Edges
    /\ <<"suspended", "cancelled">> \in Lifecycle!Edges
  BY DEF Lifecycle!Edges

LEMMA SuspendEdge ==
    ASSUME LicenseTypeOK, NEW p \in Pairs, NEW reason \in Reasons, Suspend(p, reason)
    PROVE  Lifecycle!Next
  <1> DEFINE l == [status |-> "suspended", reason |-> reason, clock |-> TRUE]
  <1>1. l \in Licence /\ l.status \in Statuses /\ l.status = "suspended"
    BY DEF Licence, Statuses
  <1>2. lic' = [lic EXCEPT ![p] = l] /\ UNCHANGED staged /\ lic[p].status = "active"
    BY DEF Suspend
  <1> HIDE DEF l
  <1> QED  BY <1>1, <1>2, EdgeList, EdgeStep

LEMMA OperationEdge ==
    ASSUME LicenseTypeOK, NEW p \in Pairs,
           CreateLicense(p) \/ ActivateLicense(p) \/ UnfreezeProduct(p) \/ CancelLicense(p)
    PROVE  Lifecycle!Next
  <1>0. lic \in [Pairs -> Licence]
    BY DEF LicenseTypeOK
  <1>1. PICK l \in Licence : /\ l.status \in Statuses
                             /\ lic' = [lic EXCEPT ![p] = l]
                             /\ <<lic[p].status, l.status>> \in Lifecycle!Edges
    <2>1. CASE CreateLicense(p)
      <3>1. /\ [lic[p] EXCEPT !.status = "pending"] \in Licence
            /\ [lic[p] EXCEPT !.status = "pending"].status = "pending"
        BY <1>0 DEF Licence, Statuses
      <3> QED  BY <1>0, <2>1, <3>1, EdgeList DEF CreateLicense, Statuses
    <2>2. CASE ActivateLicense(p)
      <3>1. /\ [lic[p] EXCEPT !.status = "active"] \in Licence
            /\ [lic[p] EXCEPT !.status = "active"].status = "active"
        BY <1>0 DEF Licence, Statuses
      <3> QED  BY <1>0, <2>2, <3>1, EdgeList DEF ActivateLicense, Statuses
    <2>3. CASE UnfreezeProduct(p)
      <3>1. [status |-> "active", reason |-> "NULL", clock |-> FALSE] \in Licence
        BY DEF Licence, Statuses, Reasons
      <3> QED  BY <2>3, <3>1, EdgeList DEF UnfreezeProduct, Statuses
    <2>4. CASE CancelLicense(p)
      <3> DEFINE l == [lic[p] EXCEPT !.status = "cancelled", !.reason = "NULL"]
      <3>1. l \in Licence /\ l.status = "cancelled"
        BY <1>0 DEF Licence, Statuses, Reasons
      <3>2. lic' = [lic EXCEPT ![p] = l] /\ lic[p].status = "suspended"
        BY <1>0, <2>4 DEF CancelLicense, Licence
      <3> HIDE DEF l
      <3> QED  BY <3>1, <3>2, EdgeList DEF Statuses
    <2> QED  BY <2>1, <2>2, <2>3, <2>4
  <1>2. UNCHANGED staged
    BY DEF CreateLicense, ActivateLicense, UnfreezeProduct, CancelLicense
  <1> QED  BY <1>1, <1>2, EdgeStep

\* Inserting a staged change is the operator's approval.
LEMMA StageIsApprove ==
    ASSUME LicenseTypeOK, NEW s \in Stages, StageChange(s)
    PROVE  Lifecycle!Next
  <1>1. PICK p \in Pairs, to \in Statuses :
          /\ lic[p].status # "none"
          /\ staged' = [staged EXCEPT ![s] = [state |-> "unpromoted", pair |-> p, to |-> to]]
    BY DEF StageChange
  <1>2. staged \in [Stages -> StagedChange] /\ staged[s].state = "absent" /\ UNCHANGED lic
    BY DEF LicenseTypeOK, StageChange
  <1>3. \A x \in Stages : staged'[x] = IF x = s
              THEN [state |-> "unpromoted", pair |-> p, to |-> to] ELSE staged[x]
    BY <1>1, <1>2
  <1>4. Existing' = Existing \cup {s} /\ s \notin Existing
    BY <1>2, <1>3 DEF Existing
  <1>5. Approved' = Approved \cup {<<p, to>>}
    <2>1. Approved' = {<<staged'[x].pair, staged'[x].to>> : x \in Existing \cup {s}}
      BY <1>4 DEF Approved
    <2>2. \A x \in Existing : staged'[x] = staged[x]
      BY <1>3, <1>4 DEF Existing
    <2>3. staged'[s].pair = p /\ staged'[s].to = to
      BY <1>3
    <2> QED  BY <2>1, <2>2, <2>3 DEF Approved
  <1>6. Status' = Status /\ Status[p] # "none" /\ to \in Lifecycle!Statuses
    BY <1>1, <1>2 DEF Status, Statuses, Lifecycle!Statuses
  <1>7. Lifecycle!Approve(p)
    BY <1>5, <1>6 DEF Lifecycle!Approve, Status, Approved, Existing
  <1> QED  BY <1>7 DEF Lifecycle!Next

\* Promoting a row does what the operator approved.
LEMMA PromotionIsOverride ==
    ASSUME LicenseTypeOK, TodoOK, NEW r \in Promoters, PromotionWrite(r)
    PROVE  Lifecycle!Next
  <1>0. /\ lic \in [Pairs -> Licence] /\ staged \in [Stages -> StagedChange]
        /\ todo \in [Promoters -> SUBSET Stages]
    BY DEF LicenseTypeOK
  <1>1. PICK s \in todo[r] :
          /\ lic' = [lic EXCEPT ![staged[s].pair].status = staged[s].to]
          /\ staged' = [staged EXCEPT ![s].state = "promoted"]
    BY DEF PromotionWrite
  <1>2. s \in Existing
    BY <1>0 DEF TodoOK, Existing
  <1>3. staged[s] \in [state : {"unpromoted", "promoted"}, pair : Pairs, to : Statuses]
    BY <1>0, <1>2 DEF Existing, StagedChange, NoChange
  <1>a. PICK p \in Pairs, to \in Statuses : staged[s].pair = p /\ staged[s].to = to
    BY <1>3
  <1> DEFINE l == [lic[p] EXCEPT !.status = to]
  <1>4. l \in Licence /\ l.status = to /\ lic' = [lic EXCEPT ![p] = l]
    BY <1>0, <1>1, <1>a DEF Licence
  <1>5. Status' = [Status EXCEPT ![p] = to]
    <2> HIDE DEF l
    <2> QED  BY <1>4, StatusStep
  <1>6. Approved' = Approved
    <2>1. \A x \in Stages : /\ staged'[x].state # "absent" <=> staged[x].state # "absent"
                            /\ staged'[x].pair = staged[x].pair
                            /\ staged'[x].to = staged[x].to
      BY <1>0, <1>1, <1>2, <1>3 DEF StagedChange, NoChange, Existing
    <2>2. Existing' = Existing
      BY <2>1 DEF Existing
    <2> QED  BY <2>1, <2>2 DEF Approved, Existing
  <1>7. <<p, to>> \in Approved
    BY <1>2, <1>a DEF Approved
  <1>8. to \in Lifecycle!Statuses
    BY DEF Statuses, Lifecycle!Statuses
  <1>9. Lifecycle!Override(p)
    BY <1>5, <1>6, <1>7, <1>8 DEF Lifecycle!Override, Status, Approved, Existing
  <1> QED  BY <1>9 DEF Lifecycle!Next

LEMMA LicenseStepRefines ==
    ASSUME LicenseTypeOK, TodoOK, LicenseNext
    PROVE  Lifecycle!Next \/ UNCHANGED <<lic, staged>>
  <1>1. ASSUME NEW p \in Pairs, FreezeLicense(p) PROVE Lifecycle!Next
    BY <1>1, SuspendEdge DEF FreezeLicense, Reasons
  <1>2. ASSUME NEW r \in Promoters, PromotionRead(r) \/ PromotionSkip(r) \/ PromotionCrash(r)
        PROVE  UNCHANGED <<lic, staged>>
    BY <1>2 DEF PromotionRead, PromotionSkip, PromotionCrash
  <1> QED  BY <1>1, <1>2, OperationEdge, StageIsApprove, PromotionIsOverride DEF LicenseNext

LEMMA StepRefines ==
    ASSUME TypeInv, [Next]_vars
    PROVE  [Lifecycle!Next]_(Lifecycle!lifecycleVars)
  <1>1. CASE UNCHANGED <<lic, staged>>
    BY <1>1, ViewsSame DEF Lifecycle!lifecycleVars, Status, Approved, Existing
  <1>2. ASSUME NEW i \in Invoices, SuspendForPayment(i) PROVE Lifecycle!Next
    <2>1. arg[i].pair \in Pairs /\ Suspend(arg[i].pair, "payment_failed")
      BY <1>2, ProcsSplit DEF SuspendForPayment, TypeInv, LocalsOK, WithPair
    <2> QED  BY <2>1, SuspendEdge DEF Reasons, TypeInv, TypeOK
  <1> QED  BY <1>1, <1>2, LicenseSteps, LicenseStepRefines DEF TypeInv, TypeOK, licenseVars

LEMMA InitRefines == Init => Lifecycle!Init
  BY DEF Init, LicenseInit, Lifecycle!Init, NoLicence, NoChange

\* The licences implement LicenseLifecycle for any number of concurrent jobs, calls and
\* promotion runs: every change of a status is an edge of the FSM or a staged change.
THEOREM LicensesRefineLifecycle == Spec => RefinesLifecycle
  BY InitType, NextType, InitRefines, StepRefines, PTL DEF Spec, RefinesLifecycle,
     Lifecycle!Spec
=============================================================================
