-------------------------- MODULE EntitlementProofs --------------------------
(***************************************************************************)
(* Proofs about Entitlement, for any number of gates, SDK versions,        *)
(* requests and verifications.                                             *)
(***************************************************************************)
EXTENDS Entitlement, TLAPS

Steps == {"idle"} \cup Running \cup Ended
Read == [kill : [Gates -> BOOLEAN] \cup {None},
         override : [Gates -> BOOLEAN \cup {None}] \cup {None},
         status : Lifecycle!Statuses \cup {"none", None},
         on : SUBSET Gates, expires : Nat]
Lease == [stored : BOOLEAN, on : SUBSET Gates, expires : Nat, revoked : BOOLEAN]
Verification == [lease : Requests \cup {None}, stored : BOOLEAN, revoked : BOOLEAN,
                 expires : Nat, dead : BOOLEAN,
                 answer : {"none", "invalid", "revoked", "expired", "valid"}]

\* All that could ever stand against a lease of the pair.
AnyRefusal == {<<"licence", Pair>>} \cup {<<"sunset", v>> : v \in Versions}
                \cup {<<"kill", g>> : g \in Gates} \cup {<<"override", g>> : g \in Gates}

LEMMA RefusalsBound ==
    ASSUME NEW s, NEW k, NEW o, NEW ver
    PROVE  Refusals(s, k, o, ver) \subseteq AnyRefusal
  BY DEF Refusals, AnyRefusal

LEMMA AllRefusals ==
    Refusals([p \in {Pair} |-> "suspended"], [g \in Gates |-> TRUE],
             [g \in Gates |-> FALSE], [v \in Versions |-> "sunset"]) = AnyRefusal
  BY DEF Refusals, AnyRefusal, Blocked

-----------------------------------------------------------------------------
(* Types.                                                                  *)

TablesOK ==
    /\ status \in [{Pair} -> Lifecycle!Statuses \cup {"none"}]
    /\ approved \subseteq {Pair} \X Lifecycle!Statuses
    /\ kill \in [Gates -> BOOLEAN]
    /\ override \in [Gates -> BOOLEAN \cup {None}]
    /\ version \in [Versions -> {"unknown", "supported", "sunset"}]

RequestsOK ==
    /\ reports \in Versions \cup {None}
    /\ pc \in [Requests -> Steps]
    /\ arg \in [Requests -> Read]
    /\ count \in Nat /\ ttl \in BOOLEAN /\ orphaned \in BOOLEAN
    /\ since \in [Requests -> SUBSET AnyRefusal]

LeasesOK ==
    /\ leases \in [Requests -> Lease]
    /\ extension \in [Requests -> Nat \cup {None}]
    /\ verify \in [Verifiers -> Verification]
    /\ clock \in Nat /\ changes \in Nat

TypeInv == TablesOK /\ RequestsOK /\ LeasesOK

LEMMA TypeParts == TypeOK <=> TypeInv
  BY AllRefusals DEF TypeOK, TypeInv, TablesOK, RequestsOK, LeasesOK, Steps, Read, Lease,
                     Verification

LEMMA InitType == Init => TypeInv
  <1> SUFFICES ASSUME Init PROVE TypeInv
    OBVIOUS
  <1>1. TablesOK
    BY DEF Init, TablesOK
  <1>2. NothingRead \in Read
    BY DEF NothingRead, Read
  <1>3. NoLease \in Lease /\ NoVerify \in Verification
    BY DEF NoLease, Lease, NoVerify, Verification
  <1>4. RequestsOK
    BY <1>2 DEF Init, RequestsOK, Steps
  <1>5. LeasesOK
    BY <1>3 DEF Init, LeasesOK
  <1> QED  BY <1>1, <1>4, <1>5 DEF TypeInv

\* Watch forgets refusals and adds none.
LEMMA WatchType ==
    ASSUME RequestsOK, Watch
    PROVE  since' \in [Requests -> SUBSET AnyRefusal]
  BY DEF RequestsOK, Watch

LEMMA IssueType ==
    ASSUME TypeInv, NEW r \in Requests,
           Incr(r) \/ Pexpire(r) \/ ReadLicense(r) \/ ReadGates(r) \/ CheckVersion(r)
    PROVE  TypeInv'
  <1>0. arg[r] \in Read /\ NothingRead \in Read /\ InForce \subseteq AnyRefusal
    BY RefusalsBound DEF TypeInv, RequestsOK, NothingRead, Read, InForce
  <1>1. CASE Incr(r)
    BY <1>0, <1>1 DEF Incr, TypeInv, TablesOK, RequestsOK, LeasesOK, Steps, Running, Ended,
                      licenceVars, operatorVars, leaseVars
  <1>2. CASE Pexpire(r)
    BY <1>2 DEF Pexpire, TypeInv, TablesOK, RequestsOK, LeasesOK, Steps, Running,
                licenceVars, operatorVars, leaseVars
  <1>3. CASE ReadLicense(r)
    BY <1>3 DEF ReadLicense, TypeInv, TablesOK, RequestsOK, LeasesOK, Steps, Running, Ended,
                licenceVars, operatorVars, limiterVars, leaseVars
  <1>4. CASE ReadGates(r)
    <2>1. /\ [arg[r] EXCEPT !.kill = kill] \in Read
          /\ [arg[r] EXCEPT !.override = override] \in Read
          /\ [arg[r] EXCEPT !.status = status[Pair]] \in Read
      BY <1>0 DEF TypeInv, TablesOK, Read
    <2>2. arg' \in [Requests -> Read]
      BY <1>4, <2>1 DEF ReadGates, TypeInv, RequestsOK
    <2> QED  BY <1>4, <2>2 DEF ReadGates, TypeInv, TablesOK, RequestsOK, LeasesOK,
                licenceVars, operatorVars, limiterVars, leaseVars
  <1>5. CASE CheckVersion(r)
    <2>1. [NothingRead EXCEPT !.on = Snapshot(arg[r].kill, arg[r].override, arg[r].status),
                              !.expires = clock + Term] \in Read
      <3>1. Snapshot(arg[r].kill, arg[r].override, arg[r].status) \in SUBSET Gates
        BY Zenon DEF Snapshot
      <3>2. clock + Term \in Nat
        BY TermAssumption DEF TypeInv, LeasesOK
      <3>3. ASSUME NEW s \in SUBSET Gates, NEW t \in Nat
            PROVE  [NothingRead EXCEPT !.on = s, !.expires = t] \in Read
        BY DEF NothingRead, Read
      <3> QED  BY <3>1, <3>2, <3>3
    <2>2. arg' \in [Requests -> Read]
      BY <1>0, <1>5, <2>1 DEF CheckVersion, TypeInv, RequestsOK
    <2>3. pc' \in [Requests -> Steps] /\ since' \in [Requests -> SUBSET AnyRefusal]
      BY <1>5 DEF CheckVersion, TypeInv, RequestsOK, Steps, Running, Ended
    <2> QED  BY <1>5, <2>2, <2>3 DEF CheckVersion, TypeInv, TablesOK, RequestsOK, LeasesOK,
                licenceVars, operatorVars, limiterVars, leaseVars
  <1> QED  BY <1>1, <1>2, <1>3, <1>4, <1>5

LEMMA EndType ==
    ASSUME TypeInv, NEW r \in Requests, InsertLease(r) \/ RecordVersion(r) \/ RequestFails(r)
    PROVE  TypeInv'
  <1>0. arg[r] \in Read /\ NothingRead \in Read
    BY DEF TypeInv, RequestsOK, NothingRead, Read
  <1>1. CASE InsertLease(r)
    <2>1. [stored |-> TRUE, on |-> arg[r].on, expires |-> arg[r].expires,
           revoked |-> FALSE] \in Lease
      BY <1>0 DEF Read, Lease
    <2> QED  BY <1>0, <1>1, <2>1 DEF InsertLease, TypeInv, TablesOK, RequestsOK, LeasesOK, Steps,
                Ended, licenceVars, operatorVars, limiterVars, leaseVars
  <1>2. CASE RecordVersion(r)
    <2>1. reports' \in Versions \cup {None}
      BY <1>2, VersionAssumption DEF RecordVersion, TypeInv, RequestsOK
    <2>2. pc' \in [Requests -> Steps]
      BY <1>2 DEF RecordVersion, TypeInv, RequestsOK, Steps, Ended
    <2> QED  BY <1>2, <2>1, <2>2 DEF RecordVersion, TypeInv, TablesOK, RequestsOK, LeasesOK,
                licenceVars, operatorVars, limiterVars, leaseVars
  <1>3. CASE RequestFails(r)
    BY <1>0, <1>3 DEF RequestFails, TypeInv, TablesOK, RequestsOK, LeasesOK, Steps, Ended,
                licenceVars, operatorVars, limiterVars, leaseVars
  <1> QED  BY <1>1, <1>2, <1>3

LEMMA VerifyType ==
    ASSUME TypeInv, NEW v \in Verifiers, VerifyRead(v) \/ VerifyAnswer(v)
    PROVE  TypeInv'
  <1>0. verify[v] \in Verification
    BY DEF TypeInv, LeasesOK
  <1>1. CASE VerifyRead(v)
    <2>1. PICK l \in Requests : verify' = [verify EXCEPT ![v] =
            [lease |-> l, stored |-> leases[l].stored, revoked |-> leases[l].revoked,
             expires |-> leases[l].expires, dead |-> Dead(l), answer |-> "none"]]
      BY <1>1 DEF VerifyRead
    <2>2. leases[l] \in Lease /\ Dead(l) \in BOOLEAN
      BY DEF TypeInv, LeasesOK, Lease, Dead
    <2>3. verify' \in [Verifiers -> Verification]
      BY <2>1, <2>2 DEF TypeInv, LeasesOK, Lease, Verification
    <2> QED  BY <1>1, <2>3 DEF VerifyRead, TypeInv, TablesOK, RequestsOK, LeasesOK,
                licenceVars, operatorVars, requestVars, limiterVars, leaseVars
  <1>2. CASE VerifyAnswer(v)
    <2>1. PICK a \in {"invalid", "revoked", "expired", "valid"} : verify' =
            [verify EXCEPT ![v] = [NoVerify EXCEPT !.dead = verify[v].dead, !.answer = a]]
      BY <1>2 DEF VerifyAnswer
    <2>2. verify' \in [Verifiers -> Verification]
      BY <1>0, <2>1 DEF TypeInv, LeasesOK, Verification, NoVerify
    <2> QED  BY <1>2, <2>2 DEF VerifyAnswer, TypeInv, TablesOK, RequestsOK, LeasesOK,
                licenceVars, operatorVars, requestVars, limiterVars, leaseVars
  <1> QED  BY <1>1, <1>2

LEMMA LicenceMovesType ==
    ASSUME TypeInv, LicenceMoves
    PROVE  TypeInv'
  <1>1. Lifecycle!Move(Pair) \/ Lifecycle!Approve(Pair) \/ Lifecycle!Override(Pair)
    BY DEF LicenceMoves, Lifecycle!Next
  <1>2. /\ status' \in [{Pair} -> Lifecycle!Statuses \cup {"none"}]
        /\ approved' \subseteq {Pair} \X Lifecycle!Statuses
    <2>1. CASE Lifecycle!Move(Pair)
      BY <2>1 DEF TypeInv, TablesOK, Lifecycle!Move
    <2>2. CASE Lifecycle!Approve(Pair)
      BY <2>2 DEF TypeInv, TablesOK, Lifecycle!Approve
    <2>3. CASE Lifecycle!Override(Pair)
      BY <2>3 DEF TypeInv, TablesOK, Lifecycle!Override
    <2> QED  BY <1>1, <2>1, <2>2, <2>3
  <1> QED  BY <1>2, WatchType DEF LicenceMoves, Change, TypeInv, TablesOK, RequestsOK, LeasesOK,
              operatorVars, requestVars, limiterVars, leaseVars

LEMMA LeaseChangeType ==
    ASSUME TypeInv, NEW r \in Requests, LeaseMoves(r)
    PROVE  TypeInv'
  <1>0. leases[r] \in Lease
    BY DEF TypeInv, LeasesOK
  <1>1. [leases[r] EXCEPT !.revoked = TRUE] \in Lease
    BY <1>0 DEF Lease
  <1>2. [leases[r] EXCEPT !.expires = leases[r].expires + 1] \in Lease
    <2>1. leases[r].expires + 1 \in Nat
      BY <1>0 DEF Lease
    <2> QED  BY <1>0, <2>1 DEF Lease
  <1>3. /\ leases' \in [Requests -> Lease]
        /\ extension' \in [Requests -> Nat \cup {None}]
    BY <1>1, <1>2 DEF LeaseMoves, RevokeLease, CheckExtendable, ExtendLease, ExtensionFails, TypeInv, LeasesOK
  <1> QED  BY <1>3 DEF LeaseMoves, RevokeLease, CheckExtendable, ExtendLease, ExtensionFails, Change, TypeInv, TablesOK, RequestsOK, LeasesOK,
              licenceVars, operatorVars, requestVars, limiterVars, leaseVars

LEMMA ClockType ==
    ASSUME TypeInv, WindowEnds \/ Tick
    PROVE  TypeInv'
  <1>1. CASE WindowEnds
    BY <1>1 DEF WindowEnds, TypeInv, TablesOK, RequestsOK, LeasesOK,
                licenceVars, operatorVars, requestVars, leaseVars
  <1>2. CASE Tick
    <2>1. clock' \in Nat
      BY <1>2 DEF Tick, TypeInv, LeasesOK
    <2> QED  BY <1>2, <2>1 DEF Tick, TypeInv, TablesOK, RequestsOK, LeasesOK,
                licenceVars, operatorVars, requestVars, limiterVars, leaseVars
  <1> QED  BY <1>1, <1>2

LEMMA NextType == TypeInv /\ [Next]_vars => TypeInv'
  <1> SUFFICES ASSUME TypeInv, [Next]_vars PROVE TypeInv'
    OBVIOUS
  <1>1. CASE UNCHANGED vars
    BY <1>1 DEF TypeInv, TablesOK, RequestsOK, LeasesOK, vars, licenceVars, operatorVars,
                requestVars, limiterVars, leaseVars
  <1>2. CASE Next
    <2>1. ASSUME NEW g \in Gates, NEW on \in BOOLEAN,
                 SetKillSwitch(g, on) \/ SetTenantFeatureOverride(g, on)
          PROVE  TypeInv'
      BY <2>1, WatchType DEF SetKillSwitch, SetTenantFeatureOverride, Change, TypeInv, TablesOK,
              RequestsOK, LeasesOK, licenceVars, requestVars, limiterVars, leaseVars
    <2>2. ASSUME NEW v \in Versions, NEW s \in {"supported", "sunset"}, SetVersionStatus(v, s)
          PROVE  TypeInv'
      BY <2>2, WatchType DEF SetVersionStatus, Change, TypeInv, TablesOK, RequestsOK, LeasesOK,
              licenceVars, requestVars, limiterVars, leaseVars
    <2> QED  BY <1>2, <2>1, <2>2, IssueType, EndType, VerifyType, LicenceMovesType,
                LeaseChangeType, ClockType DEF Next
  <1> QED  BY <1>1, <1>2

\* TypeOK: the tables, the requests, the limiter's counter and the verifications keep their
\* shapes, however many requests run.
THEOREM EntitlementTypeCorrect == Spec => []TypeOK
  <1>1. TypeInv => TypeOK
    BY TypeParts
  <1> QED  BY InitType, NextType, <1>1, PTL DEF Spec

-----------------------------------------------------------------------------
(* The two chains.                                                         *)

\* ChainsAgree: for a customer with a licence, evaluateGate and the batch snapshot give every gate the
\* same value, enabled or disabled, whatever kill switches, overrides and licence status the tables
\* hold.
THEOREM GateChainsAgree == Spec => []ChainsAgree
  <1>1. TypeInv => ChainsAgree
    BY DEF TypeInv, TablesOK, ChainsAgree, EvaluateGate, Snapshot
  <1> QED  BY <1>1, InitType, NextType, PTL DEF Spec

-----------------------------------------------------------------------------
(* Issued leases.                                                          *)

\* A request does not insert twice: its lease is there only once it is past the INSERT.
InsertedOnce == \A l \in Requests : leases[l].stored => pc[l] \in Ended

\* A verification that has read a dead lease has read why it is dead.
ReadDead ==
    \A v \in Verifiers :
        /\ verify[v].lease # None /\ verify[v].answer = "none" /\ verify[v].dead =>
                verify[v].revoked \/ verify[v].expires < clock
        /\ verify[v].answer = "valid" => ~verify[v].dead

\* While an extension holds a lease's row, nobody revokes it, and its end stays where it was read.
ExtensionHolds ==
    \A l \in Requests : extension[l] # None =>
        leases[l].stored /\ ~leases[l].revoked /\ extension[l] <= leases[l].expires

LeaseInv == TypeInv /\ InsertedOnce /\ ReadDead /\ ExtensionHolds

LEMMA InitLease == Init => LeaseInv
  BY InitType DEF Init, LeaseInv, InsertedOnce, ReadDead, ExtensionHolds, NoLease, NoVerify

\* Only these steps write leases, verify or the clock.
Quiet == UNCHANGED <<leases, extension, verify, clock>>

LEMMA QuietSteps ==
    ASSUME Next
    PROVE  \/ Quiet
           \/ \E r \in Requests : InsertLease(r) \/ LeaseMoves(r)
           \/ \E v \in Verifiers : VerifyRead(v) \/ VerifyAnswer(v)
           \/ Tick
  BY DEF Next, Quiet, Incr, Pexpire, ReadLicense, ReadGates, CheckVersion, RecordVersion,
         RequestFails, SetKillSwitch, SetTenantFeatureOverride, SetVersionStatus, LicenceMoves,
         WindowEnds, leaseVars

\* A request that has ended stays so.
LEMMA EndedStays ==
    ASSUME TypeInv, [Next]_vars, NEW l \in Requests, pc[l] \in Ended
    PROVE  pc'[l] \in Ended
  <1>1. CASE UNCHANGED vars
    BY <1>1 DEF vars, requestVars
  <1>2. ASSUME NEW r \in Requests,
               \/ Incr(r) \/ Pexpire(r) \/ ReadLicense(r) \/ ReadGates(r) \/ CheckVersion(r)
               \/ InsertLease(r) \/ RecordVersion(r) \/ RequestFails(r)
        PROVE  pc'[l] \in Ended
    BY <1>2 DEF TypeInv, RequestsOK, Incr, Pexpire, ReadLicense, ReadGates, CheckVersion,
                InsertLease, RecordVersion, RequestFails, Running, Ended
  <1>3. ASSUME NEW r \in Requests, LeaseMoves(r)
        PROVE  pc'[l] \in Ended
    BY <1>3 DEF LeaseMoves, RevokeLease, CheckExtendable, ExtendLease, ExtensionFails, requestVars
  <1>4. ASSUME NEW v \in Verifiers, VerifyRead(v) \/ VerifyAnswer(v)
        PROVE  pc'[l] \in Ended
    BY <1>4 DEF VerifyRead, VerifyAnswer, requestVars
  <1>5. ASSUME NEW g \in Gates, NEW on \in BOOLEAN,
               SetKillSwitch(g, on) \/ SetTenantFeatureOverride(g, on)
        PROVE  pc'[l] \in Ended
    BY <1>5 DEF SetKillSwitch, SetTenantFeatureOverride, requestVars
  <1>6. ASSUME NEW v \in Versions, NEW s \in {"supported", "sunset"}, SetVersionStatus(v, s)
        PROVE  pc'[l] \in Ended
    BY <1>6 DEF SetVersionStatus, requestVars
  <1>7. ASSUME LicenceMoves \/ WindowEnds \/ Tick
        PROVE  pc'[l] \in Ended
    BY <1>7 DEF LicenceMoves, WindowEnds, Tick, requestVars
  <1> QED  BY <1>1, <1>2, <1>3, <1>4, <1>5, <1>6, <1>7 DEF Next

LEMMA NextInserted ==
    ASSUME LeaseInv, [Next]_vars
    PROVE  InsertedOnce'
  <1> SUFFICES ASSUME NEW l \in Requests, leases'[l].stored
               PROVE  pc'[l] \in Ended
    BY DEF InsertedOnce
  <1>1. CASE leases[l].stored
    BY <1>1, EndedStays DEF LeaseInv, InsertedOnce
  <1>2. CASE ~leases[l].stored
    <2>1. ~Quiet /\ ~UNCHANGED vars
      BY <1>2 DEF Quiet, vars, leaseVars
    <2>2. PICK r \in Requests : InsertLease(r) \/ LeaseMoves(r)
      BY <1>2, <2>1, QuietSteps DEF VerifyRead, VerifyAnswer, Tick, leaseVars
    <2>3. CASE InsertLease(r)
      BY <1>2, <2>3 DEF InsertLease, LeaseInv, TypeInv, RequestsOK, LeasesOK, Ended
    <2>4. CASE LeaseMoves(r)
      BY <1>2, <2>4 DEF LeaseMoves, RevokeLease, CheckExtendable, ExtendLease, ExtensionFails, LeaseInv, TypeInv, LeasesOK, Lease
    <2> QED  BY <2>2, <2>3, <2>4
  <1> QED  BY <1>1, <1>2

LEMMA NextReadDead ==
    ASSUME LeaseInv, [Next]_vars
    PROVE  ReadDead'
  <1>1. CASE verify' = verify /\ clock' = clock
    BY <1>1 DEF LeaseInv, ReadDead
  <1>2. CASE Tick
    BY <1>2 DEF Tick, LeaseInv, ReadDead, TypeInv, LeasesOK, Verification
  <1>3. ASSUME NEW w \in Verifiers, VerifyRead(w)
        PROVE  ReadDead'
    <2>1. PICK l \in Requests : verify' = [verify EXCEPT ![w] =
            [lease |-> l, stored |-> leases[l].stored, revoked |-> leases[l].revoked,
             expires |-> leases[l].expires, dead |-> Dead(l), answer |-> "none"]]
      BY <1>3 DEF VerifyRead
    <2>2. /\ verify'[w].dead = Dead(l) /\ verify'[w].answer = "none"
          /\ verify'[w].revoked = leases[l].revoked /\ verify'[w].expires = leases[l].expires
          /\ \A v \in Verifiers \ {w} : verify'[v] = verify[v]
      BY <2>1 DEF LeaseInv, TypeInv, LeasesOK
    <2>3. clock' = clock
      BY <1>3 DEF VerifyRead
    <2>4. Dead(l) => leases[l].revoked \/ leases[l].expires < clock
      BY DEF Dead
    <2> QED  BY <2>2, <2>3, <2>4 DEF LeaseInv, ReadDead
  <1>4. ASSUME NEW w \in Verifiers, VerifyAnswer(w)
        PROVE  ReadDead'
    <2>1. PICK a \in {"invalid", "revoked", "expired", "valid"} :
            /\ verify' = [verify EXCEPT ![w] =
                    [NoVerify EXCEPT !.dead = verify[w].dead, !.answer = a]]
            /\ a = "valid" => ~verify[w].revoked /\ ~(verify[w].expires < clock)
      BY <1>4 DEF VerifyAnswer
    <2>2. verify[w].lease # None /\ verify[w].answer = "none" /\ clock' = clock
      BY <1>4 DEF VerifyAnswer
    <2>3. /\ verify'[w].answer = a /\ verify'[w].dead = verify[w].dead
          /\ \A v \in Verifiers \ {w} : verify'[v] = verify[v]
      BY <2>1 DEF LeaseInv, TypeInv, LeasesOK, NoVerify
    <2>4. a = "valid" => ~verify[w].dead
      BY <2>1, <2>2 DEF LeaseInv, ReadDead
    <2> QED  BY <2>2, <2>3, <2>4 DEF LeaseInv, ReadDead
  <1>5. ASSUME NEW r \in Requests, InsertLease(r) \/ LeaseMoves(r)
        PROVE  verify' = verify /\ clock' = clock
    BY <1>5 DEF InsertLease, LeaseMoves, RevokeLease, CheckExtendable, ExtendLease, ExtensionFails
  <1>6. UNCHANGED vars \/ Quiet => verify' = verify /\ clock' = clock
    BY DEF vars, Quiet
  <1> QED  BY <1>1, <1>2, <1>3, <1>4, <1>5, <1>6, QuietSteps

LEMMA NextExtension ==
    ASSUME LeaseInv, [Next]_vars
    PROVE  ExtensionHolds'
  <1> SUFFICES ASSUME NEW l \in Requests, extension'[l] # None
               PROVE  leases'[l].stored /\ ~leases'[l].revoked /\ extension'[l] <= leases'[l].expires
    BY DEF ExtensionHolds
  <1>0. /\ leases \in [Requests -> Lease] /\ extension \in [Requests -> Nat \cup {None}]
        /\ clock \in Nat /\ None \notin Nat
        /\ extension[l] # None =>
              leases[l].stored /\ ~leases[l].revoked /\ extension[l] <= leases[l].expires
    BY NoneAssumption DEF LeaseInv, TypeInv, LeasesOK, ExtensionHolds
  <1>1. CASE UNCHANGED <<leases, extension>>
    BY <1>0, <1>1
  <1>2. ASSUME NEW r \in Requests, InsertLease(r)
        PROVE  leases'[l].stored /\ ~leases'[l].revoked /\ extension'[l] <= leases'[l].expires
    <2>1. extension' = extension /\ pc[r] = "insert"
      BY <1>2 DEF InsertLease
    <2>2. r # l
      BY <1>0, <2>1 DEF LeaseInv, InsertedOnce, Ended
    <2>3. leases'[l] = leases[l]
      BY <1>0, <1>2, <2>2 DEF InsertLease
    <2> QED  BY <1>0, <2>1, <2>3
  <1>3. ASSUME NEW r \in Requests, LeaseMoves(r)
        PROVE  leases'[l].stored /\ ~leases'[l].revoked /\ extension'[l] <= leases'[l].expires
    <2>1. CASE r # l
      <3>1. leases'[l] = leases[l] /\ extension'[l] = extension[l]
        BY <1>0, <1>3, <2>1 DEF LeaseMoves, RevokeLease, CheckExtendable, ExtendLease, ExtensionFails
      <3> QED  BY <1>0, <3>1
    <2>2. CASE r = l
      <3>1. CASE RevokeLease(l)
        BY <1>0, <3>1 DEF RevokeLease
      <3>2. CASE CheckExtendable(l)
        <4>1. extension'[l] = clock /\ leases' = leases /\ leases[l].stored /\ ~leases[l].revoked
              /\ ~(leases[l].expires < clock)
          BY <1>0, <3>2 DEF CheckExtendable
        <4>2. leases[l].expires \in Nat
          BY <1>0 DEF Lease
        <4> QED  BY <1>0, <4>1, <4>2
      <3>3. CASE ExtendLease(l) \/ ExtensionFails(l)
        BY <1>0, <3>3 DEF ExtendLease, ExtensionFails
      <3> QED  BY <1>3, <2>2, <3>1, <3>2, <3>3 DEF LeaseMoves
    <2> QED  BY <2>1, <2>2
  <1>4. CASE UNCHANGED vars
    BY <1>1, <1>4 DEF vars, leaseVars
  <1>5. ASSUME NEW v \in Verifiers, VerifyRead(v) \/ VerifyAnswer(v) PROVE UNCHANGED <<leases, extension>>
    BY <1>5 DEF VerifyRead, VerifyAnswer, leaseVars
  <1>6. Quiet \/ Tick => UNCHANGED <<leases, extension>>
    BY DEF Quiet, Tick, leaseVars
  <1> QED  BY <1>1, <1>2, <1>3, <1>4, <1>5, <1>6, QuietSteps

LEMMA LeaseCorrect == Spec => []LeaseInv
  <1>1. Init => LeaseInv
    BY InitLease
  <1>2. LeaseInv /\ [Next]_vars => LeaseInv'
    BY NextType, NextInserted, NextReadDead, NextExtension DEF LeaseInv
  <1> QED  BY <1>1, <1>2, PTL DEF Spec

\* DeadLeaseNotAccepted: POST verify answers no lease valid that was revoked or past its end
\* when it read the row, however many verifications and operators run.
THEOREM DeadLeaseIsRefused == Spec => []DeadLeaseNotAccepted
  <1>1. LeaseInv => DeadLeaseNotAccepted
    BY DEF LeaseInv, ReadDead, DeadLeaseNotAccepted
  <1> QED  BY <1>1, LeaseCorrect, PTL

\* DeadLeasesStayDead: no operator action, insertion or lapse of time brings a revoked lease back, and
\* an expired one only the UPDATE of an extension that had found it alive (leaseService.ts:219-235).
THEOREM DeadLeaseIsFinal == Spec => DeadLeasesStayDead
  <1> DEFINE Stays == \A l \in Requests : Dead(l) =>
                \/ Dead(l)'
                \/ ~leases[l].revoked /\ extension[l] # None /\ extension[l] <= leases[l].expires
  <1>1. ASSUME LeaseInv, [Next]_vars
        PROVE  Stays
    <2> SUFFICES ASSUME NEW l \in Requests, Dead(l)
                 PROVE  \/ Dead(l)'
                        \/ /\ ~leases[l].revoked /\ extension[l] # None
                           /\ extension[l] <= leases[l].expires
      OBVIOUS
    <2>0. /\ leases \in [Requests -> Lease] /\ clock \in Nat
          /\ leases[l].stored
          /\ leases[l].revoked \/ leases[l].expires < clock
      BY <1>1 DEF LeaseInv, TypeInv, LeasesOK, Dead
    <2>1. CASE UNCHANGED vars \/ Quiet
      BY <2>1 DEF vars, leaseVars, Quiet, Dead
    <2>2. CASE Tick
      BY <2>0, <2>2 DEF Tick, leaseVars, Dead, Lease
    <2>3. ASSUME NEW v \in Verifiers, VerifyRead(v) \/ VerifyAnswer(v)
          PROVE  Dead(l)'
      BY <2>3 DEF VerifyRead, VerifyAnswer, leaseVars, Dead
    <2>4. ASSUME NEW r \in Requests, InsertLease(r)
          PROVE  Dead(l)'
      <3>1. r # l
        BY <1>1, <2>0, <2>4 DEF LeaseInv, InsertedOnce, InsertLease, Ended
      <3>2. leases'[l] = leases[l] /\ clock' = clock
        BY <2>0, <2>4, <3>1 DEF InsertLease
      <3> QED  BY <3>2 DEF Dead
    <2>5. ASSUME NEW r \in Requests, RevokeLease(r)
          PROVE  Dead(l)'
      BY <2>0, <2>5 DEF RevokeLease, Dead, Lease
    <2>6. ASSUME NEW r \in Requests, CheckExtendable(r) \/ ExtensionFails(r)
          PROVE  Dead(l)'
      BY <2>6 DEF CheckExtendable, ExtensionFails, Dead
    <2>7. ASSUME NEW r \in Requests, ExtendLease(r), r # l
          PROVE  Dead(l)'
      <3>1. leases'[l] = leases[l] /\ clock' = clock
        BY <2>0, <2>7 DEF ExtendLease
      <3> QED  BY <3>1 DEF Dead
    <2>8. ASSUME ExtendLease(l)
          PROVE  ~leases[l].revoked /\ extension[l] # None /\ extension[l] <= leases[l].expires
      BY <1>1, <2>8 DEF ExtendLease, LeaseInv, ExtensionHolds
    <2> QED  BY <1>1, <2>1, <2>2, <2>3, <2>4, <2>5, <2>6, <2>7, <2>8, QuietSteps DEF LeaseMoves
  <1> HIDE DEF Stays
  <1>2. Spec => [][Stays]_vars
    BY <1>1, LeaseCorrect, PTL DEF Spec
  <1> QED  BY <1>2 DEF DeadLeasesStayDead, Stays

-----------------------------------------------------------------------------
(* What was decided before a request came.                                 *)

\* A refusal in `since` has been in force since the request came; and what a request has
\* read so far is not against any of them.
SinceInForce == \A r \in Requests : pc[r] \in Running => since[r] \subseteq InForce

LicenceWasFree ==
    \A r \in Requests : pc[r] \in {"gates", "insert"} => <<"licence", Pair>> \notin since[r]

NothingReadYet ==
    \A r \in Requests : pc[r] \in {"idle", "pexpire", "license"} =>
        arg[r].kill = None /\ arg[r].override = None

ReadIsFree ==
    \A r \in Requests : pc[r] = "gates" =>
        \A g \in Gates :
            /\ arg[r].kill # None /\ ~arg[r].kill[g] => <<"kill", g>> \notin since[r]
            /\ arg[r].override # None /\ arg[r].override[g] # FALSE
                    => <<"override", g>> \notin since[r]

MadeUpIsFree ==
    \A r \in Requests : pc[r] = "insert" =>
        /\ <<"sunset", VersionOf[r]>> \notin since[r]
        /\ \A g \in arg[r].on :
            <<"kill", g>> \notin since[r] /\ <<"override", g>> \notin since[r]

DecisionInv ==
    /\ TypeInv /\ SinceInForce /\ LicenceWasFree
    /\ NothingReadYet /\ ReadIsFree /\ MadeUpIsFree

\* What is in force, one kind at a time.
LEMMA InForceMeans ==
    /\ <<"licence", Pair>> \in InForce <=> Blocked(status[Pair])
    /\ \A v \in Versions : <<"sunset", v>> \in InForce <=> version[v] = "sunset"
    /\ \A g \in Gates : <<"kill", g>> \in InForce <=> kill[g]
    /\ \A g \in Gates : <<"override", g>> \in InForce <=> override[g] = FALSE
  BY DEF InForce, Refusals

LEMMA InitDecision == Init => DecisionInv
  BY InitType DEF Init, DecisionInv, SinceInForce, LicenceWasFree, NothingReadYet, ReadIsFree,
                  MadeUpIsFree, NothingRead, Running

\* A step that changes no request keeps what requests have read, if it watches.
LEMMA WatchedStep ==
    ASSUME DecisionInv, TypeInv', UNCHANGED requestVars,
           Watch \/ UNCHANGED <<since, InForce>>
    PROVE  DecisionInv'
  <1>1. \A r \in Requests : since'[r] \subseteq since[r]
    BY DEF DecisionInv, TypeInv, RequestsOK, Watch
  <1>2. \A r \in Requests : pc[r] \in Running => since'[r] \subseteq InForce'
    BY DEF DecisionInv, TypeInv, RequestsOK, SinceInForce, Watch, InForce
  <1> QED  BY <1>1, <1>2 DEF DecisionInv, SinceInForce, LicenceWasFree, NothingReadYet,
                             ReadIsFree, MadeUpIsFree, requestVars

\* A step of one request, in which it goes on with fewer refusals.
LEMMA OneRequest ==
    ASSUME DecisionInv, TypeInv', NEW r \in Requests, UNCHANGED InForce,
           \A q \in Requests \ {r} :
               pc'[q] = pc[q] /\ arg'[q] = arg[q] /\ since'[q] = since[q],
           pc'[r] \in Running => since'[r] \subseteq InForce,
           pc'[r] \in {"gates", "insert"} => <<"licence", Pair>> \notin since'[r],
           pc'[r] \in {"idle", "pexpire", "license"} =>
             arg'[r].kill = None /\ arg'[r].override = None,
           pc'[r] = "gates" =>
             \A g \in Gates :
               /\ arg'[r].kill # None /\ ~arg'[r].kill[g] => <<"kill", g>> \notin since'[r]
               /\ arg'[r].override # None /\ arg'[r].override[g] # FALSE
                     => <<"override", g>> \notin since'[r],
           pc'[r] = "insert" =>
             /\ <<"sunset", VersionOf[r]>> \notin since'[r]
             /\ \A g \in arg'[r].on :
                  <<"kill", g>> \notin since'[r] /\ <<"override", g>> \notin since'[r]
    PROVE  DecisionInv'
  BY DEF DecisionInv, SinceInForce, LicenceWasFree, NothingReadYet, ReadIsFree, MadeUpIsFree

LEMMA IncrDecision ==
    ASSUME DecisionInv, TypeInv', NEW r \in Requests, Incr(r) \/ Pexpire(r)
    PROVE  DecisionInv'
  <1>1. UNCHANGED InForce
    BY DEF Incr, Pexpire, InForce, licenceVars, operatorVars, leaseVars
  <1>2. \A q \in Requests \ {r} :
            pc'[q] = pc[q] /\ arg'[q] = arg[q] /\ since'[q] = since[q]
    BY DEF DecisionInv, TypeInv, RequestsOK, Incr, Pexpire
  <1>3. pc'[r] \in {"pexpire", "license", "refused"} /\ since'[r] \subseteq InForce
    BY DEF DecisionInv, TypeInv, RequestsOK, SinceInForce, Running, Incr, Pexpire
  <1>4. arg'[r].kill = None /\ arg'[r].override = None
    BY DEF DecisionInv, NothingReadYet, Incr, Pexpire
  <1> QED  BY <1>1, <1>2, <1>3, <1>4, OneRequest

LEMMA LicenseDecision ==
    ASSUME DecisionInv, TypeInv', NEW r \in Requests, ReadLicense(r)
    PROVE  DecisionInv'
  <1>1. UNCHANGED InForce
    BY DEF ReadLicense, InForce, licenceVars, operatorVars, leaseVars
  <1>2. \A q \in Requests \ {r} :
            pc'[q] = pc[q] /\ arg'[q] = arg[q] /\ since'[q] = since[q]
    BY DEF DecisionInv, TypeInv, RequestsOK, ReadLicense
  <1>3. pc'[r] \in {"gates", "refused"} /\ since'[r] \subseteq InForce
    BY DEF DecisionInv, TypeInv, RequestsOK, SinceInForce, Running, ReadLicense
  <1>4. pc'[r] = "gates" => <<"licence", Pair>> \notin since'[r]
    <2>1. pc'[r] = "gates" => ~Blocked(status[Pair])
      BY DEF DecisionInv, TypeInv, RequestsOK, ReadLicense
    <2> QED  BY <1>3, <2>1, InForceMeans
  <1>5. arg'[r].kill = None /\ arg'[r].override = None
    BY DEF DecisionInv, NothingReadYet, ReadLicense
  <1> QED  BY <1>1, <1>2, <1>3, <1>4, <1>5, OneRequest

LEMMA GatesDecision ==
    ASSUME DecisionInv, TypeInv', NEW r \in Requests, ReadGates(r)
    PROVE  DecisionInv'
  <1>1. UNCHANGED InForce
    BY DEF ReadGates, InForce, licenceVars, operatorVars, leaseVars
  <1>2. /\ \A q \in Requests \ {r} :
              pc'[q] = pc[q] /\ arg'[q] = arg[q] /\ since'[q] = since[q]
        /\ pc[r] = "gates" /\ pc'[r] = "gates" /\ since'[r] = since[r]
    BY DEF DecisionInv, TypeInv, RequestsOK, ReadGates
  <1>3. since'[r] \subseteq InForce /\ <<"licence", Pair>> \notin since'[r]
    BY <1>2 DEF DecisionInv, SinceInForce, LicenceWasFree, Running
  <1>4. arg[r] \in Read
    BY DEF DecisionInv, TypeInv, RequestsOK
  <1>5. /\ arg'[r].kill \in {arg[r].kill, kill}
        /\ arg'[r].override \in {arg[r].override, override}
    BY <1>4 DEF DecisionInv, TypeInv, RequestsOK, ReadGates, Read
  <1>6. ASSUME NEW g \in Gates
        PROVE  /\ arg'[r].kill # None /\ ~arg'[r].kill[g] => <<"kill", g>> \notin since'[r]
               /\ arg'[r].override # None /\ arg'[r].override[g] # FALSE
                     => <<"override", g>> \notin since'[r]
    <2>1. ~kill[g] => <<"kill", g>> \notin since'[r]
      BY <1>3, InForceMeans
    <2>2. override[g] # FALSE => <<"override", g>> \notin since'[r]
      BY <1>3, InForceMeans
    <2> QED  BY <1>2, <1>5, <2>1, <2>2 DEF DecisionInv, ReadIsFree
  <1> QED  BY <1>1, <1>2, <1>3, <1>6, OneRequest

LEMMA VersionDecision ==
    ASSUME DecisionInv, TypeInv', NEW r \in Requests, CheckVersion(r)
    PROVE  DecisionInv'
  <1>1. UNCHANGED InForce
    BY DEF CheckVersion, InForce, licenceVars, operatorVars, leaseVars
  <1>2. \A q \in Requests \ {r} :
            pc'[q] = pc[q] /\ arg'[q] = arg[q] /\ since'[q] = since[q]
    BY DEF DecisionInv, TypeInv, RequestsOK, CheckVersion
  <1>3. CASE version[VersionOf[r]] \in {"sunset", "unknown"}
    <2>1. pc'[r] = "refused" /\ since'[r] = {}
      BY <1>3 DEF DecisionInv, TypeInv, RequestsOK, CheckVersion
    <2> QED  BY <1>1, <1>2, <2>1, OneRequest DEF Running
  <1>4. CASE version[VersionOf[r]] \notin {"sunset", "unknown"}
    <2> DEFINE on == Snapshot(arg[r].kill, arg[r].override, arg[r].status)
    <2>1. /\ pc[r] = "gates" /\ pc'[r] = "insert" /\ since'[r] = since[r]
          /\ arg[r].kill # None /\ arg[r].override # None
      BY <1>4 DEF DecisionInv, TypeInv, RequestsOK, CheckVersion
    <2>2. arg'[r] = [NothingRead EXCEPT !.on = on, !.expires = clock + Term]
      BY <1>4, Zenon DEF DecisionInv, TypeInv, RequestsOK, CheckVersion
    <2>3. arg'[r].on = on
      BY <2>2, Zenon DEF NothingRead
    <2>4. since'[r] \subseteq InForce /\ <<"licence", Pair>> \notin since'[r]
      BY <2>1 DEF DecisionInv, SinceInForce, LicenceWasFree, Running
    <2>5. <<"sunset", VersionOf[r]>> \notin since'[r]
      BY <1>4, <2>4, VersionAssumption, InForceMeans
    <2>6. ASSUME NEW g \in on
          PROVE  <<"kill", g>> \notin since'[r] /\ <<"override", g>> \notin since'[r]
      <3>1. g \in Gates /\ ~arg[r].kill[g] /\ arg[r].override[g] # FALSE
        BY <2>6, NoneAssumption DEF Snapshot
      <3> QED  BY <2>1, <3>1 DEF DecisionInv, ReadIsFree
    <2> QED  BY <1>1, <1>2, <2>1, <2>3, <2>4, <2>5, <2>6, OneRequest
  <1> QED  BY <1>3, <1>4

LEMMA EndDecision ==
    ASSUME DecisionInv, TypeInv', NEW r \in Requests,
           InsertLease(r) \/ RecordVersion(r) \/ RequestFails(r)
    PROVE  DecisionInv'
  <1>1. UNCHANGED InForce
    BY DEF InsertLease, RecordVersion, RequestFails, InForce, licenceVars, operatorVars, leaseVars
  <1>2. \A q \in Requests \ {r} :
            pc'[q] = pc[q] /\ arg'[q] = arg[q] /\ since'[q] = since[q]
    BY DEF DecisionInv, TypeInv, RequestsOK, InsertLease, RecordVersion, RequestFails
  <1>3. pc'[r] \in Ended
    BY DEF DecisionInv, TypeInv, RequestsOK, InsertLease, RecordVersion, RequestFails, Ended
  <1> QED  BY <1>1, <1>2, <1>3, OneRequest DEF Ended, Running

LEMMA OthersDecision ==
    ASSUME DecisionInv, TypeInv',
           \/ UNCHANGED vars \/ WindowEnds \/ Tick \/ LicenceMoves
           \/ \E r \in Requests : LeaseMoves(r)
           \/ \E v \in Verifiers : VerifyRead(v) \/ VerifyAnswer(v)
           \/ \E g \in Gates, on \in BOOLEAN :
                 SetKillSwitch(g, on) \/ SetTenantFeatureOverride(g, on)
           \/ \E v \in Versions, s \in {"supported", "sunset"} : SetVersionStatus(v, s)
    PROVE  DecisionInv'
  <1>1. UNCHANGED requestVars
    BY DEF vars, WindowEnds, Tick, LicenceMoves, LeaseMoves, RevokeLease, CheckExtendable, ExtendLease, ExtensionFails, VerifyRead,
           VerifyAnswer, SetKillSwitch, SetTenantFeatureOverride, SetVersionStatus
  <1>2. Watch \/ UNCHANGED <<since, licenceVars, operatorVars>>
    BY DEF vars, WindowEnds, Tick, LicenceMoves, LeaseMoves, RevokeLease, CheckExtendable, ExtendLease, ExtensionFails, VerifyRead,
           VerifyAnswer, SetKillSwitch, SetTenantFeatureOverride, SetVersionStatus
  <1>3. Watch \/ UNCHANGED <<since, InForce>>
    BY <1>2 DEF InForce, licenceVars, operatorVars, leaseVars
  <1> QED  BY <1>1, <1>3, WatchedStep

LEMMA NextDecision == DecisionInv /\ [Next]_vars => DecisionInv'
  <1> SUFFICES ASSUME DecisionInv, [Next]_vars PROVE DecisionInv'
    OBVIOUS
  <1>1. TypeInv'
    BY NextType DEF DecisionInv
  <1> QED  BY <1>1, IncrDecision, LicenseDecision, GatesDecision, VersionDecision, EndDecision,
              OthersDecision DEF Next

\* LeaseHonoursEarlierDecisions: whatever changes between the reads of issueLease, no lease is
\* stored against a suspension, a sunset version, a kill switch or a tenant's override that has
\* been in force since before the request came, for any number of requests and gates.
THEOREM LeaseIsHonest == Spec => LeaseHonoursEarlierDecisions
  <1> DEFINE Honest == \A l \in Requests : ~leases[l].stored /\ leases'[l].stored =>
                /\ <<"licence", Pair>> \notin since[l]
                /\ <<"sunset", VersionOf[l]>> \notin since[l]
                /\ \A g \in leases'[l].on :
                    <<"kill", g>> \notin since[l] /\ <<"override", g>> \notin since[l]
  <1>1. ASSUME DecisionInv, [Next]_vars
        PROVE  Honest
    <2> SUFFICES ASSUME NEW l \in Requests, ~leases[l].stored, leases'[l].stored
                 PROVE  /\ <<"licence", Pair>> \notin since[l]
                        /\ <<"sunset", VersionOf[l]>> \notin since[l]
                        /\ \A g \in leases'[l].on : /\ <<"kill", g>> \notin since[l]
                                                    /\ <<"override", g>> \notin since[l]
      OBVIOUS
    <2>1. ~Quiet /\ ~UNCHANGED vars
      BY DEF Quiet, vars, leaseVars
    <2>2. PICK r \in Requests : InsertLease(r) \/ LeaseMoves(r)
      BY <1>1, <2>1, QuietSteps DEF VerifyRead, VerifyAnswer, Tick, leaseVars
    <2>3. CASE InsertLease(r)
      <3>1. r = l /\ pc[l] = "insert" /\ leases'[l].on = arg[l].on
        BY <1>1, <2>3 DEF InsertLease, DecisionInv, TypeInv, LeasesOK
      <3> QED  BY <1>1, <3>1 DEF DecisionInv, LicenceWasFree, MadeUpIsFree
    <2>4. CASE LeaseMoves(r)
      BY <1>1, <2>4 DEF LeaseMoves, RevokeLease, CheckExtendable, ExtendLease, ExtensionFails, DecisionInv, TypeInv, LeasesOK, Lease
    <2> QED  BY <2>2, <2>3, <2>4
  <1> HIDE DEF Honest
  <1>2. Spec => [][Honest]_vars
    BY <1>1, InitDecision, NextDecision, PTL DEF Spec
  <1> QED  BY <1>2 DEF LeaseHonoursEarlierDecisions, Honest
=============================================================================
