------------------------------ MODULE Entitlement ------------------------------
(***************************************************************************)
(* What a tenant may use of a product: feature gates with kill switches    *)
(* and per-tenant overrides, and the signed leases that carry their values *)
(* (featureGate.ts, leaseService.ts, routes/leases.ts).  POST issue is a   *)
(* chain of separate reads and one INSERT; operators, the licence and the  *)
(* SDK version change between any two of them.                             *)
(*                                                                         *)
(* The licence is the abstract one, LicenseLifecycle, which License.tla is *)
(* proved to implement.                                                    *)
(***************************************************************************)
EXTENDS Naturals, FiniteSets

CONSTANTS
    Pair,               \* the tenant and product all requests are about
    Gates,              \* feature_gates of the product
    DefaultOn,          \* the gates with default_enabled
    Versions,           \* product_versions of the product
    Requests,           \* POST /leases/issue; a lease bears its request's name
    VersionOf,          \* the SDK version a request names
    Verifiers,          \* POST /leases/verify
    RateMax,            \* LEASE_RATE_LIMIT_MAX
    Term,               \* thirty days
    MaxTime,            \* bound: the clock stops here
    MaxChanges,         \* bound: what operators and the licence change
    None

ASSUME GatesAssumption == DefaultOn \subseteq Gates /\ None \notin Gates
ASSUME NoneAssumption == None \notin BOOLEAN /\ None \notin Requests /\ None \notin Nat
ASSUME VersionAssumption == VersionOf \in [Requests -> Versions]
ASSUME TermAssumption == Term \in Nat \ {0} /\ RateMax \in Nat \ {0}

VARIABLES
    status, approved,   \* the licence, see LicenseLifecycle
    kill,               \* kill_switch_active
    override,           \* tenant_feature_overrides
    version,            \* status of each SDK version; deprecated counts as supported
    reports,            \* sdk_version_reports of the pair
    leases,             \* the leases table
    extension,          \* each lease: the clock that the extension which holds its row has read
    pc, arg,            \* each issue request: its next step and what it has read
    verify,             \* each verification: what it has read and what it answers
    count, ttl,         \* the limiter's counter in Redis, and whether it expires
    clock,              \* Date.now(), in units of which a lease lasts Term
    changes,
    since,              \* history: refusals in force since the request began
    orphaned            \* history: a process died between INCR and PEXPIRE

Lifecycle == INSTANCE LicenseLifecycle WITH Pairs <- {Pair}

licenceVars == <<status, approved>>
operatorVars == <<kill, override, version>>
requestVars == <<pc, arg, reports>>
limiterVars == <<count, ttl, orphaned>>
leaseVars == <<leases, extension>>
vars == <<licenceVars, operatorVars, requestVars, limiterVars, leaseVars, verify, clock,
          changes, since>>

Running == {"pexpire", "license", "gates", "insert"}
Ended == {"record", "done", "refused"}

NothingRead == [kill |-> None, override |-> None, status |-> None,
                on |-> {}, expires |-> 0]
NoLease == [stored |-> FALSE, on |-> {}, expires |-> 0, revoked |-> FALSE]
NoVerify == [lease |-> None, stored |-> FALSE, revoked |-> FALSE, expires |-> 0,
             dead |-> FALSE, answer |-> "none"]

\* The tables hold whatever was decided before the first request.
Init ==
    /\ status \in [{Pair} -> Lifecycle!Statuses \cup {"none"}] /\ approved = {}
    /\ kill \in [Gates -> BOOLEAN]
    /\ override \in [Gates -> BOOLEAN \cup {None}]
    /\ version \in [Versions -> {"supported", "unknown"}]
    /\ reports = None
    /\ leases = [r \in Requests |-> NoLease]
    /\ extension = [r \in Requests |-> None]
    /\ pc = [r \in Requests |-> "idle"]
    /\ arg = [r \in Requests |-> NothingRead]
    /\ verify = [v \in Verifiers |-> NoVerify]
    /\ count = 0 /\ ttl = FALSE
    /\ clock = 0 /\ changes = 0
    /\ since = [r \in Requests |-> {}]
    /\ orphaned = FALSE

-----------------------------------------------------------------------------
(* The resolution chain: kill switch, licence, override, default.          *)

Blocked(s) == s \in {"suspended", "cancelled"}

\* evaluateGate, if nothing changes between its three queries.
EvaluateGate(g) ==
    IF kill[g] THEN FALSE
    ELSE IF Blocked(status[Pair]) THEN FALSE
    ELSE IF override[g] # None THEN override[g]
    ELSE g \in DefaultOn

\* Mutant: a tenant's override is looked at before the kill switch.
SnapshotOverrideFirst(killed, overrides, licence) ==
    {g \in Gates : /\ ~Blocked(licence)
                   /\ IF overrides[g] # None THEN overrides[g]
                      ELSE ~killed[g] /\ g \in DefaultOn}

\* getAllGateSnapshot, from the results of its three parallel queries.
Snapshot(killed, overrides, licence) ==
    {g \in Gates : /\ ~killed[g]
                   /\ ~Blocked(licence)
                   /\ IF overrides[g] # None THEN overrides[g] ELSE g \in DefaultOn}

\* What stands against a lease, or against a gate in it, at this moment.
Refusals(s, k, o, ver) ==
    {<<"licence", x>> : x \in {y \in {Pair} : Blocked(s[y])}}
        \cup {<<"sunset", v>> : v \in {w \in Versions : ver[w] = "sunset"}}
        \cup {<<"kill", g>> : g \in {h \in Gates : k[h]}}
        \cup {<<"override", g>> : g \in {h \in Gates : o[h] = FALSE}}

InForce == Refusals(status, kill, override, version)

\* A refusal that is lifted while a request runs no longer counts for it.
Watch == since' = [r \in Requests |->
            IF pc[r] \in Running
            THEN since[r] \cap Refusals(status', kill', override', version')
            ELSE since[r]]

-----------------------------------------------------------------------------
(* POST /api/v1/leases/issue.                                              *)

\* Mutant: the window is never armed.
IncrWithoutPexpire(r) ==
    /\ pc[r] = "idle"
    /\ count' = count + 1
    /\ pc' = [pc EXCEPT ![r] = IF count' > RateMax THEN "refused" ELSE "license"]
    /\ since' = [since EXCEPT ![r] = IF pc'[r] = "refused" THEN {} ELSE InForce]
    /\ UNCHANGED <<licenceVars, operatorVars, arg, reports, ttl, orphaned, leaseVars, verify,
                   clock, changes>>

\* INCR; the first call of a window goes on to PEXPIRE, one too many gets 429.
Incr(r) ==
    /\ pc[r] = "idle"
    /\ count' = count + 1
    /\ pc' = [pc EXCEPT ![r] = IF count' = 1 THEN "pexpire"
                               ELSE IF count' > RateMax THEN "refused" ELSE "license"]
    /\ since' = [since EXCEPT ![r] = IF pc'[r] = "refused" THEN {} ELSE InForce]
    /\ UNCHANGED <<licenceVars, operatorVars, arg, reports, ttl, orphaned, leaseVars, verify,
                   clock, changes>>

Pexpire(r) ==
    /\ pc[r] = "pexpire"
    /\ ttl' = TRUE
    /\ pc' = [pc EXCEPT ![r] = "license"]
    /\ UNCHANGED <<licenceVars, operatorVars, arg, reports, count, orphaned, leaseVars, verify,
                   clock, changes, since>>

\* Mutant: only a missing licence is refused here, and the snapshot is left to say the rest.
ReadLicenseExists(r) ==
    /\ pc[r] = "license"
    /\ pc' = [pc EXCEPT ![r] = IF status[Pair] = "none" THEN "refused" ELSE "gates"]
    /\ UNCHANGED <<licenceVars, operatorVars, arg, reports, limiterVars, leaseVars, verify, clock,
                   changes, since>>

\* Step 1: no licence is 404, a suspended or cancelled one 403; a pending one passes.
ReadLicense(r) ==
    /\ pc[r] = "license"
    /\ pc' = [pc EXCEPT ![r] = IF status[Pair] = "none" \/ Blocked(status[Pair])
                               THEN "refused" ELSE "gates"]
    /\ since' = [since EXCEPT ![r] = IF pc'[r] = "refused" THEN {} ELSE @]
    /\ UNCHANGED <<licenceVars, operatorVars, arg, reports, limiterVars, leaseVars, verify, clock,
                   changes>>

\* Step 2: Promise.all of three queries, answered in any order.
ReadGates(r) ==
    /\ pc[r] = "gates"
    /\ \/ arg[r].kill = None /\ arg' = [arg EXCEPT ![r].kill = kill]
       \/ arg[r].override = None /\ arg' = [arg EXCEPT ![r].override = override]
       \/ arg[r].status = None /\ arg' = [arg EXCEPT ![r].status = status[Pair]]
    /\ UNCHANGED <<licenceVars, operatorVars, pc, reports, limiterVars, leaseVars, verify, clock,
                   changes, since>>

\* Step 3, and the lease is made up: its term counts from now.
CheckVersion(r) ==
    /\ pc[r] = "gates"
    /\ None \notin {arg[r].kill, arg[r].override, arg[r].status}
    /\ IF version[VersionOf[r]] \in {"sunset", "unknown"}
       THEN /\ pc' = [pc EXCEPT ![r] = "refused"]
            /\ arg' = [arg EXCEPT ![r] = NothingRead]
            /\ since' = [since EXCEPT ![r] = {}]
       ELSE /\ pc' = [pc EXCEPT ![r] = "insert"]
            /\ arg' = [arg EXCEPT ![r] =
                    [NothingRead EXCEPT
                        !.on = Snapshot(arg[r].kill, arg[r].override, arg[r].status),
                        !.expires = clock + Term]]
            /\ UNCHANGED since
    /\ UNCHANGED <<licenceVars, operatorVars, reports, limiterVars, leaseVars, verify, clock,
                   changes>>

\* Mutant: a lease without an end.
InsertEndlessLease(r) ==
    /\ pc[r] = "insert"
    /\ leases' = [leases EXCEPT ![r] = [stored |-> TRUE, on |-> arg[r].on,
                                        expires |-> None, revoked |-> FALSE]]
    /\ pc' = [pc EXCEPT ![r] = "record"]
    /\ UNCHANGED <<licenceVars, operatorVars, arg, reports, limiterVars, extension, verify, clock,
                   changes, since>>

\* Step 6, one transaction.
InsertLease(r) ==
    /\ pc[r] = "insert"
    /\ leases' = [leases EXCEPT ![r] = [stored |-> TRUE, on |-> arg[r].on,
                                        expires |-> arg[r].expires, revoked |-> FALSE]]
    /\ pc' = [pc EXCEPT ![r] = "record"]
    /\ arg' = [arg EXCEPT ![r] = NothingRead]
    /\ since' = [since EXCEPT ![r] = {}]
    /\ UNCHANGED <<licenceVars, operatorVars, reports, limiterVars, extension, verify, clock,
                   changes>>

\* recordSdkVersion, whose failure is only logged.
RecordVersion(r) ==
    /\ pc[r] = "record"
    /\ reports' \in {reports}
            \cup {v \in {VersionOf[r]} : version[v] \notin {"sunset", "unknown"}}
    /\ pc' = [pc EXCEPT ![r] = "done"]
    /\ UNCHANGED <<licenceVars, operatorVars, arg, limiterVars, leaseVars, verify, clock,
                   changes, since>>

\* A query throws (500), or the process dies; only the latter can orphan the counter.
RequestFails(r) ==
    /\ pc[r] \in Running
    /\ pc' = [pc EXCEPT ![r] = "refused"]
    /\ since' = [since EXCEPT ![r] = {}]
    /\ arg' = [arg EXCEPT ![r] = NothingRead]
    /\ orphaned' = (orphaned \/ pc[r] = "pexpire")
    /\ UNCHANGED <<licenceVars, operatorVars, reports, count, ttl, leaseVars, verify, clock,
                   changes>>

\* Redis drops the key at the end of the window.
WindowEnds ==
    /\ ttl
    /\ count' = 0 /\ ttl' = FALSE
    /\ UNCHANGED <<licenceVars, operatorVars, requestVars, orphaned, leaseVars, verify, clock,
                   changes, since>>

-----------------------------------------------------------------------------
(* POST /api/v1/leases/verify: the row, then the clock.                    *)

\* Revoked, or past its end.
Dead(l) == leases[l].stored /\ (leases[l].revoked \/ leases[l].expires < clock)

VerifyRead(v) ==
    /\ verify[v].answer = "none" /\ verify[v].lease = None
    /\ \E l \in Requests :
        verify' = [verify EXCEPT ![v] =
            [lease |-> l, stored |-> leases[l].stored, revoked |-> leases[l].revoked,
             expires |-> leases[l].expires, dead |-> Dead(l), answer |-> "none"]]
    /\ UNCHANGED <<licenceVars, operatorVars, requestVars, limiterVars, leaseVars, clock,
                   changes, since>>

\* A row that is not there answers as a bad signature does.
VerifyAnswer(v) ==
    /\ verify[v].lease # None /\ verify[v].answer = "none"
    /\ verify' = [verify EXCEPT ![v] = [NoVerify EXCEPT !.dead = verify[v].dead, !.answer =
            IF ~verify[v].stored THEN "invalid"
            ELSE IF verify[v].revoked THEN "revoked"
            ELSE IF verify[v].expires < clock THEN "expired" ELSE "valid"]]
    /\ UNCHANGED <<licenceVars, operatorVars, requestVars, limiterVars, leaseVars, clock,
                   changes, since>>

-----------------------------------------------------------------------------
(* Operators, the licence, time.                                           *)

Change == changes < MaxChanges /\ changes' = changes + 1

SetKillSwitch(g, on) ==
    /\ Change
    /\ kill' = [kill EXCEPT ![g] = on]
    /\ UNCHANGED <<licenceVars, override, version, requestVars, limiterVars, leaseVars, verify,
                   clock>>
    /\ Watch

SetTenantFeatureOverride(g, on) ==
    /\ Change
    /\ override' = [override EXCEPT ![g] = on]
    /\ UNCHANGED <<licenceVars, kill, version, requestVars, limiterVars, leaseVars, verify,
                   clock>>
    /\ Watch

\* product_versions is maintained by hand: no code of src/ writes it.
SetVersionStatus(v, s) ==
    /\ Change
    /\ version' = [version EXCEPT ![v] = s]
    /\ UNCHANGED <<licenceVars, kill, override, requestVars, limiterVars, leaseVars, verify,
                   clock>>
    /\ Watch

LicenceMoves ==
    /\ Change
    /\ Lifecycle!Next
    /\ UNCHANGED <<operatorVars, requestVars, limiterVars, leaseVars, verify, clock>>
    /\ Watch

\* Unconditional: a second revocation only renews the time and the reason.  It waits for the lock
\* of an extension.
RevokeLease(l) ==
    /\ Change
    /\ leases[l].stored /\ extension[l] = None
    /\ leases' = [leases EXCEPT ![l].revoked = TRUE]
    /\ UNCHANGED <<licenceVars, operatorVars, requestVars, limiterVars, extension, verify, clock,
                   since>>

\* Mutant: a lease that ran out can be extended.
CheckRevokedOnly(l) ==
    /\ Change
    /\ leases[l].stored /\ extension[l] = None
    /\ ~leases[l].revoked
    /\ extension' = [extension EXCEPT ![l] = clock]
    /\ UNCHANGED <<licenceVars, operatorVars, requestVars, limiterVars, leases, verify, clock, since>>

\* extendLease: SELECT ... FOR UPDATE and the checks, 409 for a revoked or an expired lease.
CheckExtendable(l) ==
    /\ Change
    /\ leases[l].stored /\ extension[l] = None
    /\ ~leases[l].revoked /\ ~(leases[l].expires < clock)
    /\ extension' = [extension EXCEPT ![l] = clock]
    /\ UNCHANGED <<licenceVars, operatorVars, requestVars, limiterVars, leases, verify, clock, since>>

\* Its UPDATE and COMMIT; the clock is not read again.  The signed payload is not made anew.
ExtendLease(l) ==
    /\ extension[l] # None
    /\ leases' = [leases EXCEPT ![l].expires = @ + 1]
    /\ extension' = [extension EXCEPT ![l] = None]
    /\ UNCHANGED <<licenceVars, operatorVars, requestVars, limiterVars, verify, clock, changes,
                   since>>

\* ROLLBACK, or the process dies.
ExtensionFails(l) ==
    /\ extension[l] # None
    /\ extension' = [extension EXCEPT ![l] = None]
    /\ UNCHANGED <<licenceVars, operatorVars, requestVars, limiterVars, leases, verify, clock,
                   changes, since>>

LeaseMoves(l) == RevokeLease(l) \/ CheckExtendable(l) \/ ExtendLease(l) \/ ExtensionFails(l)

\* Only terms are measured, so time may stand still until one begins.
Tick ==
    /\ clock < MaxTime
    /\ \E r \in Requests : pc[r] \in {"insert", "record", "done"}
    /\ clock' = clock + 1
    /\ UNCHANGED <<licenceVars, operatorVars, requestVars, limiterVars, leaseVars, verify,
                   changes, since>>

Next ==
    \/ \E r \in Requests :
        \/ Incr(r) \/ Pexpire(r) \/ ReadLicense(r) \/ ReadGates(r) \/ CheckVersion(r)
        \/ InsertLease(r) \/ RecordVersion(r) \/ RequestFails(r)
        \/ LeaseMoves(r)
    \/ \E v \in Verifiers : VerifyRead(v) \/ VerifyAnswer(v)
    \/ \E g \in Gates, on \in BOOLEAN : SetKillSwitch(g, on) \/ SetTenantFeatureOverride(g, on)
    \/ \E v \in Versions, s \in {"supported", "sunset"} : SetVersionStatus(v, s)
    \/ LicenceMoves \/ WindowEnds \/ Tick

Spec == Init /\ [][Next]_vars

\* A live process sends the PEXPIRE it has reached, and Redis expires keys.
Fairness == /\ WF_vars(WindowEnds)
            /\ \A r \in Requests : WF_vars(Pexpire(r))

-----------------------------------------------------------------------------
\* Type invariant: every variable of the gates, the leases and their requests keeps its shape.
TypeOK ==
    /\ status \in [{Pair} -> Lifecycle!Statuses \cup {"none"}]
    /\ approved \subseteq {Pair} \X Lifecycle!Statuses
    /\ kill \in [Gates -> BOOLEAN]
    /\ override \in [Gates -> BOOLEAN \cup {None}]
    /\ version \in [Versions -> {"unknown", "supported", "sunset"}]
    /\ reports \in Versions \cup {None}
    /\ leases \in [Requests -> [stored : BOOLEAN, on : SUBSET Gates, expires : Nat,
                                revoked : BOOLEAN]]
    /\ extension \in [Requests -> Nat \cup {None}]
    /\ pc \in [Requests -> {"idle"} \cup Running \cup Ended]
    /\ arg \in [Requests -> [kill : [Gates -> BOOLEAN] \cup {None},
                             override : [Gates -> BOOLEAN \cup {None}] \cup {None},
                             status : Lifecycle!Statuses \cup {"none", None},
                             on : SUBSET Gates, expires : Nat]]
    /\ verify \in [Verifiers -> [lease : Requests \cup {None}, stored : BOOLEAN,
                                 revoked : BOOLEAN, expires : Nat, dead : BOOLEAN,
                                 answer : {"none", "invalid", "revoked", "expired", "valid"}]]
    /\ count \in Nat /\ ttl \in BOOLEAN /\ orphaned \in BOOLEAN
    /\ clock \in Nat /\ changes \in Nat
    /\ since \in [Requests -> SUBSET Refusals([p \in {Pair} |-> "suspended"],
                                              [g \in Gates |-> TRUE], [g \in Gates |-> FALSE],
                                              [v \in Versions |-> "sunset"])]

\* A lease is never stored against a suspension or a sunset version, nor with a gate on against
\* a kill switch or a tenant's override, that has been in force since before the request came:
\* what changes between issueLease's reads may be missed (leaseService.ts:59-70), what was
\* decided before may not.
LeaseHonoursEarlierDecisions ==
    [][\A l \in Requests : ~leases[l].stored /\ leases'[l].stored =>
        /\ <<"licence", Pair>> \notin since[l]
        /\ <<"sunset", VersionOf[l]>> \notin since[l]
        /\ \A g \in leases'[l].on :
            <<"kill", g>> \notin since[l] /\ <<"override", g>> \notin since[l]]_vars

\* The two chains agree on whether a gate is enabled: for a customer with a licence, whatever the
\* tables hold, the batch snapshot embedded in a lease (featureGate.ts:189-199) has a gate on exactly
\* if evaluateGate says so (featureGate.ts:39-58).  The reasons it gives are not compared.  Without a
\* licence the batch throws 404 (line 177), and so does evaluateGate unless the gate is killed (line 43).
ChainsAgree ==
    status[Pair] # "none" =>
        \A g \in Gates : EvaluateGate(g) <=> g \in Snapshot(kill, override, status[Pair])

\* A lease that was dead when POST verify read it is not answered valid, whatever happens between
\* the read and the answer (leaseService.ts:157-176).
DeadLeaseNotAccepted ==
    \A v \in Verifiers : verify[v].answer = "valid" => ~verify[v].dead

\* A revoked lease stays revoked, and an expired one expired, unless its end came while an extension
\* held the row that had still found it alive: the UPDATE does not look at the clock again, and
\* verifications in between have been answered "expired" (leaseService.ts:219-235).
DeadLeasesStayDead ==
    [][\A l \in Requests : Dead(l) =>
        \/ Dead(l)'
        \/ ~leases[l].revoked /\ extension[l] # None /\ extension[l] <= leases[l].expires]_vars

\* A client that was refused with 429 is admitted again once its window ends, unless a process
\* died between INCR and PEXPIRE (routes/leases.ts:61-62), which leaves the counter for good.
LimiterRecovers == count > RateMax ~> (count = 0 \/ orphaned)
================================================================================
