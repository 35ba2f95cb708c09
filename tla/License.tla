------------------------------- MODULE License -------------------------------
(***************************************************************************)
(* The licence state machine of src/src/services/license.ts.  Every FSM    *)
(* operation is one transaction that holds the licence row's lock (SELECT  *)
(* ... FOR UPDATE), so it is one action; the promotion cron reads its rows *)
(* first and then runs one transaction per row, so it is two actions and a *)
(* list of rows it still has to write.                                     *)
(***************************************************************************)
CONSTANTS
    Pairs,              \* (tenant, product) pairs
    Registered,         \* the pairs whose product registration is active
    Stages,             \* rows that staged_license_changes may come to hold
    Promoters,          \* concurrent runs of the promotion job
    GraceConfigured,    \* TODO_D_DEF_001_INTERVAL is not null
    None                \* SQL NULL, or a local variable not assigned yet

ASSUME RegisteredAssumption == Registered \subseteq Pairs /\ None \notin Pairs
ASSUME GraceAssumption == GraceConfigured \in BOOLEAN

VARIABLES
    lic,                \* the licences table, one row at most for a pair
    staged,             \* the staged_license_changes table
    todo                \* the rows each promotion run has read and not yet written

licenseVars == <<lic, staged, todo>>

Statuses == {"pending", "active", "suspended", "cancelled"}
Reasons == {"NULL", "FREEZE", "payment_failed"}

\* clock stands for suspended_at and grace_expires_at, always written together.
Licence == [status : Statuses \cup {"none"}, reason : Reasons, clock : BOOLEAN]
NoLicence == [status |-> "none", reason |-> "NULL", clock |-> FALSE]

NoChange == [state |-> "absent", pair |-> None, to |-> "none"]
StagedChange == [state : {"unpromoted", "promoted"}, pair : Pairs, to : Statuses]
                    \cup {NoChange}

LicenseInit ==
    /\ lic = [p \in Pairs |-> NoLicence]
    /\ staged = [s \in Stages |-> NoChange]
    /\ todo = [r \in Promoters |-> {}]

LicenseTypeOK ==
    /\ lic \in [Pairs -> Licence]
    /\ staged \in [Stages -> StagedChange]
    /\ todo \in [Promoters -> SUBSET Stages]

-----------------------------------------------------------------------------
(* The FSM operations.  A refused call (404, 409, 422) changes nothing.    *)

CreateLicense(p) ==
    /\ lic[p].status = "none"
    /\ lic' = [lic EXCEPT ![p].status = "pending"]
    /\ UNCHANGED <<staged, todo>>

ActivateLicense(p) ==
    /\ lic[p].status = "pending"
    /\ p \in Registered
    /\ lic' = [lic EXCEPT ![p].status = "active"]
    /\ UNCHANGED <<staged, todo>>

\* suspendLicense without its caller's handling of the refusals.
Suspend(p, reason) ==
    /\ GraceConfigured
    /\ lic[p].status = "active"
    /\ lic' = [lic EXCEPT ![p] = [status |-> "suspended", reason |-> reason,
                                  clock |-> TRUE]]
    /\ UNCHANGED <<staged, todo>>

FreezeLicense(p) == Suspend(p, "FREEZE")

UnfreezeProduct(p) ==
    /\ lic[p].status = "suspended"
    /\ lic' = [lic EXCEPT ![p] = [status |-> "active", reason |-> "NULL",
                                  clock |-> FALSE]]
    /\ UNCHANGED <<staged, todo>>

\* Mutant: the check of the status is dropped.
CancelAnyLicense(p) ==
    /\ lic[p].status # "none"
    /\ lic' = [lic EXCEPT ![p].status = "cancelled", ![p].reason = "NULL"]
    /\ UNCHANGED <<staged, todo>>

\* suspended_at and grace_expires_at stay as they were.
CancelLicense(p) ==
    /\ lic[p].status = "suspended"
    /\ lic' = [lic EXCEPT ![p].status = "cancelled", ![p].reason = "NULL"]
    /\ UNCHANGED <<staged, todo>>

-----------------------------------------------------------------------------
(* Staged changes and the cron that promotes them.                         *)

\* An operator inserts a row (nothing in src/ does); license_id must exist.
StageChange(s) ==
    /\ staged[s].state = "absent"
    /\ \E p \in Pairs, to \in Statuses :
          /\ lic[p].status # "none"
          /\ staged' = [staged EXCEPT ![s] = [state |-> "unpromoted", pair |-> p,
                                              to |-> to]]
    /\ UNCHANGED <<lic, todo>>

PromotionRead(r) ==
    /\ todo[r] = {}
    /\ todo' = [todo EXCEPT ![r] = {s \in Stages : staged[s].state = "unpromoted"}]
    /\ todo'[r] # {}
    /\ UNCHANGED <<lic, staged>>

\* One row, in no particular order: neither the licence's status nor promoted_at
\* is read again, and reason and the suspension clock keep their values.
PromotionWrite(r) ==
    /\ \E s \in todo[r] :
          /\ lic' = [lic EXCEPT ![staged[s].pair].status = staged[s].to]
          /\ staged' = [staged EXCEPT ![s].state = "promoted"]
          /\ todo' = [todo EXCEPT ![r] = @ \ {s}]

\* The row's transaction is rolled back and the loop goes on.
PromotionSkip(r) ==
    /\ \E s \in todo[r] : todo' = [todo EXCEPT ![r] = @ \ {s}]
    /\ UNCHANGED <<lic, staged>>

\* The worker process dies between two rows.
PromotionCrash(r) ==
    /\ todo[r] # {}
    /\ todo' = [todo EXCEPT ![r] = {}]
    /\ UNCHANGED <<lic, staged>>

LicenseNext ==
    \/ \E p \in Pairs : \/ CreateLicense(p)
                        \/ ActivateLicense(p)
                        \/ FreezeLicense(p)
                        \/ UnfreezeProduct(p)
                        \/ CancelLicense(p)
    \/ \E s \in Stages : StageChange(s)
    \/ \E r \in Promoters : \/ PromotionRead(r)
                            \/ PromotionWrite(r)
                            \/ PromotionSkip(r)
                            \/ PromotionCrash(r)

\* The view of the licences that LicenseLifecycle specifies.
Lifecycle == INSTANCE LicenseLifecycle WITH
    status <- [p \in Pairs |-> lic[p].status],
    approved <- {<<staged[s].pair, staged[s].to>> :
                    s \in {x \in Stages : staged[x].state # "absent"}}
=============================================================================
