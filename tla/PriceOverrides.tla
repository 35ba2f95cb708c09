----------------------------- MODULE PriceOverrides -----------------------------
(***************************************************************************)
(* The negotiated prices of one tenant and plan (priceOverrideService.ts). *)
(* A setting closes the override in force and opens its own in one         *)
(* transaction, but nothing orders two settings: NOW() is the moment a     *)
(* transaction began, each sees what had been committed when its UPDATE    *)
(* began, waits for the rows that another one holds, and then looks at     *)
(* them, and at no others, again (PostgreSQL's READ COMMITTED).            *)
(***************************************************************************)
EXTENDS Naturals

CONSTANTS
    Settings,           \* calls of setPriceOverride
    NoEnd               \* effective_to IS NULL

ASSUME PriceOverridesAssumption == NoEnd \notin Nat

VARIABLES
    moment,             \* the time; every transaction begins at one of its own
    overrides,          \* committed rows of price_overrides, by the call that inserted them
    setting             \* the transaction of each call

overrideVars == <<moment, overrides, setting>>

NoRow == [from |-> 0, to |-> NoEnd]     \* of a call that has committed none: from is never 0

OverridesInit ==
    /\ moment = 0
    /\ overrides = [s \in Settings |-> NoRow]
    /\ setting = [s \in Settings |-> [at |-> "new", began |-> 0, sees |-> {}, closes |-> {}]]

Rows == {r \in Settings : overrides[r].from # 0}

-----------------------------------------------------------------------------
BeginSetting(s) ==
    /\ setting[s].at = "new"
    /\ moment' = moment + 1
    /\ setting' = [setting EXCEPT ![s].at = "begun", ![s].began = moment + 1]
    /\ UNCHANGED overrides

\* Mutant: the UPDATE does not ask whether the override has begun.
ToCloseWhenever(s) == {r \in Rows : overrides[r].to = NoEnd \/ overrides[r].to > setting[s].began}

\* What the UPDATE's WHERE selects.
ToClose(s) ==
    {r \in Rows : /\ overrides[r].from <= setting[s].began
                  /\ overrides[r].to = NoEnd \/ overrides[r].to > setting[s].began}

\* The UPDATE begins: rows committed from now on are not selected.
SelectOverrides(s) ==
    /\ setting[s].at = "begun"
    /\ setting' = [setting EXCEPT ![s].at = "updating", ![s].sees = ToClose(s)]
    /\ UNCHANGED <<moment, overrides>>

\* It has the locks of all it selected, and looks at the rows again.  Locks are taken one by one; of two
\* calls that wait for each other PostgreSQL ends one, which is SettingFails.
CloseOverrides(s) ==
    /\ setting[s].at = "updating"
    /\ \A other \in Settings \ {s} : setting[s].sees \cap setting[other].closes = {}
    /\ setting' = [setting EXCEPT ![s].at = "closed", ![s].closes = setting[s].sees \cap ToClose(s)]
    /\ UNCHANGED <<moment, overrides>>

\* The INSERT and the COMMIT, which shows the closed rows and the new one to others.
CommitOverride(s) ==
    /\ setting[s].at = "closed"
    /\ overrides' = [r \in Settings |->
            IF r = s THEN [from |-> setting[s].began, to |-> NoEnd]
            ELSE IF r \in setting[s].closes THEN [overrides[r] EXCEPT !.to = setting[s].began]
            ELSE overrides[r]]
    /\ setting' = [setting EXCEPT ![s].at = "done", ![s].closes = {}]
    /\ UNCHANGED moment

\* A statement fails or the process dies: the transaction is rolled back.
SettingFails(s) ==
    /\ setting[s].at \in {"begun", "updating", "closed"}
    /\ setting' = [setting EXCEPT ![s].at = "done", ![s].closes = {}]
    /\ UNCHANGED <<moment, overrides>>

OverridesNext ==
    \E s \in Settings :
        \/ BeginSetting(s) \/ SelectOverrides(s) \/ CloseOverrides(s) \/ CommitOverride(s)
        \/ SettingFails(s)

OverridesSpec == OverridesInit /\ [][OverridesNext]_overrideVars

-----------------------------------------------------------------------------
\* The row that getCurrentOverride returns, if any, at a time after all that have begun: of the open
\* ones the latest.
IsCurrent(r) ==
    /\ r \in Rows /\ overrides[r].to = NoEnd
    /\ \A other \in Rows : overrides[other].to = NoEnd => overrides[other].from <= overrides[r].from

SettingState == [at : {"new", "begun", "updating", "closed", "done"}, began : Nat,
                 sees : SUBSET Settings, closes : SUBSET Settings]

\* Type invariant of the rows and the transactions.
OverridesTypeOK ==
    /\ moment \in Nat
    /\ overrides \in [Settings -> [from : Nat, to : Nat \cup {NoEnd}]]
    /\ setting \in [Settings -> SettingState]

\* Settings that overlap may each miss the other's row and leave two open, but the price in force
\* (priceOverrideService.ts:28-66, 87-103) is always that of the setting that began last of all that
\* were committed, in whatever order they were: no older price comes back, and none is without effect.
LatestOverrideInForce ==
    \A r \in Rows : (\A other \in Rows : overrides[other].from <= overrides[r].from) => IsCurrent(r)

-----------------------------------------------------------------------------
(* What the overrides promise: a register that the last setting wins.      *)

\* effective_from of the override that getCurrentOverride returns, if any.
InForceSince ==
    IF \E r \in Settings : IsCurrent(r) THEN overrides[CHOOSE r \in Settings : IsCurrent(r)].from ELSE 0

Register == INSTANCE PriceRegister WITH
    now     <- moment,
    applied <- {overrides[r].from : r \in Rows},
    current <- InForceSince

\* However settings overlap, wait for each other and fail, the overrides are such a register.
RefinesRegister == Register!Spec
=================================================================================
