---------------------------- MODULE ServicesProofs ----------------------------
(***************************************************************************)
(* The run of MCServices looks at one service at a time, on behaviours in  *)
(* which the others stand still.  Here that is shown to be harmless: a     *)
(* behaviour of MCSpec is, for each service, a behaviour of the service's  *)
(* own specification but for its fairness, so that what the other modules  *)
(* prove of a service holds in the run as well.  The type invariant of the *)
(* run then follows from the services' own inductive invariants.           *)
(***************************************************************************)
EXTENDS MCServices, EntitlementProofs, PlanChangeProofs, SalesProofs, OperationsProofs

-----------------------------------------------------------------------------
(* Every service keeps to its own specification.                           *)

\* The price of a bill is an input: it is chosen only when it is looked at.
PricingStarts == subject = "pricing" => PricingInit

LEMMA InitIsEach ==
    MCInit => /\ subject \in Subjects /\ PricingStarts
              /\ Init /\ PlanInit /\ UsageInit /\ AlertInit /\ AddOnInit /\ QuarterlyInit /\ MetricInit
              /\ RollupInit /\ ComplianceInit /\ CatalogueInit /\ OverridesInit
  <1> SUFFICES ASSUME MCInit
               PROVE  /\ subject \in Subjects /\ PricingStarts
                      /\ Init /\ PlanInit /\ UsageInit /\ AlertInit /\ AddOnInit /\ QuarterlyInit
                      /\ MetricInit /\ RollupInit /\ ComplianceInit /\ CatalogueInit /\ OverridesInit
    OBVIOUS
  <1>1. PricingStarts
    BY DEF MCInit, PricingStarts
  <1> QED  BY <1>1 DEF MCInit

LEMMA StepIsEach ==
    [MCNext]_mcVars =>
        /\ UNCHANGED subject
        /\ [Next]_vars /\ [PlanNext]_planVars /\ [UsageNext]_usageVars
        /\ [subject = "pricing" /\ Meter]_pricingVars
        /\ [AlertNext]_alertVars /\ [AddOnNext]_addOnVars /\ [QuarterlyNext]_quarterlyVars
        /\ [MetricNext]_metricVars /\ [RollupNext]_rollupVars /\ [ComplianceNext]_complianceVars
        /\ [CatalogueNext]_catalogueVars /\ [OverridesNext]_overrideVars
  <1>1. CASE UNCHANGED mcVars
    BY <1>1 DEF mcVars
  <1>2. CASE MCNext
    <2>1. UNCHANGED subject
      BY <1>2 DEF MCNext
    <2>2. [Next]_vars
      BY <1>2 DEF MCNext
    <2>3. [PlanNext]_planVars
      BY <1>2 DEF MCNext
    <2>4. [UsageNext]_usageVars
      BY <1>2 DEF MCNext, Moves
    <2>5. [subject = "pricing" /\ Meter]_pricingVars
      BY <1>2 DEF MCNext, Moves
    <2>6. [AlertNext]_alertVars
      BY <1>2 DEF MCNext
    <2>7. [AddOnNext]_addOnVars
      BY <1>2 DEF MCNext, Moves
    <2>8. [QuarterlyNext]_quarterlyVars
      BY <1>2 DEF MCNext, Moves
    <2>9. [MetricNext]_metricVars
      BY <1>2 DEF MCNext, Moves
    <2>10. [RollupNext]_rollupVars
      BY <1>2 DEF MCNext, Moves
    <2>11. [ComplianceNext]_complianceVars
      BY <1>2 DEF MCNext, Moves
    <2>12. [CatalogueNext]_catalogueVars
      BY <1>2 DEF MCNext
    <2>13. [OverridesNext]_overrideVars
      BY <1>2 DEF MCNext, Moves
    <2> QED  BY <2>1, <2>2, <2>3, <2>4, <2>5, <2>6, <2>7, <2>8, <2>9, <2>10, <2>11, <2>12, <2>13
  <1> QED  BY <1>1, <1>2

\* Each service, whichever is the subject, starts and steps as its own specification says, and those
\* that are not stand still: the run of all the services checks the services themselves, and an
\* invariant or an action property that holds of one of them alone holds in that run.
THEOREM ServicesAreApart ==
    MCSpec => /\ Init /\ [][Next]_vars
              /\ PlanInit /\ [][PlanNext]_planVars
              /\ UsageInit /\ [][UsageNext]_usageVars
              /\ AlertInit /\ [][AlertNext]_alertVars
              /\ AddOnInit /\ [][AddOnNext]_addOnVars
              /\ QuarterlyInit /\ [][QuarterlyNext]_quarterlyVars
              /\ MetricInit /\ [][MetricNext]_metricVars
              /\ RollupInit /\ [][RollupNext]_rollupVars
              /\ ComplianceInit /\ [][ComplianceNext]_complianceVars
              /\ CatalogueInit /\ [][CatalogueNext]_catalogueVars
              /\ OverridesInit /\ [][OverridesNext]_overrideVars
  BY InitIsEach, StepIsEach, PTL DEF MCSpec

-----------------------------------------------------------------------------
(* The type invariant of the run, from the inductive invariants of the     *)
(* services.  All of them hold whatever the subject, since a service that  *)
(* stands still keeps its own; only the tiers of a model are typed just    *)
(* when prices are the subject.                                            *)

PricesTyped == subject = "pricing" => PricingTypeOK

LEMMA PricesTypedInit == PricingStarts => PricesTyped
  BY PricingAssumption DEF PricingStarts, PricingInit, PricesTyped, PricingTypeOK

LEMMA PricesTypedStep ==
    ASSUME PricesTyped, UNCHANGED subject, [subject = "pricing" /\ Meter]_pricingVars
    PROVE  PricesTyped'
  <1> SUFFICES ASSUME subject = "pricing" PROVE PricingTypeOK'
    BY DEF PricesTyped
  <1>1. tiers \in StoredTiers /\ units \in 0..MaxUnits
    BY DEF PricesTyped, PricingTypeOK
  <1>2. tiers' = tiers
    BY DEF Meter, pricingVars
  <1>3. units' \in 0..MaxUnits
    BY <1>1, PricingAssumption DEF Meter, pricingVars
  <1>4. StoredTiers' = StoredTiers
    BY DEF StoredTiers, Tier
  <1> QED  BY <1>1, <1>2, <1>3 DEF PricingTypeOK

ServicesInv ==
    /\ subject \in Subjects
    /\ TypeInv
    /\ PlanTypeInv
    /\ UsageInv /\ PoolInv
    /\ PricesTyped
    /\ AlertTypeInv
    /\ AddOnInv /\ AddOnBounds
    /\ QuarterlyInv
    /\ MetricInv
    /\ RollupInv
    /\ ComplianceTypeOK /\ RunInv
    /\ CatalogueInv
    /\ OverridesInv

LEMMA ServicesInit == MCInit => ServicesInv
  <1> SUFFICES ASSUME MCInit PROVE ServicesInv
    OBVIOUS
  <1>1. /\ subject \in Subjects /\ PricingStarts
        /\ Init /\ PlanInit /\ UsageInit /\ AlertInit /\ AddOnInit /\ QuarterlyInit /\ MetricInit
        /\ RollupInit /\ ComplianceInit /\ CatalogueInit /\ OverridesInit
    BY InitIsEach
  <1>2. TypeInv /\ PlanTypeInv /\ UsageInv /\ PoolInv /\ PricesTyped
    BY <1>1, InitType, PlanTypeInit, UsageInitInv, PoolInitInv, PricesTypedInit
  <1>3. AlertTypeInv /\ AddOnInv /\ AddOnBounds /\ QuarterlyInv /\ MetricInv /\ RollupInv
    BY <1>1, AlertTypeInit, AddOnInitInv, AddOnBoundsInit, QuarterlyInitInv, MetricInitInv,
       RollupInitInv
  <1>4. ComplianceTypeOK /\ RunInv /\ CatalogueInv /\ OverridesInv
    BY <1>1, ComplianceTypeInit, RunInit, InitInv, OverridesInitInv
  <1> QED  BY <1>1, <1>2, <1>3, <1>4 DEF ServicesInv

LEMMA ServicesStep == ServicesInv /\ [MCNext]_mcVars => ServicesInv'
  <1> SUFFICES ASSUME ServicesInv, [MCNext]_mcVars PROVE ServicesInv'
    OBVIOUS
  <1>i. /\ subject \in Subjects
        /\ TypeInv /\ PlanTypeInv /\ UsageInv /\ PoolInv /\ PricesTyped
        /\ AlertTypeInv /\ AddOnInv /\ AddOnBounds /\ QuarterlyInv /\ MetricInv /\ RollupInv
        /\ ComplianceTypeOK /\ RunInv /\ CatalogueInv /\ OverridesInv
    BY DEF ServicesInv
  <1>s. /\ UNCHANGED subject
        /\ [Next]_vars /\ [PlanNext]_planVars /\ [UsageNext]_usageVars
        /\ [subject = "pricing" /\ Meter]_pricingVars
        /\ [AlertNext]_alertVars /\ [AddOnNext]_addOnVars /\ [QuarterlyNext]_quarterlyVars
        /\ [MetricNext]_metricVars /\ [RollupNext]_rollupVars /\ [ComplianceNext]_complianceVars
        /\ [CatalogueNext]_catalogueVars /\ [OverridesNext]_overrideVars
    BY StepIsEach
  <1>1. (subject \in Subjects)'
    BY <1>i, <1>s DEF Subjects
  <1>2. TypeInv' /\ PlanTypeInv'
    BY <1>i, <1>s, NextType, PlanTypeStep
  <1>3. UsageInv' /\ PoolInv'
    BY <1>i, <1>s, UsageNextInv, PoolNextInv
  <1>4. PricesTyped'
    BY <1>i, <1>s, PricesTypedStep
  <1>5. AlertTypeInv' /\ QuarterlyInv'
    BY <1>i, <1>s, AlertTypeStep, QuarterlyStep
  <1>6. AddOnInv'
    BY <1>i, <1>s, AddOnNextInv
  <1>7. AddOnBounds'
    BY <1>i, <1>s, <1>6, AddOnBoundsKept
  <1>8. MetricInv' /\ RollupInv'
    BY <1>i, <1>s, MetricStep, RollupStep
  <1>9. ComplianceTypeOK' /\ RunInv'
    BY <1>i, <1>s, ComplianceTypeStep, RunStep
  <1>10. CatalogueInv' /\ OverridesInv'
    BY <1>i, <1>s, StepInv, OverridesStepInv
  <1> QED  BY <1>1, <1>2, <1>3, <1>4, <1>5, <1>6, <1>7, <1>8, <1>9, <1>10 DEF ServicesInv

LEMMA ServicesInvImplies == ServicesInv => ServicesTypeOK
  <1> SUFFICES ASSUME ServicesInv PROVE ServicesTypeOK
    OBVIOUS
  <1>1. TypeOK
    BY TypeParts DEF ServicesInv
  <1>2. PlanTypeOK
    BY DEF ServicesInv, PlanTypeInv
  <1>3. UsageTypeOK
    BY UsageTypes DEF ServicesInv
  <1>4. subject = "pricing" => PricingTypeOK
    BY DEF ServicesInv, PricesTyped
  <1>5. AlertTypeOK
    BY AlertTypeInvImplies DEF ServicesInv
  <1>6. AddOnTypeOK
    BY AddOnTypes DEF ServicesInv
  <1>7. QuarterlyTypeOK
    BY QuarterlyTypes DEF ServicesInv
  <1>8. MetricTypeOK /\ RollupTypeOK /\ ComplianceTypeOK
    BY DEF ServicesInv, MetricInv, RollupInv
  <1>9. CatalogueTypeOK /\ OverridesTypeOK
    BY DEF ServicesInv, CatalogueInv, CatalogueTypeInv, OverridesInv
  <1>10. subject \in Subjects
    BY DEF ServicesInv
  <1> QED  BY <1>1, <1>2, <1>3, <1>4, <1>5, <1>6, <1>7, <1>8, <1>9, <1>10 DEF ServicesTypeOK, Subjects

\* ServicesTypeOK: whichever service moves, its tables, requests, jobs and queues hold what the code
\* can put there, and nothing else.
THEOREM ServicesTypesCorrect == MCSpec => []ServicesTypeOK
  BY ServicesInit, ServicesStep, ServicesInvImplies, PTL DEF MCSpec
===============================================================================
