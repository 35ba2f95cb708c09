------------------------------- MODULE MCServices -------------------------------
(***************************************************************************)
(* The services that share no table with one another, each on a small      *)
(* instance, in one run.  `subject` names the service whose steps the      *)
(* behaviour takes; the variables of the others keep their initial values, *)
(* so the state spaces lie side by side.  Some services have two subjects,  *)
(* each with some of their processes only.                                 *)
(***************************************************************************)
EXTENDS Entitlement, PlanChange, UsageCosts, Pricing, Alerts, AddOns, QuarterlyCycle,
        MetricsClient, Rollup, Compliance, Catalogue, PriceOverrides, TLC

CONSTANTS r1, r2, v1, w1, u1, u2, u3, k1, c1, c2, c3, s1, s2, ch1, ch2, n1, n2, n3, n4, n5

MCVersionOf == [r \in Requests |-> v1]
MCKeyOf == [p \in Posts |-> IF p = u3 THEN "other" ELSE "key"]
MCThreshold == <<1, 2>>
MCContacts == <<c1, c2, c3>>
MCCadence == [c \in Controls |-> 0]
MCWanted == n1 :> [kind |-> "plan", key |-> "a", amount |-> 1]
         @@ n2 :> [kind |-> "plan", key |-> "b", amount |-> 1]
         @@ n3 :> [kind |-> "plan", key |-> "a", amount |-> 2]
         @@ n4 :> [kind |-> "addOn", key |-> "a", amount |-> 1]
         @@ n5 :> [kind |-> "discount", key |-> "a", amount |-> 1]
MCMonthDays == <<4, 3, 4, 3, 4, 4, 3>>

VARIABLE subject

Subjects == {"issue", "verify", "changes", "archive", "usage", "pricing", "scan", "deliver", "addons", "cycle",
             "metrics", "rollup", "compliance", "catalogue", "coupons", "overrides"}

mcVars == <<subject, vars, planVars, usageVars, pricingVars, alertVars, addOnVars,
            quarterlyVars, metricVars, rollupVars, complianceVars, catalogueVars,
            overrideVars>>

\* The licence is active and no decision is made: a change before the first request is one of the
\* MaxChanges, of which the verifications leave one.
MCInit ==
    /\ subject \in Subjects
    /\ Init
    /\ status[Pair] = "active"
    /\ \A g \in Gates : ~kill[g] /\ override[g] = None
    /\ \A v \in Versions : version[v] = "supported"
    /\ PlanInit /\ UsageInit /\ AlertInit /\ AddOnInit /\ MetricInit /\ RollupInit
    /\ ComplianceInit /\ CatalogueInit /\ OverridesInit
    /\ QuarterlyInit /\ (subject # "cycle" => firstDay = <<1, 1>>)
    /\ IF subject = "pricing" THEN PricingInit
       ELSE units = 0 /\ tiers = <<[upTo |-> Unbounded, price |-> 1, fee |-> 0]>>

\* The service s is the one that moves.
Moves(s, steps, its) == IF subject = s THEN steps ELSE UNCHANGED its

MCNext ==
    /\ UNCHANGED subject
    /\ CASE subject = "issue" -> Next /\ changes' < MaxChanges /\ verify' = verify /\ clock' = clock
         [] subject = "verify" -> Next /\ pc'[r2] = "idle"
         [] OTHER -> UNCHANGED vars
    /\ CASE subject = "changes" -> PlanNext /\ active' = active
         [] subject = "archive" -> PlanNext /\ call'[ch2] = NoCall
         [] OTHER -> UNCHANGED planVars
    /\ Moves("usage", UsageNext, usageVars)
    /\ Moves("pricing", Meter, pricingVars)
    /\ CASE subject = "scan" -> AlertNext /\ told' = told
         [] subject = "deliver" -> AlertNext /\ scan'[s2] = NoScan
         [] OTHER -> UNCHANGED alertVars
    /\ Moves("addons", AddOnNext, addOnVars)
    /\ Moves("cycle", QuarterlyNext, quarterlyVars)
    /\ Moves("metrics", MetricNext, metricVars)
    /\ Moves("rollup", RollupNext, rollupVars)
    /\ Moves("compliance", ComplianceNext /\ (complianceDay > 0 => evidence' = evidence), complianceVars)
    /\ CASE subject = "catalogue" -> CatalogueNext /\ creation'[n5].at = "new"
         [] subject = "coupons" -> CatalogueNext /\ \A c \in {n2, n3} : creation'[c].at = "new"
         [] OTHER -> UNCHANGED catalogueVars
    /\ Moves("overrides", OverridesNext, overrideVars)

\* The fairness of each service, for its own behaviours.
MCFairness ==
    /\ WF_vars(subject \in {"issue", "verify"} /\ WindowEnds)
    /\ \A r \in Requests : WF_vars(subject \in {"issue", "verify"} /\ Pexpire(r))
    /\ \A p \in Posts : WF_usageVars(subject = "usage" /\ PostStep(p))
    /\ \A s \in Scanners : WF_alertVars(subject \in {"scan", "deliver"} /\ ScanStep(s))
    /\ WF_metricVars(subject = "metrics" /\ TickFlush)
    /\ WF_metricVars(subject = "metrics" /\ FlightStep)

MCSpec == MCInit /\ [][MCNext]_mcVars /\ MCFairness

-----------------------------------------------------------------------------
\* Type invariant of the service that moves; the others are in their initial states, which their
\* own behaviours begin with.
ServicesTypeOK ==
    CASE subject \in {"issue", "verify"} -> TypeOK
      [] subject \in {"changes", "archive"} -> PlanTypeOK
      [] subject = "usage" -> UsageTypeOK
      [] subject = "pricing" -> PricingTypeOK
      [] subject \in {"scan", "deliver"} -> AlertTypeOK
      [] subject = "addons" -> AddOnTypeOK
      [] subject = "cycle" -> QuarterlyTypeOK
      [] subject = "metrics" -> MetricTypeOK
      [] subject = "rollup" -> RollupTypeOK
      [] subject = "compliance" -> ComplianceTypeOK
      [] subject \in {"catalogue", "coupons"} -> CatalogueTypeOK
      [] subject = "overrides" -> OverridesTypeOK
================================================================================
