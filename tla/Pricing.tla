--------------------------------- MODULE Pricing ---------------------------------
(***************************************************************************)
(* What units cost under a tiered pricing model, computed three times in   *)
(* the code: computeCost (lib/computeCost.ts) for the ledger,              *)
(* calculateCost (costCalculationService.ts) for the operators' quotes and *)
(* computeLadderTotal (launchkitPricingService.ts) for one-time charges.   *)
(* The first takes up_to_units for the width of a tier, the second for     *)
(* its upper end, a ladder has both ends; only the first knows flat fees.  *)
(*                                                                         *)
(* The tiers are in the order both sort them in.  They are whatever the    *)
(* table holds: pricing/routes.ts stores and activates a model without     *)
(* validateTiered, so that the last tier may be bounded, another one may   *)
(* not be, and there may be none.  A bill is one input; metering adds a    *)
(* unit to it, so that bills are compared along the way.  Left out:        *)
(* negative numbers, which that route does not refuse either.              *)
(***************************************************************************)
EXTENDS Integers, Sequences, FiniteSetsExt, SequencesExt

CONSTANTS
    Widths,             \* values of up_to_units
    UnitPrices,         \* values of unit_price_cents
    FlatFees,           \* values of flat_fee_cents
    MaxTiers,           \* bound: tiers of a model
    MaxUnits,           \* bound: unit_count
    Unbounded           \* NULL

ASSUME PricingAssumption ==
    /\ Widths \subseteq Nat /\ UnitPrices \subseteq Nat /\ FlatFees \subseteq Nat
    /\ Unbounded \notin Nat /\ MaxUnits \in Nat

VARIABLES
    tiers,              \* price_tiers of a model, in tier_order
    units               \* unit_count

pricingVars == <<tiers, units>>

Tier == [upTo : Widths \cup {Unbounded}, price : UnitPrices, fee : FlatFees]

\* price_tiers has no constraint but NOT NULL, and that not on up_to_units.
StoredTiers == BoundedSeq(Tier, MaxTiers)

\* What a loop over s holds after each of its rounds.
After(round(_, _), first, s) ==
    LET after[i \in 0..Len(s)] == IF i = 0 THEN first ELSE round(after[i - 1], s[i])
    IN  after

\* Mutant: the flat fee is due for tiers that were not entered.
ComputeCostTierAllFees(acc, t) ==
    LET inTier == IF t.upTo = Unbounded THEN acc.left ELSE Min({acc.left, t.upTo})
    IN [left |-> acc.left - inTier, total |-> acc.total + inTier * t.price + t.fee]

\* A tier in computeTieredCost; one that takes nothing costs nothing, so the loop's break changes
\* nothing.
ComputeCostTier(acc, t) ==
    LET inTier == IF t.upTo = Unbounded THEN acc.left ELSE Min({acc.left, t.upTo})
    IN [left |-> acc.left - inTier,
        total |-> acc.total + inTier * t.price + IF inTier > 0 THEN t.fee ELSE 0]

ComputeCost(s, n) == After(ComputeCostTier, [left |-> n, total |-> 0], s)[Len(s)].total

\* A tier in the case 'tiered' of calculateCost; one that ends before the last takes units back.
CalculateCostTier(acc, t) ==
    LET inTier == IF t.upTo = Unbounded THEN acc.left ELSE Min({acc.left, t.upTo - acc.consumed})
    IN IF acc.left <= 0 THEN acc
       ELSE [left |-> acc.left - inTier, consumed |-> acc.consumed + inTier,
             total |-> acc.total + inTier * t.price]

CalculateCost(s, n) ==
    After(CalculateCostTier, [left |-> n, consumed |-> 0, total |-> 0], s)[Len(s)].total

\* The volume ladder of a plan with the same ends: each rung says where it begins.
Ladder(s) ==
    [i \in DOMAIN s |-> [from |-> IF i = 1 THEN 1 ELSE s[i - 1].upTo + 1, to |-> s[i].upTo, price |-> s[i].price]]

\* What a rung of a ladder adds to the total for n units.
InRung(rung, n) ==
    LET to == IF rung.to = Unbounded THEN n ELSE Min({n, rung.to})
    IN Max({0, to - rung.from + 1}) * rung.price

\* computeLadderTotal, for a quantity that is not refused.
LadderTotal(ladder, n) == After(LAMBDA total, rung : total + InRung(rung, n), 0, ladder)[Len(ladder)]

PricingInit == tiers \in StoredTiers /\ units = 0

Meter == units < MaxUnits /\ units' = units + 1 /\ UNCHANGED tiers

PricingSpec == PricingInit /\ [][Meter]_pricingVars

-----------------------------------------------------------------------------
PricingTypeOK == tiers \in StoredTiers /\ units \in 0..MaxUnits

\* Where the tiers end, each as wide as up_to_units says; no bill goes beyond MaxUnits.
EndOf == After(LAMBDA end, t : end + IF t.upTo = Unbounded THEN MaxUnits ELSE t.upTo, 0, tiers)

\* Unit k falls in the i-th tier.
FallsIn(k, i) == EndOf[i - 1] < k /\ k <= EndOf[i]

\* What the ledger charges is what graduated pricing means: one unit more adds the price of the tier
\* it falls in, and that tier's fee if it is the first there; beyond the last tier units are free.
LedgerCostIsGraduated ==
    IF units = 0 THEN ComputeCost(tiers, units) = 0
    ELSE LET more == ComputeCost(tiers, units) - ComputeCost(tiers, units - 1)
         IN  /\ \A i \in DOMAIN tiers :
                   FallsIn(units, i) =>
                      more = tiers[i].price + IF FallsIn(units - 1, i) THEN 0 ELSE tiers[i].fee
             /\ (\A i \in DOMAIN tiers : ~FallsIn(units, i)) => more = 0

\* The same tiers for the other two, which take up_to_units for the end of a tier and know no fees.
ByEnds == [i \in DOMAIN tiers |-> IF tiers[i].upTo = Unbounded THEN tiers[i]
                                  ELSE [tiers[i] EXCEPT !.upTo = EndOf[i]]]
WithoutFees == [i \in DOMAIN tiers |-> [tiers[i] EXCEPT !.fee = 0]]

\* computeLadderTotal refuses more units than a bounded last rung covers.  A rung in the middle has
\* an end.
LadderCovers ==
    /\ tiers # <<>>
    /\ \A i \in 1..(Len(tiers) - 1) : tiers[i].upTo # Unbounded
    /\ units <= EndOf[Len(tiers)]

\* Quote and ladder compute the ledger's cost, once the tiers are written their way.
LoopsAgree ==
    /\ CalculateCost(ByEnds, units) = ComputeCost(WithoutFees, units)
    /\ LadderCovers => LadderTotal(Ladder(ByEnds), units) = ComputeCost(WithoutFees, units)

\* The three tier loops agree, unit by unit, with one definition of graduated pricing: no boundary
\* unit and no fee is charged in two tiers or in none, whatever tiers are stored (computeCost.ts:33-55,
\* costCalculationService.ts:61-87, launchkitPricingService.ts:138-159).  No code rewrites the tiers:
\* for a stored model with fees, or of three tiers, the quote is not what the ledger charges.
PricesAreGraduated == LedgerCostIsGraduated /\ LoopsAgree
================================================================================
