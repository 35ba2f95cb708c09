--------------------------- MODULE MCFreezePairs ----------------------------
(* BillingFreeze with two customers, in two halves that only the licences   *)
(* join: promotion runs that overlap, with every operation on the licences, *)
(* and the billing freeze with its retries, with no staged change.          *)
EXTENDS MCBillingFreeze

VARIABLE subject

MCInit == Init /\ subject \in {"promotions", "payments"}

MCNext ==
    /\ \/ subject = "promotions" /\ LicenseStep
       \/ subject = "payments" /\ Next /\ UNCHANGED staged
    /\ UNCHANGED subject

MCSpec == MCInit /\ [][MCNext]_<<vars, subject>> /\ Fairness
==============================================================================
