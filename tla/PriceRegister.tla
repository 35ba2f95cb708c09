----------------------------- MODULE PriceRegister -----------------------------
(***************************************************************************)
(* What a negotiated price is to its tenant and to the operators that set  *)
(* it: a register.  A setting takes effect at one moment, and the price in *)
(* force is the one whose setting began last, in whatever order they take  *)
(* effect.  No row, lock or transaction is to be seen.  PriceOverrides     *)
(* implements it (src/src/services/priceOverrideService.ts).  A price is   *)
(* named by the moment at which its setting began.                         *)
(***************************************************************************)
EXTENDS Naturals

VARIABLES
    now,                \* settings begun so far
    applied,            \* those that have taken effect
    current             \* the price in force, 0 at first

registerVars == <<now, applied, current>>

Init == now = 0 /\ applied = {} /\ current = 0

Begin == now' = now + 1 /\ UNCHANGED <<applied, current>>

Apply ==
    \E price \in 1..now \ applied :
        /\ applied' = applied \cup {price}
        /\ current' = IF price > current THEN price ELSE current
        /\ UNCHANGED now

Next == Begin \/ Apply

Spec == Init /\ [][Next]_registerVars

-----------------------------------------------------------------------------
\* The price in force is one that was set, and never gives way to an older one or to none.
NeverGoesBack == [][current' > current /\ current' \in applied']_current
===============================================================================
