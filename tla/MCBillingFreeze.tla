--------------------------- MODULE MCBillingFreeze ---------------------------
(* BillingFreeze on small instances. *)
EXTENDS BillingFreeze, TLC

CONSTANTS i1, i2, g1, g2, s1, s2

MCInvoices == {i1, i2}
MCGraces == {g1, g2}
MCSubs == {s1, s2}
Interchangeable == Permutations(MCInvoices) \cup Permutations(MCGraces)
                       \cup Permutations(MCSubs)
==============================================================================
