------------------------------ MODULE MCUsageCosts ------------------------------
(* Two posts with the same idempotency key, so that a cost can be computed twice.  *)
EXTENDS UsageCosts

MCKeyOf == [p \in Posts |-> "key"]
================================================================================
