------------------------------ MODULE MCHubClient ------------------------------
(* HubClient on a small instance. *)
EXTENDS HubClient, TLC

CONSTANTS r1, r2

MCRefreshes == {r1, r2}
================================================================================
