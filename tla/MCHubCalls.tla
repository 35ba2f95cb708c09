------------------------------ MODULE MCHubCalls ------------------------------
(* HubClient on a small instance, in which two connect() calls meet a        *)
(* disconnect(), or one of them and a ping do.                               *)
EXTENDS MCHubClient

VARIABLE absent         \* the call that is never made

MCInit == Init /\ absent \in Pings \cup {CHOOSE c \in Connects : TRUE}

MCNext == Next /\ pc'[absent] = "idle" /\ UNCHANGED absent

MCSpec == MCInit /\ [][MCNext]_<<vars, absent>> /\ Fairness
================================================================================
