-------------------------- MODULE LicenseLifecycle --------------------------
(***************************************************************************)
(* What the licence component promises its readers (the feature gate, the  *)
(* lease service, the admin console): a licence of a tenant-product pair   *)
(* only moves along pending -> active <-> suspended -> cancelled, except   *)
(* that an operator-approved staged change may set any status.             *)
(* License.tla implements it (src/src/services/license.ts).                *)
(***************************************************************************)
CONSTANT Pairs          \* (tenant, product) pairs

VARIABLES
    status,             \* status of the pair's licence, "none" before it exists
    approved            \* changes <<pair, status>> an operator has staged

lifecycleVars == <<status, approved>>

Statuses == {"pending", "active", "suspended", "cancelled"}

\* The edges a licence may take without an operator's staged change.
Edges == {<<"none", "pending">>, <<"pending", "active">>, <<"active", "suspended">>,
          <<"suspended", "active">>, <<"suspended", "cancelled">>}

Init == /\ status = [p \in Pairs |-> "none"]
        /\ approved = {}

Move(p) ==
    /\ \E to \in Statuses : /\ <<status[p], to>> \in Edges
                            /\ status' = [status EXCEPT ![p] = to]
    /\ UNCHANGED approved

Approve(p) ==
    /\ status[p] # "none"
    /\ \E to \in Statuses : approved' = approved \cup {<<p, to>>}
    /\ UNCHANGED status

Override(p) ==
    /\ \E to \in Statuses : /\ <<p, to>> \in approved
                            /\ status' = [status EXCEPT ![p] = to]
    /\ UNCHANGED approved

Next == \E p \in Pairs : Move(p) \/ Approve(p) \/ Override(p)

Spec == Init /\ [][Next]_lifecycleVars
=============================================================================
