------------------------------ MODULE UsageLedger ------------------------------
(***************************************************************************)
(* What the Hub promises those that send it usage events, and those it     *)
(* bills: an event is stored together with its cost, once for each         *)
(* idempotency key, is neither changed nor removed, and the answer says    *)
(* "recorded" or "duplicate" only when it is stored.  An event may be      *)
(* stored and its sender not told: sent again, it is a duplicate.  No      *)
(* connection, cache or pricing model is to be seen.  UsageCosts           *)
(* implements it (src/src/services/usageTrackingService.ts).               *)
(***************************************************************************)
CONSTANTS
    Posts,              \* events as they are sent; a retry is another one
    KeyOf,              \* their idempotency keys
    Models              \* what an event may be priced by

VARIABLES
    ledger,             \* what is stored: posts and the model each is priced by
    answer              \* what each post has been told, "none" at first

ledgerVars == <<ledger, answer>>

Init == ledger = {} /\ answer = [p \in Posts |-> "none"]

Stored(key) == \E row \in ledger : KeyOf[row.post] = key

Answer(p, what) == answer[p] = "none" /\ answer' = [answer EXCEPT ![p] = what]

Store(p) ==
    /\ ~Stored(KeyOf[p])
    /\ \E m \in Models : ledger' = ledger \cup {[post |-> p, model |-> m]}

Record(p) == Store(p) /\ Answer(p, "recorded")

\* The answer is lost.
StoreUntold(p) == Store(p) /\ UNCHANGED answer

Refuse(p) ==
    /\ Stored(KeyOf[p])
    /\ Answer(p, "duplicate")
    /\ UNCHANGED ledger

Next == \E p \in Posts : Record(p) \/ StoreUntold(p) \/ Refuse(p)

Spec == Init /\ [][Next]_ledgerVars

-----------------------------------------------------------------------------
\* A key is charged once, a post that was told "recorded" is charged for, and so is the key of a
\* post that was told "duplicate", whatever answers were lost.
LedgerInv ==
    /\ \A row, other \in ledger : KeyOf[row.post] = KeyOf[other.post] => row = other
    /\ \A p \in Posts : answer[p] = "recorded" => \E row \in ledger : row.post = p
    /\ \A p \in Posts : answer[p] = "duplicate" => Stored(KeyOf[p])
================================================================================
