--------------------------- MODULE MCStripeWebhooks ---------------------------
(* StripeWebhooks on a small instance. *)
EXTENDS StripeWebhooks, TLC

CONSTANTS n1, subscribe, create, finalize, fail, pay, foreign

\* The life of one invoice, and a payment made without the Hub's metadata.
MCKind == subscribe :> "subscription" @@ create :> "created" @@ finalize :> "finalized"
             @@ fail :> "failed" @@ pay :> "paid"
             @@ foreign :> "paid"

AboutN1 == [e \in Events |-> n1]
===============================================================================
