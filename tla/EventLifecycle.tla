---------------------------- MODULE EventLifecycle ----------------------------
(***************************************************************************)
(* What Stripe and the operators may rely on for each event that is sent   *)
(* to the Hub: it is accepted once, queued at most once, and settled by    *)
(* the only job that it ever has, or set aside for an operator.  One that  *)
(* is lost on its way to the queue stays lost: sending it again does not   *)
(* help.  No request, row or retry is to be seen.  StripeWebhooks          *)
(* implements it (src/src/webhooks/stripe.ts, src/src/queues/index.ts).    *)
(***************************************************************************)
CONSTANT Events

VARIABLE stage

Stages == {"unseen", "accepted", "queued", "settled", "lost"}

Forward == {<<"unseen", "accepted">>, <<"accepted", "queued">>, <<"accepted", "settled">>,
            <<"accepted", "lost">>, <<"queued", "settled">>}

Init == stage = [e \in Events |-> "unseen"]

Move(e) ==
    \E to \in Stages :
        /\ <<stage[e], to>> \in Forward
        /\ stage' = [stage EXCEPT ![e] = to]

Next == \E e \in Events : Move(e)

Spec == Init /\ [][Next]_stage

-----------------------------------------------------------------------------
\* An event that was settled or lost stays so.
EndsAreFinal == [][\A e \in Events : stage[e] \in {"settled", "lost"} => stage'[e] = stage[e]]_stage
===============================================================================
