----------------------------- MODULE EventChannel -----------------------------
(***************************************************************************)
(* What the SDK's buffer of usage events promises the product that records *)
(* events and the Hub that bills them: they arrive in the order in which   *)
(* they are recorded, without a gap, for the buffer lets go of no event    *)
(* that the Hub does not have.  An event may be sent again when its answer *)
(* is lost: what arrives is a set.  HubClient implements it                *)
(* (src/packages/hub-sdk/src/HubClient.ts).  Events are numbered as        *)
(* recorded.                                                               *)
(***************************************************************************)
EXTENDS Naturals

VARIABLES
    recorded,           \* events recorded so far
    received,           \* those the Hub has
    released            \* the client has let go of the first ones, this many

channelVars == <<recorded, received, released>>

Init == recorded = 0 /\ received = {} /\ released = 0

Record == recorded' = recorded + 1 /\ UNCHANGED <<received, released>>

\* A request brings the oldest events that wait; its answer may be lost.
Deliver ==
    \E last \in released..recorded :
        /\ received' = received \cup (released + 1)..last
        /\ released' \in {released, last}
        /\ UNCHANGED recorded

Next == Record \/ Deliver

Spec == Init /\ [][Next]_channelVars

-----------------------------------------------------------------------------
\* The Hub has the first events of all that were recorded, and all that the client let go of: no bill
\* misses an event and has a later one.
ReceivedIsPrefix == \E last \in released..recorded : received = 1..last

\* What the Hub did not have yet was recorded after all that it had.
ArrivesInOrder == [][\A new \in received' \ received, old \in received : old < new]_channelVars
===============================================================================
