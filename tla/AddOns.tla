--------------------------------- MODULE AddOns ---------------------------------
(***************************************************************************)
(* One tenant and one add-on (addOnService.ts): the catalogue row, the     *)
(* tenant_add_ons rows and the items of the tenant's Stripe subscription.  *)
(* Every request is a chain of statements that commit one by one, with     *)
(* Stripe called in between under a five second timeout that does not      *)
(* take a call back.                                                       *)
(*                                                                         *)
(* External: Stripe remembers the answer to an idempotency key for a day   *)
(* and refuses a second item of one price on a subscription.               *)
(***************************************************************************)
EXTENDS Naturals, Sequences

CONSTANTS
    AddOnRequests,           \* requests to activate, deactivate or archive, one each
    NoItem,             \* no item is known under the idempotency key
    MaxItems            \* bound: items Stripe makes

ASSUME AddOnAssumption == NoItem \notin Nat /\ MaxItems \in Nat

VARIABLES
    addOnActive,        \* add_ons.active
    archivedAt,         \* add_ons.archived_at is set
    subscription,       \* status of the tenant's stripe_subscriptions row
    items,              \* Stripe's items of the add-on's price, by id: is it on the subscription?
    remembered,         \* the item Stripe answers with for the key activate-addon:tenant:addon
    tenantAddOns,       \* tenant_add_ons, by id
    request             \* the requests: where each one is, and what it has read

addOnVars == <<addOnActive, archivedAt, subscription, items, remembered, tenantAddOns, request>>

NewRequest == [at |-> "new", item |-> 0, row |-> 0, live |-> FALSE]

AddOnInit ==
    /\ addOnActive = TRUE /\ archivedAt = FALSE
    /\ subscription = "active"
    /\ items = <<>> /\ remembered = NoItem
    /\ tenantAddOns = <<>>
    /\ request = [r \in AddOnRequests |-> NewRequest]

Live == subscription \notin {"canceled", "unpaid"}
ActiveRows == {i \in DOMAIN tenantAddOns : tenantAddOns[i].status = "active"}

Goto(r, from, to) ==
    /\ request[r].at = from
    /\ request' = [request EXCEPT ![r].at = to]

-----------------------------------------------------------------------------
(* activateAddOn.                                                          *)

\* No live subscription, an inactive add-on: 400. A row that is active already is the answer.
CheckSubscription(r) ==
    /\ Goto(r, "new", IF Live THEN "check" ELSE "done")
    /\ UNCHANGED <<addOnActive, archivedAt, subscription, items, remembered, tenantAddOns>>

CheckAddOn(r) ==
    /\ Goto(r, "check", IF addOnActive THEN "existing" ELSE "done")
    /\ UNCHANGED <<addOnActive, archivedAt, subscription, items, remembered, tenantAddOns>>

CheckExisting(r) ==
    /\ Goto(r, "existing", IF ActiveRows = {} THEN "stripe" ELSE "done")
    /\ UNCHANGED <<addOnActive, archivedAt, subscription, items, remembered, tenantAddOns>>

\* The idempotency key is the same for every activation of this add-on by this tenant.
AddItem(r) ==
    /\ request[r].at = "stripe"
    /\ \E inTime \in BOOLEAN :
        LET answer(i) == request' = [request EXCEPT ![r].at = IF inTime THEN "insert" ELSE "done",
                                                    ![r].item = i]
        IN IF remembered # NoItem
           THEN answer(remembered) /\ UNCHANGED <<items, remembered>>
           ELSE /\ subscription # "canceled" /\ \A i \in DOMAIN items : ~items[i]
                /\ Len(items) < MaxItems
                /\ items' = Append(items, TRUE)
                /\ remembered' = Len(items) + 1
                /\ answer(Len(items) + 1)
    /\ UNCHANGED <<addOnActive, archivedAt, subscription, tenantAddOns>>

\* The partial unique index allows one active row.
InsertTenantAddOn(r) ==
    /\ Goto(r, "insert", "done")
    /\ tenantAddOns' = IF ActiveRows # {} THEN tenantAddOns
                       ELSE Append(tenantAddOns, [item |-> request[r].item, status |-> "active",
                                                  unasked |-> FALSE])
    /\ UNCHANGED <<addOnActive, archivedAt, subscription, items, remembered>>

-----------------------------------------------------------------------------
(* deactivateAddOn.                                                        *)

\* The query has no status filter and no order: any row of the tenant may be the one it gets.
ReadTenantAddOn(r) ==
    /\ request[r].at = "new"
    /\ \E i \in DOMAIN tenantAddOns :
        request' = [request EXCEPT ![r].row = i, ![r].item = tenantAddOns[i].item,
                        ![r].at = IF tenantAddOns[i].status = "active" THEN "subs" ELSE "done"]
    /\ UNCHANGED <<addOnActive, archivedAt, subscription, items, remembered, tenantAddOns>>

ReadSubscription(r) ==
    /\ request[r].at = "subs"
    /\ request' = [request EXCEPT ![r].at = IF Live THEN "remove" ELSE "update", ![r].live = Live]
    /\ UNCHANGED <<addOnActive, archivedAt, subscription, items, remembered, tenantAddOns>>

\* Mutant: a Stripe call that fails does not end the request.
RemoveItemAnyhow(r) ==
    /\ \E called \in BOOLEAN :
        items' = IF called THEN [items EXCEPT ![request[r].item] = FALSE] ELSE items
    /\ Goto(r, "remove", "update")
    /\ UNCHANGED <<addOnActive, archivedAt, subscription, remembered, tenantAddOns>>

\* An item that is gone is an error of Stripe's; so is a timeout, whether or not the call was made.
RemoveItem(r) ==
    /\ \E called, inTime \in BOOLEAN :
        /\ inTime => called
        /\ Goto(r, "remove", IF inTime /\ items[request[r].item] THEN "update" ELSE "done")
        /\ items' = IF called THEN [items EXCEPT ![request[r].item] = FALSE] ELSE items
    /\ UNCHANGED <<addOnActive, archivedAt, subscription, remembered, tenantAddOns>>

\* A row that is cancelled without a live subscription has not asked for its item back.
Cancelled(row, live) ==
    [item |-> row.item, status |-> "cancelled", unasked |-> row.unasked \/ ~live]

CancelTenantAddOn(r) ==
    /\ Goto(r, "update", "done")
    /\ tenantAddOns' = [tenantAddOns EXCEPT
            ![request[r].row] = Cancelled(@, request[r].live)]
    /\ UNCHANGED <<addOnActive, archivedAt, subscription, items, remembered>>

-----------------------------------------------------------------------------
(* The catalogue row.                                                      *)

\* archiveAddOn, and its counter activateAddOnDefinition, which leaves archived_at alone.
SetAddOnActive ==
    /\ addOnActive' = ~addOnActive
    /\ UNCHANGED <<archivedAt, subscription, items, remembered, tenantAddOns, request>>

\* softArchiveAddOn: the subscribers are counted first, the row is updated whatever happened since.
CountSubscribers(r) ==
    /\ ~archivedAt
    /\ Goto(r, "new", IF ActiveRows = {} THEN "archive" ELSE "done")
    /\ UNCHANGED <<addOnActive, archivedAt, subscription, items, remembered, tenantAddOns>>

SoftArchiveAddOn(r) ==
    /\ Goto(r, "archive", "done")
    /\ addOnActive' = FALSE /\ archivedAt' = TRUE
    /\ UNCHANGED <<subscription, items, remembered, tenantAddOns>>

-----------------------------------------------------------------------------
(* The environment.                                                        *)

\* Unpaid subscriptions keep their items and may be paid; cancelled ones are gone.
SubscriptionChanges ==
    /\ subscription # "canceled"
    /\ subscription' \in {"active", "unpaid", "canceled"} \ {subscription}
    /\ items' = [i \in DOMAIN items |-> items[i] /\ subscription' # "canceled"]
    /\ UNCHANGED <<addOnActive, archivedAt, remembered, tenantAddOns, request>>

KeyForgotten ==
    /\ remembered # NoItem
    /\ remembered' = NoItem
    /\ UNCHANGED <<addOnActive, archivedAt, subscription, items, tenantAddOns, request>>

\* A statement or a call fails, or the process dies: the request ends where it is.
AddOnRequestFails(r) ==
    /\ request[r].at \notin {"new", "done"}
    /\ request' = [request EXCEPT ![r].at = "done"]
    /\ UNCHANGED <<addOnActive, archivedAt, subscription, items, remembered, tenantAddOns>>

AddOnNext ==
    \/ \E r \in AddOnRequests :
        \/ CheckSubscription(r) \/ CheckAddOn(r) \/ CheckExisting(r)
        \/ AddItem(r) \/ InsertTenantAddOn(r)
        \/ ReadTenantAddOn(r) \/ ReadSubscription(r) \/ RemoveItem(r) \/ CancelTenantAddOn(r)
        \/ CountSubscribers(r) \/ SoftArchiveAddOn(r) \/ AddOnRequestFails(r)
    \/ SetAddOnActive \/ SubscriptionChanges \/ KeyForgotten

AddOnSpec == AddOnInit /\ [][AddOnNext]_addOnVars

-----------------------------------------------------------------------------
\* Type invariant of the add-on, its rows and items, and the requests.
AddOnTypeOK ==
    /\ addOnActive \in BOOLEAN /\ archivedAt \in BOOLEAN
    /\ subscription \in {"active", "unpaid", "canceled"}
    /\ items \in Seq(BOOLEAN) /\ Len(items) <= MaxItems
    /\ remembered \in {NoItem} \cup DOMAIN items
    /\ tenantAddOns \in Seq([item : DOMAIN items, status : {"active", "cancelled"},
                             unasked : BOOLEAN])
    /\ request \in [AddOnRequests -> [at : {"new", "check", "existing", "stripe", "insert", "subs",
                                       "remove", "update", "archive", "done"},
                                 item : {0} \cup DOMAIN items, row : {0} \cup DOMAIN tenantAddOns,
                                 live : BOOLEAN]]

\* A tenant whose add-on is cancelled is not billed for it (addOnService.ts:280-309): whatever
\* requests overlap, time out or are answered from the idempotency key, a cancelled row's item is
\* off the subscription. The exception is a deactivation that found no live subscription, which
\* asks Stripe for nothing, though an unpaid subscription keeps its items.
CancelledNotBilled ==
    \A i \in DOMAIN tenantAddOns :
        tenantAddOns[i].status = "cancelled" /\ ~tenantAddOns[i].unasked
            => ~items[tenantAddOns[i].item]
================================================================================
