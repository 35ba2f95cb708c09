------------------------------- MODULE Catalogue -------------------------------
(***************************************************************************)
(* What is sold under one product: createPlan with the Stripe product it   *)
(* makes on first use (planCatalogService.ts), createAddOn                 *)
(* (addOnService.ts) and createDiscount (discountService.ts).  Each call   *)
(* looks for its key, has Stripe make an object and inserts a row that     *)
(* names it; nothing holds the statements of a call together, and its      *)
(* Stripe calls are given up, but not taken back, after five seconds.      *)
(*                                                                         *)
(* External: Stripe answers an idempotency key for a day with the object   *)
(* it made, and with an error if the parameters are others.                *)
(***************************************************************************)
EXTENDS Naturals, Sequences

CONSTANTS
    Creations,          \* calls of createPlan, createAddOn and createDiscount
    Wanted,             \* what each one asks for: kind, key (or name) and amount
    NoObject,           \* no object at Stripe
    MaxObjects          \* bound: products, and prices, that Stripe makes

Kinds == {"plan", "addOn", "discount"}

ASSUME CatalogueAssumption ==
    /\ NoObject \notin Nat /\ MaxObjects \in Nat
    /\ DOMAIN Wanted = Creations
    /\ \A c \in Creations : Wanted[c].kind \in Kinds

VARIABLES
    stripeProductId,    \* products.stripe_product_id
    stripeProducts,     \* how many products Stripe has made for the Hub's product
    productAnswer,      \* the one it answers the key create-product:<product> with
    stripePrices,       \* Stripe's prices and coupons, by id: their product and amount
    priceAnswer,        \* the one it answers the key of a kind and key with
    catalogue,          \* plans, add_ons and discounts of the product
    creation            \* where each call is, and the Stripe objects it was given

catalogueVars == <<stripeProductId, stripeProducts, productAnswer, stripePrices, priceAnswer,
                   catalogue, creation>>

Slot(c) == <<Wanted[c].kind, Wanted[c].key>>
Slots == {Slot(c) : c \in Creations}

CatalogueInit ==
    /\ stripeProductId = NoObject
    /\ stripeProducts = 0 /\ productAnswer = NoObject
    /\ stripePrices = <<>> /\ priceAnswer = [s \in Slots |-> NoObject]
    /\ catalogue = {}
    /\ creation = [c \in Creations |-> [at |-> "new", product |-> NoObject, price |-> NoObject]]

Proceed(c, from, to) ==
    /\ creation[c].at = from
    /\ creation' = [creation EXCEPT ![c].at = to]

-----------------------------------------------------------------------------
(* The calls.                                                              *)

Listed(c) == \E row \in catalogue : row.slot = Slot(c)

\* A plan or an add-on that exists is the answer.
FindRow(c) ==
    /\ Wanted[c].kind # "discount"
    /\ Proceed(c, "new", IF Listed(c) THEN "done" ELSE "product")
    /\ UNCHANGED <<stripeProductId, stripeProducts, productAnswer, stripePrices, priceAnswer, catalogue>>

\* A discount that exists is a 409; its coupon needs no product.
FindDiscount(c) ==
    /\ Wanted[c].kind = "discount"
    /\ Proceed(c, "new", IF Listed(c) THEN "done" ELSE "price")
    /\ UNCHANGED <<stripeProductId, stripeProducts, productAnswer, stripePrices, priceAnswer, catalogue>>

\* createPlan makes the Stripe product if there is none.
ReadProduct(c, otherwise) ==
    /\ creation[c].at = "product"
    /\ creation' = [creation EXCEPT
            ![c].product = stripeProductId,
            ![c].at = IF stripeProductId # NoObject THEN "price" ELSE otherwise]
    /\ UNCHANGED <<stripeProductId, stripeProducts, productAnswer, stripePrices, priceAnswer, catalogue>>

FindProduct(c) == Wanted[c].kind = "plan" /\ ReadProduct(c, "make")

\* An add-on for which there is none is a 400.
FindAddOnProduct(c) == Wanted[c].kind = "addOn" /\ ReadProduct(c, "done")

\* Mutant: the call has no idempotency key.
MakeProductAnew(c) ==
    /\ creation[c].at = "make" /\ stripeProducts < MaxObjects
    /\ stripeProducts' = stripeProducts + 1
    /\ creation' = [creation EXCEPT ![c].product = stripeProducts', ![c].at = "save"]
    /\ UNCHANGED <<stripeProductId, productAnswer, stripePrices, priceAnswer, catalogue>>

\* The answer may come too late, in which case the call throws.
MakeProduct(c) ==
    /\ creation[c].at = "make"
    /\ IF productAnswer # NoObject
       THEN UNCHANGED <<stripeProducts, productAnswer>>
       ELSE /\ stripeProducts < MaxObjects
            /\ stripeProducts' = stripeProducts + 1 /\ productAnswer' = stripeProducts + 1
    /\ \E inTime \in BOOLEAN :
        creation' = [creation EXCEPT ![c].product = productAnswer',
                                     ![c].at = IF inTime THEN "save" ELSE "done"]
    /\ UNCHANGED <<stripeProductId, stripePrices, priceAnswer, catalogue>>

\* The column is written whatever it has become since it was read.
SaveProduct(c) ==
    /\ Proceed(c, "save", "price")
    /\ stripeProductId' = creation[c].product
    /\ UNCHANGED <<stripeProducts, productAnswer, stripePrices, priceAnswer, catalogue>>

Offer(c) == [product |-> creation[c].product, amount |-> Wanted[c].amount]

\* A price or a coupon: made, answered again, refused for its other parameters, or too late.
MakePrice(c) ==
    LET known == priceAnswer[Slot(c)]
    IN /\ creation[c].at = "price"
       /\ IF known # NoObject
          THEN UNCHANGED <<stripePrices, priceAnswer>>
          ELSE /\ Len(stripePrices) < MaxObjects
               /\ stripePrices' = Append(stripePrices, Offer(c))
               /\ priceAnswer' = [priceAnswer EXCEPT ![Slot(c)] = Len(stripePrices) + 1]
       /\ \E inTime \in BOOLEAN :
            LET taken == inTime /\ stripePrices'[priceAnswer'[Slot(c)]] = Offer(c)
            IN creation' = [creation EXCEPT ![c].price = priceAnswer'[Slot(c)],
                                            ![c].at = IF taken THEN "insert" ELSE "done"]
       /\ UNCHANGED <<stripeProductId, stripeProducts, productAnswer, catalogue>>

\* (product_id, key) and the Stripe id are unique: an INSERT that meets either throws.
InsertRow(c) ==
    LET new == [slot |-> Slot(c), amount |-> Wanted[c].amount, price |-> creation[c].price]
    IN /\ Proceed(c, "insert", "done")
       /\ catalogue' = IF \E row \in catalogue : row.slot = new.slot \/ row.price = new.price
                       THEN catalogue ELSE catalogue \cup {new}
       /\ UNCHANGED <<stripeProductId, stripeProducts, productAnswer, stripePrices, priceAnswer>>

\* A statement or a call fails, or the process dies.
CreationFails(c) ==
    /\ creation[c].at \notin {"new", "done"}
    /\ creation' = [creation EXCEPT ![c].at = "done"]
    /\ UNCHANGED <<stripeProductId, stripeProducts, productAnswer, stripePrices, priceAnswer, catalogue>>

\* External: Stripe forgets after a day, and no call runs for a day.
KeysForgotten ==
    /\ \A c \in Creations : creation[c].at \in {"new", "done"}
    /\ productAnswer' = NoObject /\ priceAnswer' = [s \in DOMAIN priceAnswer |-> NoObject]
    /\ UNCHANGED <<stripeProductId, stripeProducts, stripePrices, catalogue, creation>>

CatalogueNext ==
    \/ \E c \in Creations :
        \/ FindRow(c) \/ FindDiscount(c) \/ FindProduct(c) \/ FindAddOnProduct(c) \/ MakeProduct(c) \/ SaveProduct(c)
        \/ MakePrice(c) \/ InsertRow(c) \/ CreationFails(c)
    \/ KeysForgotten

CatalogueSpec == CatalogueInit /\ [][CatalogueNext]_catalogueVars

-----------------------------------------------------------------------------
Amounts == {Wanted[c].amount : c \in Creations}
ProductIds == 1..stripeProducts \cup {NoObject}
PriceIds == 1..Len(stripePrices) \cup {NoObject}
CreationState == [at : {"new", "product", "make", "save", "price", "insert", "done"},
                  product : ProductIds, price : PriceIds]

\* Type invariant of the catalogue, the objects at Stripe and the calls.
CatalogueTypeOK ==
    /\ stripeProducts \in 0..MaxObjects
    /\ stripeProductId \in ProductIds /\ productAnswer \in ProductIds
    /\ stripePrices \in Seq([product : ProductIds, amount : Amounts])
    /\ Len(stripePrices) <= MaxObjects
    /\ priceAnswer \in [Slots -> PriceIds]
    /\ catalogue \subseteq [slot : Slots, amount : Amounts, price : PriceIds \ {NoObject}]
    /\ creation \in [Creations -> CreationState]

\* Whatever first creations race, fail half-way or are answered again, all plans and add-ons of a
\* product are sold under its one Stripe product (planCatalogService.ts:119-120, "to avoid duplicate
\* Stripe Products"), each at the price, and a discount with the coupon, it was created with.
CatalogueMatchesStripe ==
    \A row \in catalogue :
        stripePrices[row.price] =
            [product |-> IF row.slot[1] = "discount" THEN NoObject ELSE stripeProductId,
             amount |-> row.amount]
================================================================================
