-------------------------------- MODULE Cart --------------------------------
(***************************************************************************)
(* The cart of one customer: CartService.addToCart, getCart, updateCart    *)
(* and deleteItemInCart, and the step of a payment notification that takes *)
(* the ordered items out (processWebhookOrder, momo processWebhook).  Each *)
(* reads the cart, computes new items and a new total, and stores both,    *)
(* with awaits in between and no session or version that orders them.      *)
(*                                                                         *)
(* The order of cart.items is not kept: an item is found by its sku.       *)
(***************************************************************************)
EXTENDS Integers, Sequences, FiniteSets, Functions, Shop

CONSTANTS InitialVariants,  \* per sku, what the shop offers at the start
          Variants,         \* what an edit of a product may make of a sku
          MaxEdits          \* bound: edits of products in a behaviour

\* A sku that its product no longer has.
Gone == [price |-> 0, quantity |-> -1]

ASSUME CartAssumption ==
  /\ IsFiniteSet(Skus)
  /\ MaxQuantity \in Nat /\ MaxEdits \in Nat
  /\ Variants \subseteq [price : Nat, quantity : Nat]
  /\ InitialVariants \in [Skus -> [price : Nat, quantity : Nat]]

VARIABLES variant,   \* product.variants[], by sku
          carts,     \* the customer's cart documents, oldest first
          edits

cartVars == <<variant, carts, request, edits, overlapped>>

NoItems == [s \in Skus |-> 0]
EmptyCart == [items |-> NoItems, totalAmount |-> 0]
CartIdle == [op |-> "none", at |-> "idle", skus |-> {}, quantity |-> 0, amount |-> 0,
             remain |-> 0, cart |-> EmptyCart]

\* findOne({customerId}): customerId is indexed but not unique; of several
\* documents every handler gets the oldest.
Exists == carts # <<>>
Present == {s \in Skus : carts[1].items[s] > 0}

Price(items) == SumFunction([s \in Skus |-> variant[s].price * items[s]])
Only(items, skus) == [s \in Skus |-> IF s \in skus THEN items[s] ELSE 0]
\* Mutant: the whole cart is emptied.
WithoutAll(items, skus) == NoItems
Without(items, skus) == [s \in Skus |-> IF s \in skus THEN 0 ELSE items[s]]

CartInit ==
  /\ variant = InitialVariants
  /\ carts \in {<<>>, <<EmptyCart>>}
  /\ request = [r \in Requests |-> CartIdle]
  /\ edits = 0
  /\ overlapped = FALSE

StartOnCart(r, rec) ==
  /\ request[r] = CartIdle
  /\ request' = [request EXCEPT ![r] = rec]
  /\ overlapped' = (overlapped \/ \E q \in Requests \ {r} : request[q] # CartIdle)
FinishOnCart(r) == request' = [request EXCEPT ![r] = CartIdle]

\* The document r will store, once its last await is over.
Store(r, items, total) ==
  request' = [request EXCEPT ![r].at = "write",
                             ![r].cart = [items |-> items, totalAmount |-> total]]
Create(r, items, total) ==
  request' = [request EXCEPT ![r].at = "create",
                             ![r].cart = [items |-> items, totalAmount |-> total]]
-----------------------------------------------------------------------------
\* addToCart reads the product first, then the cart.

BeginAdd(r, s, q) ==
  /\ variant[s] # Gone                   \* else PRODUCT_NOT_FOUND
  /\ StartOnCart(r, [CartIdle EXCEPT !.op = "addToCart", !.at = "findCart", !.skus = {s},
                                     !.quantity = q, !.amount = variant[s].price * q,
                                     !.remain = variant[s].quantity])
  /\ UNCHANGED <<variant, carts, edits>>

AddToCart(r) ==
  /\ request[r].at = "findCart"
  /\ LET q == request[r].quantity
         had == IF Exists THEN carts[1].items ELSE NoItems
         items == [s \in Skus |-> IF s \in request[r].skus THEN had[s] + q ELSE had[s]]
         fits == \A s \in request[r].skus : items[s] <= request[r].remain
     IN \/ fits /\ Exists /\ Store(r, items, carts[1].totalAmount + request[r].amount)
        \/ fits /\ ~Exists /\ Create(r, items, request[r].amount)
        \/ ~fits /\ FinishOnCart(r)      \* NOT_ENOUGH_QUANTITY_IN_STOCK
  /\ UNCHANGED <<variant, carts, edits, overlapped>>

GetCart(r) ==
  /\ ~Exists
  /\ StartOnCart(r, [CartIdle EXCEPT !.op = "getCart", !.at = "create"])
  /\ UNCHANGED <<variant, carts, edits>>
-----------------------------------------------------------------------------
\* updateCart, deleteItemInCart and a paid notification read the cart first; the
\* products of its items are read by a second query (populate).

BeginChange(r, op, skus, q) ==
  /\ Exists
  /\ skus # {} /\ skus \subseteq Present     \* else CART_ITEM_INVALID, ORDER_ITEMS_INVALID
  /\ op \in {"updateCart", "deleteItemInCart"} => \E s \in skus : skus = {s}
  /\ StartOnCart(r, [CartIdle EXCEPT !.op = op, !.at = "populate", !.skus = skus,
                                     !.quantity = q, !.cart = carts[1]])
  /\ UNCHANGED <<variant, carts, edits>>

\* Mutant: the quantity is subtracted, not stored.
UpdateBySubtraction(r) ==
  /\ request[r].at = "populate" /\ request[r].op = "updateCart"
  /\ LET q == request[r].quantity
         had == request[r].cart.items
         items == [s \in Skus |-> IF s \in request[r].skus THEN had[s] - q ELSE had[s]]
     IN Store(r, items, Price(items))
  /\ UNCHANGED <<variant, carts, edits, overlapped>>

UpdateCart(r) ==
  /\ request[r].at = "populate" /\ request[r].op = "updateCart"
  /\ LET q == request[r].quantity
         skus == request[r].skus
         had == request[r].cart.items
         items == [s \in Skus |-> IF s \in skus THEN q ELSE had[s]]
         fits == \A s \in skus : variant[s] # Gone /\ q <= variant[s].quantity
     IN \/ fits /\ Store(r, items, request[r].cart.totalAmount
                                   + Price(Only(items, skus)) - Price(Only(had, skus)))
        \/ ~fits /\ FinishOnCart(r)
  /\ UNCHANGED <<variant, carts, edits, overlapped>>

\* Of a Gone sku the destructured variant is undefined: the handler throws.
DeleteItemInCart(r) ==
  /\ request[r].at = "populate" /\ request[r].op = "deleteItemInCart"
  /\ LET skus == request[r].skus
         had == request[r].cart.items
     IN \/ /\ \A s \in skus : variant[s] # Gone
           /\ Store(r, Without(had, skus), request[r].cart.totalAmount - Price(Only(had, skus)))
        \/ /\ \E s \in skus : variant[s] = Gone
           /\ FinishOnCart(r)
  /\ UNCHANGED <<variant, carts, edits, overlapped>>

CaptureItems(r) ==
  /\ request[r].at = "populate" /\ request[r].op = "processWebhook"
  /\ LET skus == request[r].skus
         had == request[r].cart.items
         fits == \A s \in skus : variant[s] # Gone /\ had[s] <= variant[s].quantity
     IN \/ fits /\ Store(r, Without(had, skus), request[r].cart.totalAmount - Price(Only(had, skus)))
        \/ ~fits /\ FinishOnCart(r)
  /\ UNCHANGED <<variant, carts, edits, overlapped>>
-----------------------------------------------------------------------------
\* Mutant: totalAmount is left out of the update.
WriteItems(r) ==
  /\ request[r].at = "write"
  /\ carts' = [carts EXCEPT ![1].items = request[r].cart.items]
  /\ FinishOnCart(r)
  /\ UNCHANGED <<variant, edits, overlapped>>

\* cartRepository.findOneAndUpdate({_id}): items and totalAmount together.  The
\* one of a notification is in its session, and waited for by the others.
WriteCart(r) ==
  /\ request[r].at = "write"
  /\ carts' = [carts EXCEPT ![1] = request[r].cart]
  /\ FinishOnCart(r)
  /\ UNCHANGED <<variant, edits, overlapped>>

CreateCart(r) ==
  /\ request[r].at = "create"
  /\ carts' = Append(carts, request[r].cart)
  /\ FinishOnCart(r)
  /\ UNCHANGED <<variant, edits, overlapped>>

\* A failing await, or a notification that is aborted.
CartFails(r) ==
  /\ request[r] # CartIdle
  /\ FinishOnCart(r)
  /\ UNCHANGED <<variant, carts, edits, overlapped>>

\* ProductService.updateProduct, which replaces the variants, and the stock
\* writes of Checkout.
EditProduct(s, v) ==
  /\ edits < MaxEdits
  /\ v # variant[s]
  /\ variant' = [variant EXCEPT ![s] = v]
  /\ edits' = edits + 1
  /\ UNCHANGED <<carts, request, overlapped>>
-----------------------------------------------------------------------------
Begin(r) ==
  \/ GetCart(r)
  \/ \E s \in Skus, q \in 1..MaxQuantity : BeginAdd(r, s, q)
  \/ \E op \in {"updateCart", "deleteItemInCart", "processWebhook"},
        skus \in SUBSET Skus, q \in 1..MaxQuantity : BeginChange(r, op, skus, q)

CartNext ==
  \/ \E r \in Requests :
       \/ Begin(r) \/ AddToCart(r) \/ UpdateCart(r) \/ DeleteItemInCart(r) \/ CaptureItems(r)
       \/ WriteCart(r) \/ CreateCart(r) \/ CartFails(r)
  \/ \E s \in Skus, v \in Variants \cup {Gone} : EditProduct(s, v)

CartSpec == CartInit /\ [][CartNext]_cartVars
-----------------------------------------------------------------------------
\* Properties.

CartDocument == [items : [Skus -> Nat], totalAmount : Int]

CartTypeOK ==
  /\ variant \in [Skus -> [price : Nat, quantity : Nat \cup {-1}]]
  /\ carts \in Seq(CartDocument)
  /\ request \in [Requests ->
       [op : {"none", "addToCart", "getCart", "updateCart", "deleteItemInCart", "processWebhook"},
        at : {"idle", "findCart", "populate", "write", "create"},
        skus : SUBSET Skus, quantity : Nat, amount : Nat, remain : Nat, cart : CartDocument]]
  /\ edits \in 0..MaxEdits
  /\ overlapped \in BOOLEAN

\* While no product is edited, racing handlers may lose each other's changes, but
\* never make a cart's total disagree with its items, nor put more of a sku in a cart
\* than there is: each stored quantity was checked against the stock as a whole.
CartsAddUp ==
  edits = 0 => \A i \in DOMAIN carts :
    /\ carts[i].totalAmount = Price(carts[i].items)
    /\ \A s \in Skus : carts[i].items[s] <= variant[s].quantity

\* As long as the customer's requests came one at a time, a handler changes the
\* quantities it was asked to change and no other ("Update totalAmount, quantity in
\* existed item", cart.service.ts:134).
WritesOnlyItsItems ==
  [][\A r \in Requests : WriteCart(r) /\ ~overlapped =>
       \A s \in Skus \ request[r].skus : carts'[1].items[s] = carts[1].items[s]]_cartVars
=============================================================================
