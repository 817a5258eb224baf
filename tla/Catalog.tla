-------------------------------- MODULE Catalog --------------------------------
(***************************************************************************)
(* ProductService and CategoryService, next to the two stock writes of     *)
(* other components: the sale of a paid order and the restock of a         *)
(* canceled one.  Those find a product by a sku alone, whatever its        *)
(* status; the unique index on variants.sku covers the products that are   *)
(* not deleted, so a deleted product and its successor may share a sku.    *)
(*                                                                         *)
(* A product is its status and the quantities of its variants; an edit     *)
(* replaces all of them by what an admin's form holds, and an open form    *)
(* counts as a request.  Sessions, carts and payments belong to Checkout:  *)
(* here a sale is the read of a product and the write that follows.        *)
(***************************************************************************)
EXTENDS Integers, FiniteSets, Shop

CONSTANTS Names,          \* of categories
          MaxVariants,    \* of a product (the source allows 5)
          MaxProducts,    \* bound: products created
          MaxCategories,  \* bound: categories created
          MaxOrders       \* bound: orders paid

ASSUME CatalogAssumption ==
  /\ {MaxQuantity, MaxVariants} \subseteq Nat \ {0}
  /\ {MaxProducts, MaxCategories, MaxOrders} \subseteq Nat

VARIABLES products,       \* by number, in the order in which they are created
          categories,     \* the categories' names; a category is never deleted
          orders,         \* paid orders that may still be canceled
          paid,           \* used up of MaxOrders
          owed,           \* history: what forms, sales and restocks add up to
          crossed,        \* history: a product was written while another request
                          \* was about to store what it had read of it before
          strays          \* history: how a stock write hit another product than the
                          \* one sold

vars == <<products, categories, orders, paid, request, owed, crossed, strays, overlapped>>

ProductIds == 1..MaxProducts
CategoryIds == 1..MaxCategories
Idle == [at |-> "idle"]
NoProduct == [status |-> "NONE", variants |-> <<>>]

\* What a form may hold: from one variant to MaxVariants, quantities of at least 1.
Forms == UNION {[S -> 1..MaxQuantity] : S \in {T \in SUBSET Skus : Cardinality(T) \in 1..MaxVariants}}

\* Quantities are accounted for as long as neither has happened.
Accountable == ~crossed /\ strays = {}

NothingOwed == [p \in ProductIds |-> <<>>]

Created == {p \in ProductIds : products[p].status # "NONE"}
Live == {p \in ProductIds : products[p].status = "ACTIVE"}
HasSku(p, s) == s \in DOMAIN products[p].variants

Init ==
  /\ products = [p \in ProductIds |-> NoProduct]
  /\ categories = [c \in {} |-> {}]
  /\ orders = {}
  /\ paid = 0
  /\ request = [r \in Requests |-> Idle]
  /\ owed = NothingOwed
  /\ crossed = FALSE
  /\ strays = {}
  /\ overlapped = FALSE

\* A request begins.
Start(r, req) ==
  /\ request[r] = Idle
  /\ request' = [request EXCEPT ![r] = req]
  /\ overlapped' = (overlapped \/ \E q \in Requests \ {r} : request[q] # Idle)

Finish(r) == request' = [request EXCEPT ![r] = Idle] /\ UNCHANGED overlapped
-----------------------------------------------------------------------------
(* Products. *)

\* The categories of the form are read (CATEGORY_NOT_FOUND unless all are there).
BeginCreateProduct(r, form, category) ==
  /\ category \in DOMAIN categories
  /\ Start(r, [at |-> "createProduct", form |-> form])
  /\ UNCHANGED <<products, categories, orders, paid, owed, crossed, strays>>

\* Mutant: the index is not built.
DuplicateNever(p, form) == FALSE

\* The unique index on variants.sku, which leaves out deleted products.
Duplicate(p, form) == \E q \in Live \ {p} : DOMAIN form \cap DOMAIN products[q].variants # {}

\* Inserted as ACTIVE, or refused for a sku that exists.
CreateProduct(r) ==
  LET form == request[r].form
      p == Cardinality(Created) + 1
  IN /\ request[r].at = "createProduct"
     /\ p \in ProductIds
     /\ IF Duplicate(p, form) THEN UNCHANGED <<products, owed>>
        ELSE /\ products' = [products EXCEPT ![p] = [status |-> "ACTIVE", variants |-> form]]
             /\ owed' = IF Accountable THEN [owed EXCEPT ![p] = form] ELSE NothingOwed
     /\ Finish(r)
     /\ UNCHANGED <<categories, orders, paid, crossed, strays>>

\* An admin opens a product, in any status (getProductsDetail).
OpenForm(r, p) ==
  /\ p \in Created
  /\ Start(r, [at |-> "form", product |-> p, loaded |-> products[p].variants])
  /\ UNCHANGED <<products, categories, orders, paid, owed, crossed, strays>>

\* The form is submitted: only an ACTIVE product is edited.
SubmitForm(r, form) ==
  LET req == request[r]
  IN /\ req.at = "form"
     /\ request' = [request EXCEPT ![r] =
          IF req.product \in Live
          THEN [at |-> "update", product |-> req.product, loaded |-> req.loaded, form |-> form]
          ELSE Idle]
     /\ UNCHANGED <<products, categories, orders, paid, owed, crossed, strays, overlapped>>

\* The intent of an edit is the change it makes to the quantities it was shown.
Edited(p, loaded, form) ==
  [s \in DOMAIN form |-> IF s \in DOMAIN loaded \cap DOMAIN owed[p]
                         THEN owed[p][s] + form[s] - loaded[s] ELSE form[s]]

\* Requests that hold what they have read of p.
Readers(p) == {r \in Requests :
  \/ request[r].at \in {"form", "update"} /\ request[r].product = p
  \/ request[r].at = "sale" /\ request[r].order.product = p}

\* By _id alone: all variants are replaced, and the status is not looked at again.
UpdateProduct(r) ==
  LET req == request[r]
      p == req.product
  IN /\ req.at = "update"
     /\ UNCHANGED <<categories, orders, paid, strays>>
     /\ IF p \in Live /\ Duplicate(p, req.form) THEN UNCHANGED <<products, owed, crossed>>
        ELSE /\ products' = [products EXCEPT ![p].variants = req.form]
             /\ crossed' = (crossed \/ Readers(p) # {r})
             /\ owed' = IF Accountable' THEN [owed EXCEPT ![p] = Edited(p, req.loaded, req.form)]
                        ELSE NothingOwed
     /\ Finish(r)

BeginDeleteProduct(r, p) ==
  /\ p \in Live
  /\ Start(r, [at |-> "delete", product |-> p])
  /\ UNCHANGED <<products, categories, orders, paid, owed, crossed, strays>>

DeleteProduct(r) ==
  /\ request[r].at = "delete"
  /\ products' = [products EXCEPT ![request[r].product].status = "DELETED"]
  /\ Finish(r)
  /\ UNCHANGED <<categories, orders, paid, owed, crossed, strays>>
-----------------------------------------------------------------------------
(* Stock writes of the notification and of the cancellation. *)

\* Mutant: the quantity that remains is not checked.
ReadStockUnchecked(r, p, s, n) ==
  /\ HasSku(p, s)
  /\ paid < MaxOrders
  /\ paid' = paid + 1
  /\ Start(r, [at |-> "sale", read |-> products[p].variants[s],
                order |-> [id |-> paid', product |-> p, sku |-> s, n |-> n]])
  /\ UNCHANGED <<products, categories, orders, owed, crossed, strays>>

\* The product of a cart item is read by its id, in any status.
ReadStock(r, p, s, n) ==
  /\ HasSku(p, s)
  /\ n <= products[p].variants[s]
  /\ paid < MaxOrders
  /\ paid' = paid + 1
  /\ Start(r, [at |-> "sale", read |-> products[p].variants[s],
                order |-> [id |-> paid', product |-> p, sku |-> s, n |-> n]])
  /\ UNCHANGED <<products, categories, orders, owed, crossed, strays>>

\* A filter on the sku updates one product that has it; if none has, nothing.
Matches(s) == {q \in ProductIds : HasSku(q, s)}

\* Why q is written instead of p.
Stray(p, s, q) ==
  IF p = q THEN {}
  ELSE IF ~({p, q} \subseteq Live) THEN {"deleted"}
  ELSE IF ~HasSku(p, s) THEN {"moved"} ELSE {"shared"}

\* The stock of p is to change by "by": the quantity is stored in a product q that
\* matches, by a handler that may be among the readers.
StockWrite(readers, p, s, by, q, quantity) ==
  /\ products' = [products EXCEPT ![q].variants[s] = quantity]
  /\ strays' = strays \cup Stray(p, s, q)
  /\ crossed' = (crossed \/ ~(Readers(q) \subseteq readers))
  /\ owed' = IF Accountable' THEN [owed EXCEPT ![p][s] = @ + by] ELSE NothingOwed

NothingMatches(s) == Matches(s) = {} /\ UNCHANGED <<products, owed, crossed, strays>>

\* Mutant: the quantity of the cart is stored, not what it leaves.
SellKeeping(r) ==
  LET req == request[r]
      o == req.order
  IN /\ req.at = "sale"
     /\ \/ NothingMatches(o.sku)
        \/ \E q \in Matches(o.sku) : StockWrite({r}, o.product, o.sku, -o.n, q, o.n)
     /\ orders' = orders \cup {o}
     /\ Finish(r)
     /\ UNCHANGED <<categories, paid>>

\* bulkWrite with $set to what was read minus what is sold.
Sell(r) ==
  LET req == request[r]
      o == req.order
  IN /\ req.at = "sale"
     /\ \/ NothingMatches(o.sku)
        \/ \E q \in Matches(o.sku) : StockWrite({r}, o.product, o.sku, -o.n, q, req.read - o.n)
     /\ orders' = orders \cup {o}
     /\ Finish(r)
     /\ UNCHANGED <<categories, paid>>

\* cancelOrder: bulkWrite with $inc.
Restock(o) ==
  /\ o \in orders
  /\ orders' = orders \ {o}
  /\ \/ NothingMatches(o.sku)
     \/ \E q \in Matches(o.sku) :
          StockWrite({}, o.product, o.sku, o.n, q, products[q].variants[o.sku] + o.n)
  /\ UNCHANGED <<categories, paid, request, overlapped>>
-----------------------------------------------------------------------------
(* Categories. *)

\* Mutant: the check of updateCategory looks at the category itself only.
NameTakenBySelf(c, name) == c \in DOMAIN categories /\ categories[c] = name

\* Another category has the name.
NameTaken(c, name) == \E d \in DOMAIN categories \ {c} : categories[d] = name

\* The name is looked up, in createCategory among all, in updateCategory (c) among
\* the others; category c need not exist.
BeginCategory(r, c, name) ==
  /\ ~NameTaken(c, name)
  /\ Start(r, [at |-> "category", category |-> c, name |-> name])
  /\ UNCHANGED <<products, categories, orders, paid, owed, crossed, strays>>

\* create, or findOneAndUpdate (CATEGORY_NOT_FOUND when there is none).
StoreCategory(r) ==
  LET req == request[r]
      new == Cardinality(DOMAIN categories) + 1
  IN /\ req.at = "category"
     /\ \/ /\ req.category = 0
           /\ new \in CategoryIds
           /\ categories' = [c \in 1..new |-> IF c = new THEN req.name ELSE categories[c]]
        \/ /\ req.category \in DOMAIN categories
           /\ categories' = [categories EXCEPT ![req.category] = req.name]
        \/ /\ req.category \notin DOMAIN categories \cup {0}
           /\ UNCHANGED categories
     /\ Finish(r)
     /\ UNCHANGED <<products, orders, paid, owed, crossed, strays>>

\* A failing await, or an admin who closes the form.
Fail(r) ==
  /\ request[r] # Idle
  /\ Finish(r)
  /\ UNCHANGED <<products, categories, orders, paid, owed, crossed, strays>>

Next ==
  \/ \E r \in Requests :
       \/ \E form \in Forms, c \in CategoryIds : BeginCreateProduct(r, form, c)
       \/ \E p \in ProductIds : OpenForm(r, p) \/ BeginDeleteProduct(r, p)
       \/ \E form \in Forms : SubmitForm(r, form)
       \/ \E p \in ProductIds, s \in Skus, n \in 1..MaxQuantity : ReadStock(r, p, s, n)
       \/ \E c \in CategoryIds \cup {0}, name \in Names : BeginCategory(r, c, name)
       \/ CreateProduct(r) \/ UpdateProduct(r) \/ DeleteProduct(r)
       \/ Sell(r) \/ StoreCategory(r) \/ Fail(r)
  \/ \E o \in orders : Restock(o)

Spec == Init /\ [][Next]_vars
-----------------------------------------------------------------------------
\* Properties.

CatalogTypeOK ==
  /\ \A p \in ProductIds :
       /\ products[p].status \in {"NONE", "ACTIVE", "DELETED"}
       /\ DOMAIN products[p].variants \subseteq Skus
       /\ \A s \in DOMAIN products[p].variants : products[p].variants[s] \in Nat
  /\ DOMAIN categories \subseteq CategoryIds
  /\ \A c \in DOMAIN categories : categories[c] \in Names
  /\ paid \in 0..MaxOrders
  /\ orders \subseteq [id : 1..MaxOrders, product : ProductIds, sku : Skus, n : 1..MaxQuantity]
  /\ strays \subseteq {"deleted", "moved", "shared"}
  /\ {crossed, overlapped} \subseteq BOOLEAN

\* "filter: { 'variants.sku': sku }" (payos.strategy.ts:182, order.service.ts:315)
\* updates the product that was sold, unless one of the two has been deleted or the
\* sku was moved in between: no two products on sale ever share it.
NoSharedSku == "shared" \notin strays

\* Until a product is written under a form or a sale that has read it, or a deleted
\* product is hit, what is sold stays sold: every quantity is what the forms, the
\* sales and the cancellations add up to.
SoldStaysSold == Accountable => \A p \in ProductIds : products[p].variants = owed[p]

\* As long as requests came one at a time, no two categories have the same name
\* (CATEGORY_ALREADY_EXIST, CATEGORY_NAME_DUPLICATED).
CategoryNamesUnique ==
  ~overlapped => \A c, d \in DOMAIN categories : categories[c] = categories[d] => c = d
=============================================================================
