----------------------------- MODULE Shop_proofs -----------------------------
(***************************************************************************)
(* Theorems about the two parts of the shop.  Catalog, for any requests    *)
(* and skus, forms, products and orders: products are created under        *)
(* consecutive ids, no two on sale share a sku, and as long as no product  *)
(* is written past a reader each reader knows what it is, so every write   *)
(* changes it by what it was meant to.                                     *)
(* Cart, for any requests, finite set of skus and offers: as long as no    *)
(* product is edited, all that a handler has read of a cart or computed    *)
(* adds up, and not just what is stored.                                   *)
(***************************************************************************)
EXTENDS Catalog, Cart, FiniteSetTheorems, TLAPS

\* For the lemmas about sums; a cart has no sessions, so any variables do for those of
\* MongoSession.
Shared == INSTANCE SharedLemmas WITH held <- carts, stale <- request
-----------------------------------------------------------------------------
(* The catalogue: the invariant. *)

VariantMaps == UNION {[S -> Nat] : S \in SUBSET Skus}
ProductRecord == [status : {"NONE", "ACTIVE", "DELETED"}, variants : VariantMaps]
OrderRecord == [id : 1..MaxOrders, product : ProductIds, sku : Skus, n : 1..MaxQuantity]

\* The products created are numbered from 1; those on sale share no sku; until one of
\* them is written past a reader or in the place of another, each is what is owed.
ProductsOK ==
  /\ products \in [ProductIds -> ProductRecord]
  /\ \E n \in Nat : Created = 1..n
  /\ \A p \in ProductIds \ Created : DOMAIN products[p].variants = {}
  /\ \A p, q \in Live : p # q => DOMAIN products[p].variants \cap DOMAIN products[q].variants = {}
  /\ DOMAIN owed = ProductIds
  /\ SoldStaysSold

\* Stock writes are about a product that was created.
OrdersOK ==
  /\ orders \subseteq OrderRecord
  /\ \A o \in orders : o.product \in Created

\* What a request carries from one await to the next.
Carries(r) ==
  LET req == request[r]
  IN /\ req.at \in {"createProduct", "update"} => req.form \in Forms
     /\ req.at \in {"form", "update", "delete"} => req.product \in Created
     /\ req.at = "sale" => /\ req.order \in OrderRecord /\ req.order.product \in Created
                           /\ req.read \in Nat /\ req.order.n <= req.read
     /\ req.at = "category" => req.category \in CategoryIds \cup {0} /\ req.name \in Names

\* As long as no product was written past a reader, what was read of it is what it is.
ReadIsCurrent(r) ==
  LET req == request[r]
  IN /\ req.at \in {"form", "update"} => req.loaded = products[req.product].variants
     /\ req.at = "sale" => /\ HasSku(req.order.product, req.order.sku)
                           /\ req.read = products[req.order.product].variants[req.order.sku]

RequestsOK ==
  /\ DOMAIN request = Requests
  /\ \A r \in Requests : Carries(r)
  /\ ~crossed => \A r \in Requests : ReadIsCurrent(r)

CategoriesOK ==
  /\ \E n \in 0..MaxCategories : DOMAIN categories = 1..n
  /\ \A c \in DOMAIN categories : categories[c] \in Names

\* A name that was free when it was looked up still is, if there is one request.
OneAtATime ==
  /\ \A r, q \in Requests : r # q => request[r] = Idle \/ request[q] = Idle
  /\ \A r \in Requests : request[r].at = "category" =>
       ~NameTaken(request[r].category, request[r].name)
  /\ \A c, d \in DOMAIN categories : categories[c] = categories[d] => c = d

CatalogInv ==
  /\ ProductsOK
  /\ OrdersOK
  /\ RequestsOK
  /\ CategoriesOK
  /\ ~overlapped => OneAtATime
  /\ paid \in 0..MaxOrders
  /\ strays \subseteq {"deleted", "moved"}
  /\ crossed \in BOOLEAN /\ overlapped \in BOOLEAN

\* Everything the runs check follows.
LEMMA CatalogInvImplies ==
  ASSUME CatalogInv
  PROVE  CatalogTypeOK /\ NoSharedSku /\ SoldStaysSold /\ CategoryNamesUnique
  <1>1. ASSUME NEW p \in ProductIds
        PROVE  /\ products[p].status \in {"NONE", "ACTIVE", "DELETED"}
               /\ DOMAIN products[p].variants \subseteq Skus
               /\ \A s \in DOMAIN products[p].variants : products[p].variants[s] \in Nat
    BY DEF CatalogInv, ProductsOK, ProductRecord, VariantMaps
  <1>2. DOMAIN categories \subseteq CategoryIds
    BY CatalogAssumption DEF CatalogInv, CategoriesOK, CategoryIds
  <1>3. CatalogTypeOK
    BY <1>1, <1>2 DEF CatalogInv, CategoriesOK, OrdersOK, OrderRecord, CatalogTypeOK
  <1>4. NoSharedSku /\ SoldStaysSold /\ CategoryNamesUnique
    BY DEF CatalogInv, ProductsOK, NoSharedSku, CategoryNamesUnique, OneAtATime
  <1> QED BY <1>3, <1>4

\* An empty shop.
LEMMA CatalogInit == Init => CatalogInv
  <1> SUFFICES ASSUME Init PROVE CatalogInv
    OBVIOUS
  <1>1. NoProduct \in ProductRecord /\ NoProduct.status = "NONE" /\ DOMAIN NoProduct.variants = {}
    <2>1. <<>> \in [{} -> Nat] /\ DOMAIN <<>> = {}
      OBVIOUS
    <2>2. <<>> \in VariantMaps
      BY <2>1 DEF VariantMaps
    <2> QED BY <2>1, <2>2 DEF NoProduct, ProductRecord
  <1>2. \A p \in ProductIds : products[p] = NoProduct /\ owed[p] = NoProduct.variants
    BY DEF Init, NothingOwed, NoProduct
  <1>3. Created = 1..0 /\ Live = {}
    BY <1>1, <1>2 DEF Created, Live
  <1>4. ProductsOK
    <2>1. products \in [ProductIds -> ProductRecord] /\ DOMAIN owed = ProductIds
      BY <1>1 DEF Init, NothingOwed
    <2>2. \E n \in Nat : Created = 1..n
      BY <1>3
    <2>3. SoldStaysSold
      BY <1>2 DEF SoldStaysSold
    <2> QED BY <1>1, <1>2, <1>3, <2>1, <2>2, <2>3 DEF ProductsOK
  <1>5. DOMAIN request = Requests /\ \A r \in Requests : request[r].at = "idle" /\ request[r] = Idle
    BY DEF Init, Idle
  <1>6. OrdersOK /\ RequestsOK
    BY <1>5 DEF Init, OrdersOK, RequestsOK, Carries, ReadIsCurrent
  <1>7. DOMAIN categories = {} /\ DOMAIN categories = 1..0 /\ 0 \in 0..MaxCategories
    BY CatalogAssumption DEF Init
  <1>8. CategoriesOK
    BY <1>7 DEF CategoriesOK
  <1>9. OneAtATime
    BY <1>5, <1>7 DEF OneAtATime
  <1>10. /\ paid \in 0..MaxOrders /\ strays = {} /\ crossed \in BOOLEAN /\ overlapped \in BOOLEAN
    <2>1. crossed = FALSE /\ overlapped = FALSE /\ strays = {}
      BY DEF Init
    <2>2. paid = 0 /\ MaxOrders \in Nat
      BY CatalogAssumption DEF Init
    <2>3. crossed \in BOOLEAN /\ overlapped \in BOOLEAN
      BY <2>1
    <2>4. 0 \in 0..MaxOrders
      BY <2>2
    <2> QED BY <2>1, <2>2, <2>3, <2>4
  <1> QED BY <1>4, <1>6, <1>8, <1>9, <1>10 DEF CatalogInv
-----------------------------------------------------------------------------
(* Requests. *)

\* A request starts, goes on or ends, and nothing else is written: what it now carries
\* has to be right.
LEMMA GoesOn ==
  ASSUME CatalogInv, NEW r \in Requests, NEW next, request' = [request EXCEPT ![r] = next],
         UNCHANGED <<products, categories, orders, owed, crossed, strays>>,
         paid' \in 0..MaxOrders, overlapped' \in BOOLEAN, overlapped => overlapped',
         next.at \in {"createProduct", "update"} => next.form \in Forms,
         next.at \in {"form", "update", "delete"} => next.product \in Created,
         next.at = "sale" => /\ next.order \in OrderRecord /\ next.order.product \in Created
                             /\ next.read \in Nat /\ next.order.n <= next.read,
         next.at = "category" => next.category \in CategoryIds \cup {0} /\ next.name \in Names,
         ~crossed => 
           /\ next.at \in {"form", "update"} => next.loaded = products[next.product].variants
           /\ next.at = "sale" => /\ HasSku(next.order.product, next.order.sku)
                                  /\ next.read = products[next.order.product].variants[next.order.sku],
         ~overlapped' => /\ next = Idle \/ \A q \in Requests \ {r} : request[q] = Idle
                         /\ next.at = "category" => ~NameTaken(next.category, next.name)
  PROVE  CatalogInv'
  <1>1. request'[r] = next /\ \A q \in Requests \ {r} : request'[q] = request[q]
    BY DEF CatalogInv, RequestsOK
  <1>2. Created' = Created /\ Live' = Live
    BY DEF Created, Live
  <1>3. ProductsOK'
    BY <1>2 DEF CatalogInv, ProductsOK, SoldStaysSold, Accountable
  <1>4. OrdersOK'
    BY <1>2 DEF CatalogInv, OrdersOK
  <1>5. ASSUME NEW q \in Requests PROVE Carries(q)'
    BY <1>1, <1>2 DEF CatalogInv, RequestsOK, Carries
  <1>6. ASSUME ~crossed', NEW q \in Requests PROVE ReadIsCurrent(q)'
    BY <1>1, <1>6 DEF CatalogInv, RequestsOK, ReadIsCurrent, HasSku
  <1>7. RequestsOK'
    <2>1. DOMAIN request' = Requests
      BY DEF CatalogInv, RequestsOK
    <2> QED BY <2>1, <1>5, <1>6 DEF RequestsOK
  <1>8. ASSUME ~overlapped' PROVE OneAtATime'
    <2>1. OneAtATime
      BY <1>8 DEF CatalogInv
    <2>2. ASSUME NEW q \in Requests, NEW p \in Requests, p # q
          PROVE  request'[q] = Idle \/ request'[p] = Idle
      BY <1>1, <1>8, <2>1, <2>2 DEF OneAtATime
    <2>3. ASSUME NEW q \in Requests, request'[q].at = "category"
          PROVE  ~NameTaken(request'[q].category, request'[q].name)
      BY <1>1, <1>8, <2>1, <2>3 DEF OneAtATime
    <2> QED BY <2>1, <2>2, <2>3 DEF OneAtATime, NameTaken, Idle
  <1>9. CategoriesOK'
    BY DEF CatalogInv, CategoriesOK
  <1> QED BY <1>3, <1>4, <1>7, <1>8, <1>9 DEF CatalogInv

\* A request that is not there is at no await.
LEMMA IdleAt == Idle.at = "idle"
  BY DEF Idle

\* A request that ends without having written anything.
LEMMA FinishKeeps ==
  ASSUME CatalogInv, NEW r \in Requests, Finish(r),
         UNCHANGED <<products, categories, orders, paid, owed, crossed, strays>>
  PROVE  CatalogInv'
  <1>1. PICK next : next = Idle
    OBVIOUS
  <1>2. next.at = "idle"
    BY <1>1, IdleAt
  <1>3. request' = [request EXCEPT ![r] = next] /\ overlapped' = overlapped
    BY <1>1 DEF Finish
  <1>4. overlapped' \in BOOLEAN /\ paid' \in 0..MaxOrders
    BY <1>3 DEF CatalogInv
  <1> QED BY <1>1, <1>2, <1>3, <1>4, GoesOn

\* A request that starts knows of every other.
LEMMA StartOverlaps ==
  ASSUME CatalogInv, NEW r \in Requests, NEW next, Start(r, next)
  PROVE  /\ request' = [request EXCEPT ![r] = next]
         /\ overlapped' \in BOOLEAN /\ (overlapped => overlapped')
         /\ ~overlapped' => \A q \in Requests \ {r} : request[q] = Idle
  BY DEF CatalogInv, Start

\* What is on sale, or has a sku, was created.
LEMMA CreatedProduct ==
  ASSUME CatalogInv, NEW p \in ProductIds
  PROVE  /\ p \in Live => p \in Created
         /\ \A s : HasSku(p, s) => p \in Created /\ s \in Skus /\ products[p].variants[s] \in Nat
  <1>1. p \in Live => p \in Created
    BY DEF Live, Created
  <1>2. ASSUME NEW s, HasSku(p, s)
        PROVE  p \in Created /\ s \in Skus /\ products[p].variants[s] \in Nat
    BY <1>2 DEF HasSku, CatalogInv, ProductsOK, ProductRecord, VariantMaps
  <1> QED BY <1>1, <1>2

\* What begins reads what is there.
LEMMA BeginStep ==
  ASSUME CatalogInv, NEW r \in Requests,
         \/ \E form \in Forms, c \in CategoryIds : BeginCreateProduct(r, form, c)
         \/ \E p \in ProductIds : OpenForm(r, p) \/ BeginDeleteProduct(r, p)
         \/ \E c \in CategoryIds \cup {0}, name \in Names : BeginCategory(r, c, name)
  PROVE  CatalogInv'
  <1>1. ASSUME NEW form \in Forms, NEW c \in CategoryIds, BeginCreateProduct(r, form, c)
        PROVE  CatalogInv'
    <2>1. PICK next : next = [at |-> "createProduct", form |-> form]
      OBVIOUS
    <2>2. next.at = "createProduct" /\ next.form = form
      BY <2>1
    <2>3. Start(r, next) /\ UNCHANGED <<products, categories, orders, paid, owed, crossed, strays>>
      BY <1>1, <2>1 DEF BeginCreateProduct
    <2>4. paid' \in 0..MaxOrders
      BY <2>3 DEF CatalogInv
    <2> QED BY <2>2, <2>3, <2>4, StartOverlaps, GoesOn
  <1>2. ASSUME NEW p \in ProductIds, OpenForm(r, p) PROVE CatalogInv'
    <2>1. PICK next : next = [at |-> "form", product |-> p, loaded |-> products[p].variants]
      OBVIOUS
    <2>2. next.at = "form" /\ next.product = p /\ next.loaded = products[p].variants
      BY <2>1
    <2>3. p \in Created /\ Start(r, next)
            /\ UNCHANGED <<products, categories, orders, paid, owed, crossed, strays>>
      BY <1>2, <2>1 DEF OpenForm
    <2>4. paid' \in 0..MaxOrders
      BY <2>3 DEF CatalogInv
    <2> QED BY <2>2, <2>3, <2>4, StartOverlaps, GoesOn
  <1>3. ASSUME NEW p \in ProductIds, BeginDeleteProduct(r, p) PROVE CatalogInv'
    <2>1. PICK next : next = [at |-> "delete", product |-> p]
      OBVIOUS
    <2>2. next.at = "delete" /\ next.product = p
      BY <2>1
    <2>3. p \in Live /\ Start(r, next)
            /\ UNCHANGED <<products, categories, orders, paid, owed, crossed, strays>>
      BY <1>3, <2>1 DEF BeginDeleteProduct
    <2>4. paid' \in 0..MaxOrders /\ p \in Created
      BY <2>3, CreatedProduct DEF CatalogInv
    <2> QED BY <2>2, <2>3, <2>4, StartOverlaps, GoesOn
  <1>4. ASSUME NEW c \in CategoryIds \cup {0}, NEW name \in Names, BeginCategory(r, c, name)
        PROVE  CatalogInv'
    <2>1. PICK next : next = [at |-> "category", category |-> c, name |-> name]
      OBVIOUS
    <2>2. next.at = "category" /\ next.category = c /\ next.name = name
      BY <2>1
    <2>3. /\ ~NameTaken(c, name) /\ Start(r, next)
          /\ UNCHANGED <<products, categories, orders, paid, owed, crossed, strays>>
      BY <1>4, <2>1 DEF BeginCategory
    <2>4. paid' \in 0..MaxOrders
      BY <2>3 DEF CatalogInv
    <2> QED BY <2>2, <2>3, <2>4, StartOverlaps, GoesOn
  <1> QED BY <1>1, <1>2, <1>3, <1>4

\* The notification has read a quantity that is enough.
LEMMA ReadStockStep ==
  ASSUME CatalogInv, NEW r \in Requests, NEW p \in ProductIds, NEW s \in Skus,
         NEW n \in 1..MaxQuantity, ReadStock(r, p, s, n)
  PROVE  CatalogInv'
  <1>1. PICK order : order = [id |-> paid + 1, product |-> p, sku |-> s, n |-> n]
    OBVIOUS
  <1>2. PICK next : next = [at |-> "sale", read |-> products[p].variants[s], order |-> order]
    OBVIOUS
  <1>3. /\ HasSku(p, s) /\ n <= products[p].variants[s] /\ paid < MaxOrders /\ paid' = paid + 1
        /\ Start(r, next) /\ UNCHANGED <<products, categories, orders, owed, crossed, strays>>
    BY <1>1, <1>2 DEF ReadStock
  <1>4. paid' \in 0..MaxOrders /\ paid + 1 \in 1..MaxOrders
    BY <1>3, CatalogAssumption DEF CatalogInv
  <1>5. /\ order \in OrderRecord /\ order.product = p /\ order.sku = s /\ order.n = n
    BY <1>1, <1>4 DEF OrderRecord
  <1>6. next.at = "sale" /\ next.read = products[p].variants[s] /\ next.order = order
    BY <1>2
  <1>7. p \in Created /\ products[p].variants[s] \in Nat
    BY <1>3, CreatedProduct
  <1> QED BY <1>3, <1>4, <1>5, <1>6, <1>7, StartOverlaps, GoesOn

\* A form goes on with what was loaded, or ends.
LEMMA SubmitStep ==
  ASSUME CatalogInv, NEW r \in Requests, NEW form \in Forms, SubmitForm(r, form)
  PROVE  CatalogInv'
  <1> DEFINE req == request[r]
  <1>1. /\ req.at = "form" /\ UNCHANGED <<products, categories, orders, paid, owed, crossed,
             strays, overlapped>>
        /\ request' = [request EXCEPT ![r] =
             IF req.product \in Live
             THEN [at |-> "update", product |-> req.product, loaded |-> req.loaded, form |-> form]
             ELSE Idle]
    BY DEF SubmitForm
  <1>2. CASE req.product \in Live
    <2>1. PICK next : next = [at |-> "update", product |-> req.product, loaded |-> req.loaded,
               form |-> form]
      OBVIOUS
    <2>2. next.at = "update" /\ next.product = req.product /\ next.loaded = req.loaded
            /\ next.form = form
      BY <2>1
    <2>3. request' = [request EXCEPT ![r] = next]
      BY <1>1, <1>2, <2>1
    <2>4. paid' \in 0..MaxOrders /\ overlapped' \in BOOLEAN
      BY <1>1 DEF CatalogInv
    <2>5. /\ req.product \in Created
          /\ ~crossed => req.loaded = products[req.product].variants
      BY <1>1 DEF CatalogInv, RequestsOK, Carries, ReadIsCurrent
    <2>6. ~overlapped => \A q \in Requests \ {r} : request[q] = Idle
      BY <1>1, IdleAt DEF CatalogInv, OneAtATime
    <2> QED BY <1>1, <2>2, <2>3, <2>4, <2>5, <2>6, GoesOn
  <1>3. CASE req.product \notin Live
    BY <1>1, <1>3, FinishKeeps DEF Finish
  <1> QED BY <1>2, <1>3
-----------------------------------------------------------------------------
(* Writes of products. *)

\* A form is a map of variants.
LEMMA FormTypes == Forms \subseteq VariantMaps
  <1> SUFFICES ASSUME NEW S \in SUBSET Skus, NEW form \in [S -> 1..MaxQuantity]
               PROVE  form \in VariantMaps
    BY DEF Forms
  <1>1. form \in [S -> Nat]
    BY CatalogAssumption
  <1> QED BY <1>1 DEF VariantMaps

\* What is to be shown of a step that writes a product: that it leaves the products in
\* order, and that whoever has read of a written product is told so.
LEMMA ProductsWritten ==
  ASSUME CatalogInv, UNCHANGED <<categories, paid, overlapped>>,
         ProductsOK', OrdersOK', Created \subseteq Created',
         DOMAIN request' = Requests,
         \A q \in Requests : request'[q] = request[q] \/ request'[q] = Idle,
         strays' \subseteq {"deleted", "moved"}, crossed' \in BOOLEAN,
         ~crossed' => ~crossed /\ \A p \in Created : \A q \in Readers(p) :
           request'[q] = Idle \/ products'[p].variants = products[p].variants
  PROVE  CatalogInv'
  <1>1. \A q \in Requests : request'[q] # Idle => request'[q] = request[q]
    OBVIOUS
  <1>2. ASSUME NEW q \in Requests PROVE Carries(q)'
    <2>1. CASE request'[q] = Idle
      BY <2>1, IdleAt DEF Carries
    <2>2. CASE request'[q] = request[q]
      BY <2>2 DEF CatalogInv, RequestsOK, Carries
    <2> QED BY <2>1, <2>2
  <1>3. ASSUME ~crossed', NEW q \in Requests PROVE ReadIsCurrent(q)'
    <2>1. CASE request'[q] = Idle
      BY <2>1, IdleAt DEF ReadIsCurrent
    <2>2. CASE request'[q] = request[q] /\ request[q] # Idle
      <3>1. ~crossed /\ Carries(q) /\ ReadIsCurrent(q)
        BY <1>3 DEF CatalogInv, RequestsOK
      <3>2. CASE request[q].at \in {"form", "update"}
        <4>1. q \in Readers(request[q].product) /\ request[q].product \in Created
          BY <3>1, <3>2 DEF Readers, Carries
        <4>2. products'[request[q].product].variants = products[request[q].product].variants
          BY <1>3, <2>2, <4>1
        <4> QED BY <2>2, <3>1, <3>2, <4>2 DEF ReadIsCurrent
      <3>3. CASE request[q].at = "sale"
        <4>1. q \in Readers(request[q].order.product) /\ request[q].order.product \in Created
          BY <3>1, <3>3 DEF Readers, Carries
        <4>2. products'[request[q].order.product].variants
                = products[request[q].order.product].variants
          BY <1>3, <2>2, <4>1
        <4> QED BY <2>2, <3>1, <3>3, <4>2 DEF ReadIsCurrent, HasSku
      <3>4. CASE request[q].at \notin {"form", "update", "sale"}
        BY <2>2, <3>4 DEF ReadIsCurrent
      <3> QED BY <3>2, <3>3, <3>4
    <2> QED BY <2>1, <2>2
  <1>4. RequestsOK'
    BY <1>2, <1>3 DEF RequestsOK
  <1>5. CategoriesOK'
    BY DEF CatalogInv, CategoriesOK
  <1>6. ASSUME ~overlapped' PROVE OneAtATime'
    <2>1. OneAtATime
      BY <1>6 DEF CatalogInv
    <2>2. ASSUME NEW q \in Requests, NEW p \in Requests, p # q
          PROVE  request'[q] = Idle \/ request'[p] = Idle
      BY <2>1, <2>2 DEF OneAtATime
    <2>3. ASSUME NEW q \in Requests, request'[q].at = "category"
          PROVE  ~NameTaken(request'[q].category, request'[q].name)
      <3>1. request'[q] = request[q]
        BY <2>3, IdleAt
      <3> QED BY <2>1, <2>3, <3>1 DEF OneAtATime
    <2> QED BY <2>1, <2>2, <2>3 DEF OneAtATime, NameTaken, Idle
  <1> QED BY <1>4, <1>5, <1>6 DEF CatalogInv

\* The request that has written ends.
LEMMA FinishIdle ==
  ASSUME CatalogInv, NEW r \in Requests, Finish(r)
  PROVE  /\ DOMAIN request' = Requests /\ request'[r] = Idle /\ overlapped' = overlapped
         /\ \A q \in Requests \ {r} : request'[q] = request[q]
         /\ \A q \in Requests : request'[q] = request[q] \/ request'[q] = Idle
  <1>1. request' = [request EXCEPT ![r] = Idle] /\ overlapped' = overlapped
          /\ DOMAIN request = Requests
    BY DEF Finish, CatalogInv, RequestsOK
  <1>2. \A q \in Requests \ {r} : request'[q] = request[q]
    BY <1>1
  <1>3. request'[r] = Idle
    BY <1>1
  <1> QED BY <1>1, <1>2, <1>3

\* The next number is that of a product not created yet; on sale, it shares no sku.
LEMMA CreateStep ==
  ASSUME CatalogInv, NEW r \in Requests, CreateProduct(r)
  PROVE  CatalogInv'
  <1>1. PICK form : form = request[r].form
    OBVIOUS
  <1>2. PICK n \in Nat : Created = 1..n
    BY DEF CatalogInv, ProductsOK
  <1> DEFINE p == n + 1
  <1>3. Cardinality(Created) = n
    BY <1>2, FS_Interval
  <1>4. /\ request[r].at = "createProduct" /\ p \in ProductIds /\ Finish(r)
        /\ UNCHANGED <<categories, orders, paid, crossed, strays>>
        /\ IF Duplicate(p, form) THEN UNCHANGED <<products, owed>>
           ELSE /\ products' = [products EXCEPT ![p] = [status |-> "ACTIVE", variants |-> form]]
                /\ owed' = IF Accountable THEN [owed EXCEPT ![p] = form] ELSE NothingOwed
    BY <1>1, <1>3 DEF CreateProduct
  <1>5. CASE Duplicate(p, form)
    BY <1>4, <1>5, FinishKeeps
  <1>6. CASE ~Duplicate(p, form)
    <2>1. PICK new : new = [status |-> "ACTIVE", variants |-> form]
      OBVIOUS
    <2>2. /\ products' = [products EXCEPT ![p] = new]
          /\ owed' = IF Accountable THEN [owed EXCEPT ![p] = form] ELSE NothingOwed
      BY <1>4, <1>6, <2>1
    <2>3. form \in VariantMaps
      BY <1>1, <1>4, FormTypes DEF CatalogInv, RequestsOK, Carries
    <2>4. new \in ProductRecord /\ new.status = "ACTIVE" /\ new.variants = form
      BY <2>1, <2>3 DEF ProductRecord
    <2>5. /\ products' \in [ProductIds -> ProductRecord] /\ products'[p] = new
          /\ \A q \in ProductIds \ {p} : products'[q] = products[q]
      BY <1>4, <2>2, <2>4 DEF CatalogInv, ProductsOK
    <2>6. p \notin Created /\ Created' = Created \cup {p} /\ Live' = Live \cup {p}
      <3>1. p \notin Created
        BY <1>2
      <3>2. Created' = Created \cup {p}
        BY <1>4, <2>4, <2>5 DEF Created
      <3>3. Live' = Live \cup {p}
        BY <1>4, <2>4, <2>5 DEF Live
      <3> QED BY <3>1, <3>2, <3>3
    <2>7. \E m \in Nat : Created' = 1..m
      <3>1. (1..n) \cup {n + 1} = 1..(n + 1)
        OBVIOUS
      <3> QED BY <1>2, <2>6, <3>1
    <2>8. \A q \in ProductIds \ Created' : DOMAIN products'[q].variants = {}
      BY <2>5, <2>6 DEF CatalogInv, ProductsOK
    <2>9. ASSUME NEW q \in Live', NEW t \in Live', q # t
          PROVE  DOMAIN products'[q].variants \cap DOMAIN products'[t].variants = {}
      <3>0. \A u \in Live : u \in ProductIds \ {p} /\ products'[u] = products[u]
        BY <2>5, <2>6, CreatedProduct DEF Live
      <3>1. \A u \in Live : DOMAIN form \cap DOMAIN products[u].variants = {}
        BY <1>6, <3>0 DEF Duplicate
      <3> QED BY <2>4, <2>5, <2>6, <2>9, <3>0, <3>1 DEF CatalogInv, ProductsOK
    <2>10. DOMAIN owed' = ProductIds
      BY <2>2 DEF CatalogInv, ProductsOK, NothingOwed
    <2>11. SoldStaysSold'
      <3> SUFFICES ASSUME Accountable', NEW q \in ProductIds PROVE products'[q].variants = owed'[q]
        BY DEF SoldStaysSold
      <3>1. Accountable
        BY <1>4 DEF Accountable
      <3>2. owed' = [owed EXCEPT ![p] = form] /\ products[q].variants = owed[q]
              /\ DOMAIN owed = ProductIds
        BY <2>2, <3>1 DEF CatalogInv, ProductsOK, SoldStaysSold
      <3> QED BY <2>4, <2>5, <3>2
    <2>12. ProductsOK'
      BY <2>5, <2>7, <2>8, <2>9, <2>10, <2>11 DEF ProductsOK
    <2>13. OrdersOK'
      BY <1>4, <2>6 DEF CatalogInv, OrdersOK
    <2>14. \A q \in Created : products'[q].variants = products[q].variants
      BY <2>5, <2>6 DEF Created
    <2>15. crossed' \in BOOLEAN /\ strays' \subseteq {"deleted", "moved"}
      BY <1>4 DEF CatalogInv
    <2> QED BY <1>4, <2>6, <2>12, <2>13, <2>14, <2>15, FinishIdle, ProductsWritten
  <1> QED BY <1>5, <1>6
\* The variants of a product are replaced by others, with skus that no other product
\* on sale has.
LEMMA VariantsReplaced ==
  ASSUME CatalogInv, NEW q \in Created, NEW v \in VariantMaps,
         products' = [products EXCEPT ![q].variants = v],
         q \in Live => \A t \in Live \ {q} : DOMAIN v \cap DOMAIN products[t].variants = {}
  PROVE  /\ products' \in [ProductIds -> ProductRecord]
         /\ Created' = Created /\ Live' = Live
         /\ products'[q].variants = v
         /\ \A t \in ProductIds \ {q} : products'[t] = products[t]
         /\ DOMAIN owed' = ProductIds /\ SoldStaysSold' => ProductsOK'
  <1>0. q \in ProductIds /\ products \in [ProductIds -> ProductRecord]
    BY DEF Created, CatalogInv, ProductsOK
  <1>1. PICK new : new = [products[q] EXCEPT !.variants = v]
    OBVIOUS
  <1>2. new \in ProductRecord /\ new.variants = v /\ new.status = products[q].status
    BY <1>0, <1>1 DEF ProductRecord
  <1>3. products' = [products EXCEPT ![q] = new]
    BY <1>1
  <1>4. /\ products' \in [ProductIds -> ProductRecord] /\ products'[q] = new
        /\ \A t \in ProductIds \ {q} : products'[t] = products[t]
    BY <1>0, <1>2, <1>3
  <1>5. \A t \in ProductIds : products'[t].status = products[t].status
    BY <1>2, <1>4
  <1>6. Created' = Created /\ Live' = Live
    BY <1>5 DEF Created, Live
  <1>7. ASSUME NEW t \in Live, NEW u \in Live, t # u
        PROVE  DOMAIN products'[t].variants \cap DOMAIN products'[u].variants = {}
    <2>0. t \in ProductIds /\ u \in ProductIds
      BY DEF Live
    <2>1. DOMAIN products[t].variants \cap DOMAIN products[u].variants = {}
      BY <1>7 DEF CatalogInv, ProductsOK
    <2> QED BY <1>2, <1>4, <1>7, <2>0, <2>1
  <1>8. \A t \in ProductIds \ Created : DOMAIN products'[t].variants = {}
    BY <1>4 DEF CatalogInv, ProductsOK
  <1>9. \E n \in Nat : Created' = 1..n
    BY <1>6 DEF CatalogInv, ProductsOK
  <1>10. DOMAIN owed' = ProductIds /\ SoldStaysSold' => ProductsOK'
    BY <1>4, <1>6, <1>7, <1>8, <1>9 DEF ProductsOK
  <1> QED BY <1>2, <1>4, <1>6, <1>10

\* Unless others have read the product since the form was loaded, the intent of the edit
\* is the form.
LEMMA UpdateStep ==
  ASSUME CatalogInv, NEW r \in Requests, UpdateProduct(r)
  PROVE  CatalogInv'
  <1> DEFINE p == request[r].product
             form == request[r].form
             loaded == request[r].loaded
  <1>1. /\ request[r].at = "update" /\ Finish(r) /\ UNCHANGED <<categories, orders, paid, strays>>
        /\ IF p \in Live /\ Duplicate(p, form) THEN UNCHANGED <<products, owed, crossed>>
           ELSE /\ products' = [products EXCEPT ![p].variants = form]
                /\ crossed' = (crossed \/ Readers(p) # {r})
                /\ owed' = IF Accountable' THEN [owed EXCEPT ![p] = Edited(p, loaded, form)]
                           ELSE NothingOwed
    BY DEF UpdateProduct
  <1>2. /\ p \in Created /\ p \in ProductIds /\ form \in Forms /\ form \in VariantMaps
        /\ ~crossed => loaded = products[p].variants
    BY <1>1, FormTypes DEF CatalogInv, RequestsOK, Carries, ReadIsCurrent, Created
  <1>3. CASE p \in Live /\ Duplicate(p, form)
    BY <1>1, <1>3, FinishKeeps
  <1>4. CASE ~(p \in Live /\ Duplicate(p, form))
    <2>1. /\ products' = [products EXCEPT ![p].variants = form]
          /\ crossed' = (crossed \/ Readers(p) # {r})
          /\ owed' = IF Accountable' THEN [owed EXCEPT ![p] = Edited(p, loaded, form)]
               ELSE NothingOwed
      BY <1>1, <1>4
    <2>2. p \in Live => \A t \in Live \ {p} : DOMAIN form \cap DOMAIN products[t].variants = {}
      BY <1>4 DEF Duplicate
    <2> HIDE DEF p, form, loaded
    <2>3. /\ Created' = Created /\ products'[p].variants = form
          /\ \A t \in ProductIds \ {p} : products'[t] = products[t]
          /\ DOMAIN owed' = ProductIds /\ SoldStaysSold' => ProductsOK'
      BY <1>2, <2>1, <2>2, VariantsReplaced
    <2>4. DOMAIN owed' = ProductIds
      BY <2>1 DEF CatalogInv, ProductsOK, NothingOwed
    <2>5. SoldStaysSold'
      <3> SUFFICES ASSUME Accountable', NEW t \in ProductIds PROVE products'[t].variants = owed'[t]
        BY DEF SoldStaysSold
      <3>1. Accountable /\ ~crossed
        BY <1>1, <2>1 DEF Accountable
      <3>2. /\ owed' = [owed EXCEPT ![p] = Edited(p, loaded, form)]
            /\ products[t].variants = owed[t] /\ products[p].variants = owed[p]
                 /\ DOMAIN owed = ProductIds
        BY <1>2, <2>1, <3>1 DEF CatalogInv, ProductsOK, SoldStaysSold
      <3>3. Edited(p, loaded, form) = form
        <4>1. \A s \in DOMAIN form : form[s] \in Nat
          BY <1>2 DEF VariantMaps
        <4>2. \A s \in DOMAIN owed[p] : owed[p][s] \in Nat
          BY <1>2, <3>2, CreatedProduct DEF HasSku
        <4>3. loaded = owed[p]
          BY <1>2, <3>1, <3>2
        <4>4. \A s \in DOMAIN form :
                (IF s \in DOMAIN loaded \cap DOMAIN owed[p] THEN owed[p][s]
                  + form[s] - loaded[s] ELSE form[s]) = form[s]
          BY <4>1, <4>2, <4>3
        <4>5. form = [s \in DOMAIN form |-> form[s]]
          BY <1>2 DEF VariantMaps
        <4> QED BY <4>4, <4>5 DEF Edited
      <3> QED BY <1>2, <2>3, <3>2, <3>3
    <2>6. OrdersOK'
      BY <1>1, <2>3 DEF CatalogInv, OrdersOK
    <2>7. /\ crossed' \in BOOLEAN /\ strays' \subseteq {"deleted", "moved"}
      BY <1>1, <2>1 DEF CatalogInv
    <2>8. ASSUME ~crossed', NEW t \in Created, NEW q \in Readers(t)
          PROVE  ~crossed /\ (request'[q] = Idle \/ products'[t].variants = products[t].variants)
      <3>1. ~crossed /\ Readers(p) = {r}
        BY <2>1, <2>8
      <3>2. CASE t = p
        BY <3>1, <3>2, <1>1, <2>8, FinishIdle
      <3>3. CASE t # p
        BY <3>1, <3>3, <2>3 DEF Created
      <3> QED BY <3>1, <3>2, <3>3
    <2>9. ~crossed' => ~crossed
      BY <2>1
    <2> QED BY <1>1, <2>3, <2>4, <2>5, <2>6, <2>7, <2>8, <2>9, FinishIdle, ProductsWritten
  <1> QED BY <1>3, <1>4

\* A deleted product leaves the shelf, with its variants.
LEMMA DeleteStep ==
  ASSUME CatalogInv, NEW r \in Requests, DeleteProduct(r)
  PROVE  CatalogInv'
  <1> DEFINE p == request[r].product
  <1>1. /\ request[r].at = "delete" /\ products' = [products EXCEPT ![p].status = "DELETED"]
             /\ Finish(r)
        /\ UNCHANGED <<categories, orders, paid, owed, crossed, strays>>
    BY DEF DeleteProduct
  <1>2. p \in Created /\ p \in ProductIds
    BY <1>1 DEF CatalogInv, RequestsOK, Carries, Created
  <1>3. PICK new : new = [products[p] EXCEPT !.status = "DELETED"]
    OBVIOUS
  <1>4. new \in ProductRecord /\ new.variants = products[p].variants /\ new.status = "DELETED"
    BY <1>2, <1>3 DEF ProductRecord, CatalogInv, ProductsOK
  <1>5. products' = [products EXCEPT ![p] = new]
    BY <1>1, <1>3
  <1> HIDE DEF p
  <1>6. /\ products' \in [ProductIds -> ProductRecord] /\ products'[p] = new
        /\ \A t \in ProductIds \ {p} : products'[t] = products[t]
    BY <1>2, <1>4, <1>5 DEF CatalogInv, ProductsOK
  <1>7. \A t \in ProductIds : products'[t].variants = products[t].variants
    BY <1>4, <1>6
  <1>8. Created' = Created /\ Live' \subseteq Live
    <2>1. Created' = Created
      BY <1>2, <1>4, <1>6 DEF Created
    <2>2. Live' \subseteq Live
      BY <1>4, <1>6 DEF Live
    <2> QED BY <2>1, <2>2
  <1>9. ProductsOK'
    <2>1. ASSUME NEW t \in Live', NEW u \in Live', t # u
          PROVE  DOMAIN products'[t].variants \cap DOMAIN products'[u].variants = {}
      <3>1. t \in Live /\ u \in Live /\ t \in ProductIds /\ u \in ProductIds
        BY <1>8 DEF Live
      <3> QED BY <1>7, <2>1, <3>1 DEF CatalogInv, ProductsOK
    <2>2. SoldStaysSold'
      BY <1>1, <1>7 DEF CatalogInv, ProductsOK, SoldStaysSold, Accountable
    <2>3. \A t \in ProductIds \ Created' : DOMAIN products'[t].variants = {}
      BY <1>7, <1>8 DEF CatalogInv, ProductsOK
    <2>4. DOMAIN owed' = ProductIds /\ \E n \in Nat : Created' = 1..n
      BY <1>1, <1>8 DEF CatalogInv, ProductsOK
    <2> QED BY <1>6, <2>1, <2>2, <2>3, <2>4 DEF ProductsOK
  <1>10. OrdersOK' /\ crossed' \in BOOLEAN /\ strays' \subseteq {"deleted", "moved"}
    BY <1>1, <1>8 DEF CatalogInv, OrdersOK
  <1>11. \A t \in Created : products'[t].variants = products[t].variants
    BY <1>7 DEF Created
  <1> QED BY <1>1, <1>8, <1>9, <1>10, <1>11, FinishIdle, ProductsWritten
\* Two products that share a sku are never both on sale.
LEMMA StrayNotShared ==
  ASSUME CatalogInv, NEW p \in ProductIds, NEW s, NEW q \in Matches(s)
  PROVE  /\ Stray(p, s, q) \subseteq {"deleted", "moved"}
         /\ Stray(p, s, q) = {} => p = q
  <1>1. HasSku(q, s) /\ q \in ProductIds
    BY DEF Matches
  <1>2. CASE p = q
    BY <1>2 DEF Stray
  <1>3. CASE p # q /\ ~({p, q} \subseteq Live)
    BY <1>3 DEF Stray
  <1>4. CASE p # q /\ {p, q} \subseteq Live
    <2>1. DOMAIN products[p].variants \cap DOMAIN products[q].variants = {}
      BY <1>4 DEF CatalogInv, ProductsOK
    <2>2. ~HasSku(p, s)
      BY <1>1, <2>1 DEF HasSku
    <2> QED BY <1>4, <2>2 DEF Stray
  <1> QED BY <1>2, <1>3, <1>4

\* A stock write keeps the skus of the product it hits; unless it hits another one or
\* passes a reader, what is stored is what is owed.
LEMMA StockWriteKeeps ==
  ASSUME CatalogInv, NEW readers, NEW p \in ProductIds, NEW s, NEW by \in Int,
         NEW q \in Matches(s), NEW quantity \in Nat, StockWrite(readers, p, s, by, q, quantity),
         ~crossed /\ Readers(q) \subseteq readers /\ p = q => quantity = products[p].variants[s]
           + by
  PROVE  /\ ProductsOK' /\ Created' = Created
         /\ strays' \subseteq {"deleted", "moved"} /\ crossed' \in BOOLEAN
         /\ ~crossed' => ~crossed /\ Readers(q) \subseteq readers
         /\ \A t \in ProductIds \ {q} : products'[t] = products[t]
  <1>0. HasSku(q, s) /\ q \in ProductIds
    BY DEF Matches
  <1>1. q \in Created /\ s \in Skus /\ products[q].variants \in VariantMaps
    BY <1>0, CreatedProduct DEF CatalogInv, ProductsOK, ProductRecord
  <1>2. PICK v : v = [products[q].variants EXCEPT ![s] = quantity]
    OBVIOUS
  <1>3. v \in VariantMaps /\ DOMAIN v = DOMAIN products[q].variants
    BY <1>1, <1>2 DEF VariantMaps
  <1>4. /\ products' = [products EXCEPT ![q].variants = v]
        /\ strays' = strays \cup Stray(p, s, q)
        /\ crossed' = (crossed \/ ~(Readers(q) \subseteq readers))
        /\ owed' = IF Accountable' THEN [owed EXCEPT ![p][s] = owed[p][s] + by] ELSE NothingOwed
    BY <1>2 DEF StockWrite
  <1>5. q \in Live => \A t \in Live \ {q} : DOMAIN v \cap DOMAIN products[t].variants = {}
    BY <1>3 DEF CatalogInv, ProductsOK
  <1>6. /\ Created' = Created /\ products'[q].variants = v
        /\ \A t \in ProductIds \ {q} : products'[t] = products[t]
        /\ DOMAIN owed' = ProductIds /\ SoldStaysSold' => ProductsOK'
    BY <1>1, <1>3, <1>4, <1>5, VariantsReplaced
  <1>7. DOMAIN owed' = ProductIds
    BY <1>4 DEF CatalogInv, ProductsOK, NothingOwed
  <1>8. strays' \subseteq {"deleted", "moved"} /\ crossed' \in BOOLEAN
    BY <1>4, StrayNotShared DEF CatalogInv
  <1>9. SoldStaysSold'
    <2> SUFFICES ASSUME Accountable', NEW t \in ProductIds PROVE products'[t].variants = owed'[t]
      BY DEF SoldStaysSold
    <2>1. Accountable /\ ~crossed /\ p = q /\ Readers(q) \subseteq readers
      BY <1>4, StrayNotShared DEF Accountable
    <2>2. /\ owed' = [owed EXCEPT ![p] = [owed[p] EXCEPT ![s] = owed[p][s] + by]]
          /\ products[t].variants = owed[t] /\ products[p].variants = owed[p]
               /\ DOMAIN owed = ProductIds
      BY <1>4, <2>1 DEF CatalogInv, ProductsOK, SoldStaysSold
    <2>3. quantity = owed[p][s] + by
      BY <2>1, <2>2
    <2>4. v = [owed[p] EXCEPT ![s] = owed[p][s] + by]
      BY <1>2, <2>1, <2>2, <2>3
    <2> QED BY <1>6, <2>1, <2>2, <2>4
  <1>10. ~crossed' => ~crossed /\ Readers(q) \subseteq readers
    BY <1>4
  <1> QED BY <1>6, <1>7, <1>8, <1>9, <1>10

\* What remains after a sale is what was read, less what is sold.
LEMMA SellStep ==
  ASSUME CatalogInv, NEW r \in Requests, Sell(r)
  PROVE  CatalogInv'
  <1>1. PICK o : o = request[r].order
    OBVIOUS
  <1>2. PICK read : read = request[r].read
    OBVIOUS
  <1>3. /\ request[r].at = "sale" /\ orders' = orders \cup {o} /\ Finish(r)
             /\ UNCHANGED <<categories, paid>>
        /\ \/ NothingMatches(o.sku)
           \/ \E q \in Matches(o.sku) : StockWrite({r}, o.product, o.sku, -o.n, q, read - o.n)
    BY <1>1, <1>2 DEF Sell
  <1>4. /\ o \in OrderRecord /\ o.product \in Created /\ o.product \in ProductIds
        /\ o.n \in Nat /\ read \in Nat /\ o.n <= read
        /\ ~crossed => read = products[o.product].variants[o.sku]
    <2>1. Carries(r) /\ (~crossed => ReadIsCurrent(r))
      BY DEF CatalogInv, RequestsOK
    <2> QED BY <1>1, <1>2, <1>3, <2>1, CatalogAssumption DEF Carries, ReadIsCurrent, OrderRecord
  <1>5. CASE NothingMatches(o.sku)
    <2>1. UNCHANGED <<products, owed, crossed, strays>>
      BY <1>5 DEF NothingMatches
    <2>2. Created' = Created /\ Live' = Live
      BY <2>1 DEF Created, Live
    <2>3. ProductsOK'
      BY <2>1, <2>2 DEF CatalogInv, ProductsOK, SoldStaysSold, Accountable
    <2>4. OrdersOK'
      BY <1>3, <1>4, <2>2 DEF CatalogInv, OrdersOK
    <2>5. strays' \subseteq {"deleted", "moved"} /\ crossed' \in BOOLEAN
      BY <2>1 DEF CatalogInv
    <2> QED BY <1>3, <2>1, <2>2, <2>3, <2>4, <2>5, FinishIdle, ProductsWritten
  <1>6. ASSUME NEW q \in Matches(o.sku), StockWrite({r}, o.product, o.sku, -o.n, q, read - o.n)
        PROVE  CatalogInv'
    <2>1. PICK by \in Int : by = -o.n
      BY <1>4
    <2>2. PICK quantity \in Nat : quantity = read - o.n
      BY <1>4
    <2>3. StockWrite({r}, o.product, o.sku, by, q, quantity)
      BY <1>6, <2>1, <2>2
    <2>4. ~crossed => quantity = products[o.product].variants[o.sku] + by
      BY <1>4, <2>1, <2>2
    <2>5. /\ ProductsOK' /\ Created' = Created
          /\ strays' \subseteq {"deleted", "moved"} /\ crossed' \in BOOLEAN
          /\ ~crossed' => ~crossed /\ Readers(q) \subseteq {r}
          /\ \A t \in ProductIds \ {q} : products'[t] = products[t]
      <3>1. PICK p \in ProductIds : p = o.product
        BY <1>4
      <3>2. PICK s : s = o.sku
        OBVIOUS
      <3>3. q \in Matches(s) /\ StockWrite({r}, p, s, by, q, quantity)
        BY <2>3, <3>1, <3>2
      <3>4. ~crossed => quantity = products[p].variants[s] + by
        BY <2>4, <3>1, <3>2
      <3> QED BY <3>3, <3>4, StockWriteKeeps
    <2>6. OrdersOK'
      BY <1>3, <1>4, <2>5 DEF CatalogInv, OrdersOK
    <2>7. ASSUME ~crossed', NEW t \in Created, NEW u \in Readers(t)
          PROVE  ~crossed /\ (request'[u] = Idle \/ products'[t].variants = products[t].variants)
      <3>1. CASE t = q
        BY <3>1, <1>3, <2>5, <2>7, FinishIdle
      <3>2. CASE t # q
        BY <3>2, <2>5, <2>7 DEF Created
      <3> QED BY <3>1, <3>2
    <2>8. ~crossed' => ~crossed
      BY <2>5
    <2> QED BY <1>3, <2>5, <2>6, <2>7, <2>8, FinishIdle, ProductsWritten
  <1> QED BY <1>3, <1>5, <1>6

\* What is put back is added to what is there.
LEMMA RestockStep ==
  ASSUME CatalogInv, NEW o \in orders, Restock(o)
  PROVE  CatalogInv'
  <1>1. /\ orders' = orders \ {o} /\ UNCHANGED <<categories, paid, request, overlapped>>
        /\ \/ NothingMatches(o.sku)
           \/ \E q \in Matches(o.sku) :
                StockWrite({}, o.product, o.sku, o.n, q, products[q].variants[o.sku] + o.n)
    BY DEF Restock
  <1>2. o.product \in Created /\ o.product \in ProductIds /\ o.n \in Nat /\ o.n \in Int
    BY CatalogAssumption DEF CatalogInv, OrdersOK, OrderRecord
  <1>3. DOMAIN request' = Requests
          /\ \A r \in Requests : request'[r] = request[r] \/ request'[r] = Idle
    BY <1>1 DEF CatalogInv, RequestsOK
  <1>4. CASE NothingMatches(o.sku)
    <2>1. UNCHANGED <<products, owed, crossed, strays>>
      BY <1>4 DEF NothingMatches
    <2>2. Created' = Created /\ Live' = Live
      BY <2>1 DEF Created, Live
    <2>3. ProductsOK'
      BY <2>1, <2>2 DEF CatalogInv, ProductsOK, SoldStaysSold, Accountable
    <2>4. OrdersOK'
      BY <1>1, <2>2 DEF CatalogInv, OrdersOK
    <2>5. strays' \subseteq {"deleted", "moved"} /\ crossed' \in BOOLEAN
      BY <2>1 DEF CatalogInv
    <2> QED BY <1>1, <1>3, <2>1, <2>2, <2>3, <2>4, <2>5, ProductsWritten
  <1>5. ASSUME NEW q \in Matches(o.sku),
               StockWrite({}, o.product, o.sku, o.n, q, products[q].variants[o.sku] + o.n)
        PROVE  CatalogInv'
    <2>1. products[q].variants[o.sku] \in Nat
      BY CreatedProduct DEF Matches
    <2>2. PICK quantity \in Nat : quantity = products[q].variants[o.sku] + o.n
      BY <1>2, <2>1
    <2>3. StockWrite({}, o.product, o.sku, o.n, q, quantity)
      BY <1>5, <2>2
    <2>4. /\ ProductsOK' /\ Created' = Created
          /\ strays' \subseteq {"deleted", "moved"} /\ crossed' \in BOOLEAN
          /\ ~crossed' => ~crossed /\ Readers(q) \subseteq {}
          /\ \A t \in ProductIds \ {q} : products'[t] = products[t]
      <3>1. PICK p \in ProductIds : p = o.product
        BY <1>2
      <3>2. PICK s : s = o.sku
        OBVIOUS
      <3>3. PICK by \in Int : by = o.n
        BY <1>2
      <3>4. q \in Matches(s) /\ StockWrite({}, p, s, by, q, quantity)
        BY <2>3, <3>1, <3>2, <3>3
      <3>5. p = q => quantity = products[p].variants[s] + by
        BY <2>2, <3>1, <3>2, <3>3
      <3> QED BY <3>4, <3>5, StockWriteKeeps
    <2>5. OrdersOK'
      BY <1>1, <2>4 DEF CatalogInv, OrdersOK
    <2>6. ASSUME ~crossed', NEW t \in Created, NEW u \in Readers(t)
          PROVE  ~crossed /\ (request'[u] = Idle \/ products'[t].variants = products[t].variants)
      <3>1. t # q
        BY <2>4, <2>6
      <3> QED BY <3>1, <2>4, <2>6 DEF Created
    <2>7. ~crossed' => ~crossed
      BY <2>4
    <2> QED BY <1>1, <1>3, <2>4, <2>5, <2>6, <2>7, ProductsWritten
  <1> QED BY <1>1, <1>4, <1>5
-----------------------------------------------------------------------------
(* Categories, and the invariant. *)

\* A name that was looked up by a request on its own is still free.
LEMMA StoreCategoryStep ==
  ASSUME CatalogInv, NEW r \in Requests, StoreCategory(r)
  PROVE  CatalogInv'
  <1>1. PICK category : category = request[r].category
    OBVIOUS
  <1>2. PICK name : name = request[r].name
    OBVIOUS
  <1>3. PICK n \in 0..MaxCategories : DOMAIN categories = 1..n
    BY DEF CatalogInv, CategoriesOK
  <1>4. n \in Nat /\ Cardinality(DOMAIN categories) = n
    BY <1>3, FS_Interval, CatalogAssumption
  <1>5. /\ request[r].at = "category" /\ Finish(r)
        /\ UNCHANGED <<products, orders, paid, owed, crossed, strays>>
        /\ \/ /\ category = 0 /\ n + 1 \in CategoryIds
              /\ categories' = [c \in 1..(n + 1) |-> IF c = n + 1 THEN name ELSE categories[c]]
           \/ category \in DOMAIN categories /\ categories' = [categories EXCEPT ![category] = name]
           \/ UNCHANGED categories
    BY <1>1, <1>2, <1>4 DEF StoreCategory
  <1>6. name \in Names
    BY <1>2, <1>5 DEF CatalogInv, RequestsOK, Carries
  <1>7. /\ CategoriesOK'
        /\ \/ UNCHANGED categories
           \/ /\ \E c \in DOMAIN categories' :
                   /\ categories'[c] = name
                   /\ \A d \in DOMAIN categories' \ {c} : d \in DOMAIN categories
                        /\ categories'[d] = categories[d]
                   /\ c = category \/ (category = 0 /\ c \notin DOMAIN categories)
    <2>1. CASE category = 0 /\ n + 1 \in CategoryIds
               /\ categories' = [c \in 1..(n + 1) |-> IF c = n + 1 THEN name ELSE categories[c]]
      <3>1. n + 1 \in 0..MaxCategories /\ DOMAIN categories' = 1..(n + 1) /\ n
              + 1 \in DOMAIN categories'
        BY <1>4, <2>1, CatalogAssumption DEF CategoryIds
      <3>2. categories'[n + 1] = name /\ n + 1 \notin DOMAIN categories
        BY <1>3, <1>4, <2>1
      <3>3. \A d \in DOMAIN categories' \ {n + 1} : d \in DOMAIN categories
              /\ categories'[d] = categories[d]
        BY <1>3, <1>4, <2>1
      <3>4. CategoriesOK'
        BY <1>6, <3>1, <3>2, <3>3 DEF CategoriesOK, CatalogInv
      <3> QED BY <2>1, <3>1, <3>2, <3>3, <3>4
    <2>2. CASE category \in DOMAIN categories
                 /\ categories' = [categories EXCEPT ![category] = name]
      <3>1. /\ DOMAIN categories' = DOMAIN categories /\ categories'[category] = name
            /\ \A d \in DOMAIN categories \ {category} : categories'[d] = categories[d]
        BY <2>2
      <3>2. CategoriesOK'
        BY <1>3, <1>6, <3>1 DEF CategoriesOK, CatalogInv
      <3> QED BY <2>2, <3>1, <3>2
    <2>3. CASE UNCHANGED categories
      BY <2>3 DEF CategoriesOK, CatalogInv
    <2> QED BY <1>5, <2>1, <2>2, <2>3
  <1>8. request'[r] = Idle /\ overlapped' = overlapped /\ DOMAIN request' = Requests
        /\ \A q \in Requests \ {r} : request'[q] = request[q]
    BY <1>5, FinishIdle
  <1>9. ASSUME ~overlapped' PROVE OneAtATime'
    <2>1. OneAtATime /\ request[r] # Idle
      BY <1>5, <1>8, <1>9, IdleAt DEF CatalogInv
    <2>2. \A q \in Requests : request'[q] = Idle
      BY <1>8, <2>1 DEF OneAtATime
    <2>3. ~NameTaken(category, name)
      BY <1>1, <1>2, <1>5, <2>1 DEF OneAtATime
    <2>4. ASSUME NEW c \in DOMAIN categories', NEW d \in DOMAIN categories',
                 categories'[c] = categories'[d]
          PROVE  c = d
      <3>1. CASE UNCHANGED categories
        BY <2>1, <2>4, <3>1 DEF OneAtATime
      <3>2. ASSUME NEW e \in DOMAIN categories', categories'[e] = name,
                   \A i \in DOMAIN categories' \ {e} : i \in DOMAIN categories
                     /\ categories'[i] = categories[i],
                   e = category \/ (category = 0 /\ e \notin DOMAIN categories)
            PROVE  c = d
        <4>1. \A i \in DOMAIN categories' \ {e} : categories'[i] # name
          <5>1. \A i \in DOMAIN categories \ {category} : categories[i] # name
            BY <2>3 DEF NameTaken
          <5>2. 0 \notin DOMAIN categories
            BY <1>3
          <5> QED BY <3>2, <5>1, <5>2
        <4> QED BY <2>1, <2>4, <3>2, <4>1 DEF OneAtATime
      <3> QED BY <1>7, <3>1, <3>2
    <2> QED BY <2>2, <2>4, IdleAt DEF OneAtATime
  <1>10. Created' = Created /\ Live' = Live
    BY <1>5 DEF Created, Live
  <1>11. ProductsOK'
    BY <1>5, <1>10 DEF CatalogInv, ProductsOK, SoldStaysSold, Accountable
  <1>12. OrdersOK'
    BY <1>5, <1>10 DEF CatalogInv, OrdersOK
  <1>13. RequestsOK'
    <2>1. ASSUME NEW q \in Requests PROVE Carries(q)'
      <3>1. CASE q = r
        BY <1>8, <3>1, IdleAt DEF Carries
      <3>2. CASE q # r
        BY <1>8, <1>10, <3>2 DEF CatalogInv, RequestsOK, Carries
      <3> QED BY <3>1, <3>2
    <2>2. ASSUME ~crossed', NEW q \in Requests PROVE ReadIsCurrent(q)'
      <3>1. CASE q = r
        BY <1>8, <3>1, IdleAt DEF ReadIsCurrent
      <3>2. CASE q # r
        BY <1>5, <1>8, <2>2, <3>2 DEF CatalogInv, RequestsOK, ReadIsCurrent, HasSku
      <3> QED BY <3>1, <3>2
    <2> QED BY <1>8, <2>1, <2>2 DEF RequestsOK
  <1> QED BY <1>5, <1>7, <1>8, <1>9, <1>11, <1>12, <1>13 DEF CatalogInv

\* Each step keeps the invariant.
LEMMA CatalogStep == CatalogInv /\ [Next]_vars => CatalogInv'
  <1> SUFFICES ASSUME CatalogInv, [Next]_vars PROVE CatalogInv'
    OBVIOUS
  <1>1. CASE UNCHANGED vars
    <2>1. UNCHANGED <<products, categories, orders, paid, request, owed, crossed, strays,
            overlapped>>
      BY <1>1 DEF vars
    <2>2. Created' = Created /\ Live' = Live
      BY <2>1 DEF Created, Live
    <2>3. ProductsOK' /\ OrdersOK' /\ CategoriesOK'
      BY <2>1, <2>2 DEF CatalogInv, ProductsOK, SoldStaysSold, Accountable, OrdersOK, CategoriesOK
    <2>4. RequestsOK'
      BY <2>1, <2>2 DEF CatalogInv, RequestsOK, Carries, ReadIsCurrent, HasSku
    <2>5. ~overlapped' => OneAtATime'
      BY <2>1 DEF CatalogInv, OneAtATime, NameTaken
    <2> QED BY <2>1, <2>3, <2>4, <2>5 DEF CatalogInv
  <1>2. ASSUME NEW r \in Requests, Fail(r) PROVE CatalogInv'
    BY <1>2, FinishKeeps DEF Fail
  <1>3. CASE Next
    BY <1>2, <1>3, BeginStep, SubmitStep, ReadStockStep, CreateStep, UpdateStep, DeleteStep,
         SellStep,
       StoreCategoryStep, RestockStep DEF Next
  <1> QED BY <1>1, <1>3

\* CatalogInv holds in every reachable state.
LEMMA CatalogInvariant == Spec => []CatalogInv
  BY CatalogInit, CatalogStep, PTL DEF Spec
-----------------------------------------------------------------------------
(* Theorems about the catalogue. *)

\* Products, categories, stock writes and their history keep their types, for any sets of
\* requests and skus and any forms.
THEOREM CatalogTypeCorrect == Spec => []CatalogTypeOK
  BY CatalogInvariant, CatalogInvImplies, PTL

\* A stock write by {'variants.sku': sku} never has to choose between two products on sale:
\* whatever creations, edits and deletions overlap, the unique index refuses the sku of
\* another product on sale, and no product comes back on sale.
THEOREM NoTwoOnSaleShareASku == Spec => []NoSharedSku
  BY CatalogInvariant, CatalogInvImplies, PTL

\* Until a product is written under a reader, or a deleted one is hit, every quantity is what
\* the forms, the sales and the cancellations add up to, for any number of orders.
THEOREM QuantitiesAreOwed == Spec => []SoldStaysSold
  BY CatalogInvariant, CatalogInvImplies, PTL

\* As long as requests came one at a time, CategoryService never gives two categories the
\* same name: the name it looked up is still free when it stores it.
THEOREM CategoryNamesStayUnique == Spec => []CategoryNamesUnique
  BY CatalogInvariant, CatalogInvImplies, PTL
-----------------------------------------------------------------------------
(* The cart: what adds up. *)
\* What a shop may offer, and what a cart may hold, of each sku.
Offered == [price : Nat, quantity : Nat] \cup {Gone}
ItemMaps == [Skus -> Nat]

\* The price of items at the offers v: Price, of any offers.
PriceAt(v, items) == SumFunction([s \in Skus |-> v[s].price * items[s]])

\* A cart that adds up at v, and holds no more than v has.
AddsUp(v, cart) ==
  /\ cart.totalAmount = PriceAt(v, cart.items)
  /\ \A s \in Skus : cart.items[s] <= v[s].quantity

\* What a request has read of a cart, or computed from it, adds up.
RequestAddsUp(r) ==
  /\ request[r].at \in {"populate", "write", "create"} => AddsUp(variant, request[r].cart)
  /\ request[r].at = "findCart" => \A s \in request[r].skus :
       /\ request[r].amount = variant[s].price * request[r].quantity
       /\ request[r].remain = variant[s].quantity

\* addToCart is about one sku.
RequestOK(r) ==
  request[r].at = "findCart" => \E s \in Skus : request[r].skus = {s}

\* The cart that a request on its own has read is still the customer's.
CartOneAtATime ==
  /\ \A r, q \in Requests : r # q => request[r] = CartIdle \/ request[q] = CartIdle
  /\ \A r \in Requests :
       /\ request[r].at = "populate" => Exists /\ request[r].cart = carts[1]
       /\ request[r].at = "write" =>
            /\ Exists
            /\ \A s \in Skus \ request[r].skus : request[r].cart.items[s] = carts[1].items[s]

CartInv ==
  /\ CartTypeOK
  /\ variant \in [Skus -> Offered]
  /\ \A r \in Requests : RequestOK(r)
  /\ edits = 0 =>
       /\ variant = InitialVariants
       /\ \A i \in DOMAIN carts : AddsUp(variant, carts[i])
       /\ \A r \in Requests : RequestAddsUp(r)
  /\ ~overlapped => CartOneAtATime

RequestRecord ==
  [op : {"none", "addToCart", "getCart", "updateCart", "deleteItemInCart", "processWebhook"},
   at : {"idle", "findCart", "populate", "write", "create"},
   skus : SUBSET Skus, quantity : Nat, amount : Nat, remain : Nat, cart : CartDocument]
-----------------------------------------------------------------------------
(* The cart: its price. *)

\* Cart and SharedLemmas mean the same sum.
LEMMA SameSum == \A f : SumFunction(f) = Shared!SumFunction(f)
  BY DEF SumFunction, SumFunctionOnSet, FoldFunction, FoldFunctionOnSet, MapThenFoldSet,
     Shared!SumFunction, Shared!SumFunctionOnSet, Shared!FoldFunction,
     Shared!FoldFunctionOnSet, Shared!MapThenFoldSet

\* The shop has finitely many skus: Cart and SharedLemmas mean the same by finite.
LEMMA FiniteSkus == Shared!IsFiniteSet(Skus)
  BY CartAssumption DEF IsFiniteSet, Shared!IsFiniteSet

\* What each sku of a cart costs is an integer; a sku that is gone costs nothing.
LEMMA PricesInt ==
  ASSUME NEW v \in [Skus -> Offered], NEW items \in ItemMaps
  PROVE  [s \in Skus |-> v[s].price * items[s]] \in [Skus -> Int]
  <1>1. \A s \in Skus : v[s].price \in Nat
    BY DEF Offered, Gone
  <1> QED BY <1>1 DEF ItemMaps

\* So is the price of a cart, over any finite set of skus.
LEMMA PriceInt ==
  ASSUME NEW v \in [Skus -> Offered], NEW items \in ItemMaps
  PROVE  PriceAt(v, items) \in Int
  BY PricesInt, FiniteSkus, SameSum, Shared!SumInt DEF PriceAt

\* An empty cart costs nothing.
LEMMA PriceOfNothing ==
  ASSUME NEW v \in [Skus -> Offered]
  PROVE  PriceAt(v, NoItems) = 0
  <1> DEFINE f == [s \in Skus |-> v[s].price * NoItems[s]]
  <1>1. \A s \in Skus : v[s].price \in Nat
    BY DEF Offered, Gone
  <1>2. DOMAIN f = Skus /\ \A s \in Skus : f[s] = 0
    BY <1>1 DEF NoItems
  <1> HIDE DEF f
  <1>3. Shared!SumFunction(f) = 0
    BY <1>2, FiniteSkus, Shared!SumZero
  <1> QED BY <1>3, SameSum DEF PriceAt, f

\* q more of one sku cost q times its price.
LEMMA PriceOfMore ==
  ASSUME NEW v \in [Skus -> Offered], NEW had \in ItemMaps,
         NEW items \in ItemMaps,
         NEW s \in Skus, NEW q \in Nat, items[s] = had[s] + q,
         \A t \in Skus \ {s} : items[t] = had[t]
  PROVE  PriceAt(v, items) = PriceAt(v, had) + v[s].price * q
  <1> DEFINE f == [t \in Skus |-> v[t].price * had[t]]
             g == [t \in Skus |-> v[t].price * items[t]]
  <1>1. f \in [Skus -> Int] /\ g \in [Skus -> Int]
    BY PricesInt
  <1>2. \A t \in Skus \ {s} : g[t] = f[t]
    OBVIOUS
  <1>3. g[s] - f[s] = v[s].price * q
    <2>1. v[s].price \in Nat /\ had[s] \in Nat
      BY DEF Offered, Gone, ItemMaps
    <2>2. g[s] = v[s].price * (had[s] + q) /\ f[s] = v[s].price * had[s]
      OBVIOUS
    <2>3. \A a, b, c \in Nat : a * (b + c) - a * b = a * c
      OBVIOUS
    <2> QED BY <2>1, <2>2, <2>3
  <1> HIDE DEF f, g
  <1>4. Shared!SumFunction(g) = Shared!SumFunction(f) + (g[s] - f[s])
    BY <1>1, <1>2, FiniteSkus, Shared!SumChange
  <1> QED BY <1>3, <1>4, SameSum DEF PriceAt, f, g

\* A cart costs what is taken out of it and what is left.
LEMMA PriceOfParts ==
  ASSUME NEW v \in [Skus -> Offered], NEW items \in ItemMaps,
         NEW skus \in SUBSET Skus
  PROVE  /\ Only(items, skus) \in ItemMaps /\ Without(items, skus) \in ItemMaps
         /\ PriceAt(v, items) = PriceAt(v, Only(items, skus))
              + PriceAt(v, Without(items, skus))
  <1> DEFINE h == [t \in Skus |-> v[t].price * items[t]]
             f == [t \in Skus |-> v[t].price * Only(items, skus)[t]]
             g == [t \in Skus |-> v[t].price * Without(items, skus)[t]]
  <1>1. Only(items, skus) \in ItemMaps /\ Without(items, skus) \in ItemMaps
    BY DEF Only, Without, ItemMaps
  <1>2. f \in [Skus -> Int] /\ g \in [Skus -> Int] /\ DOMAIN h = Skus
    BY <1>1, PricesInt
  <1>3. ASSUME NEW t \in Skus PROVE h[t] = f[t] + g[t]
    <2>1. v[t].price \in Nat /\ items[t] \in Nat
      BY DEF Offered, Gone, ItemMaps
    <2>2. CASE t \in skus
      BY <2>1, <2>2 DEF Only, Without
    <2>3. CASE t \notin skus
      BY <2>1, <2>3 DEF Only, Without
    <2> QED BY <2>2, <2>3
  <1> HIDE DEF f, g, h
  <1>4. Shared!SumFunction(h) = Shared!SumFunction(f) + Shared!SumFunction(g)
    BY <1>2, <1>3, FiniteSkus, Shared!SumPlus
  <1> QED BY <1>1, <1>4, SameSum DEF PriceAt, f, g, h
-----------------------------------------------------------------------------
(* The cart: the invariant. *)

\* The type of request, under the name the lemmas use for it.
LEMMA RequestTypes == CartTypeOK => request \in [Requests -> RequestRecord]
  BY DEF CartTypeOK, RequestRecord

\* What is in a cart document.
LEMMA CartTypes ==
  /\ EmptyCart \in CartDocument /\ CartIdle \in RequestRecord
       /\ NoItems \in ItemMaps
  /\ \A cart \in CartDocument : cart.items \in ItemMaps /\ cart.totalAmount \in Int
  <1>1. NoItems \in ItemMaps /\ EmptyCart \in CartDocument
    BY DEF NoItems, ItemMaps, EmptyCart, CartDocument
  <1>2. CartIdle \in RequestRecord
    BY <1>1 DEF CartIdle, RequestRecord
  <1> QED BY <1>1, <1>2 DEF CartDocument, ItemMaps

\* findOne finds a document if there is one.
LEMMA FirstCart ==
  ASSUME CartTypeOK, Exists
  PROVE  1 \in DOMAIN carts /\ carts[1] \in CartDocument
  BY DEF CartTypeOK, Exists

\* A customer without a cart, or with an empty one.
LEMMA CartInitInv ==
  ASSUME CartInit
  PROVE  CartInv
  <1>1. /\ variant = InitialVariants /\ edits = 0 /\ overlapped = FALSE
        /\ request = [r \in Requests |-> CartIdle]
        /\ carts = <<>> \/ carts = <<EmptyCart>>
    BY DEF CartInit
  <1>2. variant \in [Skus -> [price : Nat, quantity : Nat]]
    BY <1>1, CartAssumption
  <1>3. \A s \in Skus : variant[s] \in [price : Nat, quantity : Nat \cup {-1}]
          /\ variant[s] \in Offered
    BY <1>2 DEF Offered
  <1>4. /\ variant \in [Skus -> [price : Nat, quantity : Nat \cup {-1}]]
        /\ variant \in [Skus -> Offered]
    BY <1>2, <1>3
  <1>5. CartTypeOK
    <2>1. carts \in Seq(CartDocument)
      <3>1. <<>> \in Seq(CartDocument)
              /\ \A d \in CartDocument : <<d>> \in Seq(CartDocument)
        OBVIOUS
      <3>2. <<EmptyCart>> \in Seq(CartDocument)
        BY <3>1, CartTypes
      <3>3. CASE carts = <<>>
        BY <3>1, <3>3
      <3>4. CASE carts = <<EmptyCart>>
        BY <3>2, <3>4
      <3> QED BY <1>1, <3>3, <3>4
    <2>2. request \in [Requests -> RequestRecord] /\ edits \in 0..MaxEdits
      BY <1>1, CartTypes, CartAssumption
    <2> QED BY <1>1, <1>4, <2>1, <2>2 DEF CartTypeOK, RequestRecord
  <1>6. \A r \in Requests : request[r] = CartIdle /\ request[r].at = "idle"
    BY <1>1 DEF CartIdle
  <1>7. ASSUME NEW i \in DOMAIN carts PROVE AddsUp(variant, carts[i])
    <2>1. carts[i] = EmptyCart
      BY <1>1
    <2>2. AddsUp(variant, EmptyCart)
      BY <1>2, <1>4, PriceOfNothing DEF AddsUp, EmptyCart, NoItems
    <2> QED BY <2>1, <2>2
  <1> QED BY <1>1, <1>4, <1>5, <1>6, <1>7 DEF CartInv, RequestOK, RequestAddsUp, CartOneAtATime

\* A request goes on, or begins, without writing: what it now carries has to be right.
LEMMA CartGoesOn ==
  ASSUME CartInv, NEW r \in Requests, NEW next \in RequestRecord,
         request' = [request EXCEPT ![r] = next], UNCHANGED <<variant, carts, edits>>,
         overlapped' \in BOOLEAN, overlapped => overlapped',
         next.at = "findCart" => \E s \in Skus : next.skus = {s},
         edits = 0 =>
           /\ next.at \in {"populate", "write", "create"} => AddsUp(variant, next.cart)
           /\ next.at = "findCart" => \A s \in next.skus :
                next.amount = variant[s].price * next.quantity /\ next.remain = variant[s].quantity,
         ~overlapped' =>
           /\ next = CartIdle \/ \A q \in Requests \ {r} : request[q] = CartIdle
           /\ next.at = "populate" => Exists /\ next.cart = carts[1]
           /\ next.at = "write" =>
                /\ Exists
                /\ \A s \in Skus \ next.skus : next.cart.items[s] = carts[1].items[s]
  PROVE  CartInv'
  <1>t. CartTypeOK /\ request \in [Requests -> RequestRecord]
    BY RequestTypes DEF CartInv
  <1>1. request'[r] = next /\ \A q \in Requests \ {r} : request'[q] = request[q]
    BY <1>t
  <1>2. CartTypeOK'
    <2>1. request' \in [Requests -> RequestRecord]
      BY <1>t
    <2> QED BY <1>t, <2>1 DEF CartTypeOK, RequestRecord
  <1>3. ASSUME NEW q \in Requests PROVE RequestOK(q)'
    BY <1>1 DEF CartInv, RequestOK
  <1>4. ASSUME edits' = 0 
        PROVE  /\ variant' = InitialVariants
               /\ \A i \in DOMAIN carts' : AddsUp(variant, carts[i])'
               /\ \A q \in Requests : RequestAddsUp(q)'
    <2>1. edits = 0
      BY <1>4
    <2>2. \A q \in Requests : RequestAddsUp(q)'
      BY <1>1, <2>1 DEF CartInv, RequestAddsUp, AddsUp
    <2> QED BY <2>1, <2>2 DEF CartInv, AddsUp
  <1>5. ASSUME ~overlapped' PROVE CartOneAtATime'
    <2>1. CartOneAtATime
      BY <1>5 DEF CartInv
    <2>2. ASSUME NEW q \in Requests, NEW p \in Requests, p # q
          PROVE  request'[q] = CartIdle \/ request'[p] = CartIdle
      BY <1>1, <1>5, <2>1, <2>2 DEF CartOneAtATime
    <2>3. ASSUME NEW q \in Requests
          PROVE  /\ request'[q].at = "populate" => Exists /\ request'[q].cart = carts[1]
                 /\ request'[q].at = "write" =>
                      /\ Exists
                      /\ \A s \in Skus \ request'[q].skus : request'[q].cart.items[s]
                           = carts[1].items[s]
      BY <1>1, <1>5, <2>1 DEF CartOneAtATime
    <2>4. Exists' <=> Exists
      BY DEF Exists
    <2> QED BY <2>2, <2>3, <2>4 DEF CartOneAtATime
  <1>6. variant' \in [Skus -> Offered]
    BY DEF CartInv
  <1> QED BY <1>2, <1>3, <1>4, <1>5, <1>6 DEF CartInv

\* A request that ends, whatever it has done.
LEMMA CartFinishKeeps ==
  ASSUME CartInv, NEW r \in Requests, FinishOnCart(r),
         UNCHANGED <<variant, carts, edits, overlapped>>
  PROVE  CartInv'
  <1>1. PICK next : next = CartIdle
    OBVIOUS
  <1>2. next \in RequestRecord /\ next.at = "idle"
    BY <1>1, CartTypes DEF CartIdle
  <1>3. overlapped' \in BOOLEAN
    BY DEF CartInv, CartTypeOK
  <1> QED BY <1>1, <1>2, <1>3, CartGoesOn DEF FinishOnCart

\* A request that starts knows of every other.
LEMMA CartStartOverlaps ==
  ASSUME CartInv, NEW r \in Requests, NEW rec, StartOnCart(r, rec)
  PROVE  /\ request' = [request EXCEPT ![r] = rec]
         /\ overlapped' \in BOOLEAN /\ (overlapped => overlapped')
         /\ ~overlapped' => \A q \in Requests \ {r} : request[q] = CartIdle
  BY DEF CartInv, CartTypeOK, StartOnCart
\* addToCart and getCart begin: the product as it was read gives the price.
LEMMA BeginAddStep ==
  ASSUME CartInv, NEW r \in Requests, NEW s \in Skus,
         NEW q \in 1..MaxQuantity, BeginAdd(r, s, q)
  PROVE  CartInv'
  <1> DEFINE amount == variant[s].price * q
             remain == variant[s].quantity
  <1>1. PICK next : next = [CartIdle EXCEPT !.op = "addToCart", !.at = "findCart", !.skus = {s},
                                        !.quantity = q, !.amount = amount, !.remain = remain]
    OBVIOUS
  <1>2. variant[s] # Gone /\ StartOnCart(r, next) /\ UNCHANGED <<variant, carts, edits>>
    BY <1>1 DEF BeginAdd
  <1>3. variant[s].price \in Nat /\ remain \in Nat /\ q \in Nat
    BY <1>2, CartAssumption DEF CartInv, Offered
  <1>4. amount \in Nat
    BY <1>3
  <1> HIDE DEF amount, remain
  <1>5. /\ next \in RequestRecord /\ next.at = "findCart" /\ next.skus = {s}
        /\ next.quantity = q /\ next.amount = amount /\ next.remain = remain
    BY <1>1, <1>3, <1>4, CartTypes DEF RequestRecord, CartIdle
  <1> QED BY <1>2, <1>5, CartStartOverlaps, CartGoesOn DEF amount, remain

\* getCart reads a cart, and begins to store an empty one if it found none.
LEMMA GetCartStep ==
  ASSUME CartInv, NEW r \in Requests, GetCart(r)
  PROVE  CartInv'
  <1>1. PICK next : next = [CartIdle EXCEPT !.op = "getCart", !.at = "create"]
    OBVIOUS
  <1>2. StartOnCart(r, next) /\ UNCHANGED <<variant, carts, edits>>
    BY <1>1 DEF GetCart
  <1>3. next \in RequestRecord /\ next.at = "create" /\ next.cart = EmptyCart
    BY <1>1, CartTypes DEF RequestRecord, CartIdle
  <1>4. edits = 0 => AddsUp(variant, EmptyCart)
    <2>1. edits = 0 => \A s \in Skus : variant[s].quantity \in Nat
      BY CartAssumption DEF CartInv
    <2>2. EmptyCart.items = NoItems /\ EmptyCart.totalAmount = 0
            /\ \A s \in Skus : NoItems[s] = 0
      BY DEF EmptyCart, NoItems
    <2> QED BY <2>1, <2>2, PriceOfNothing DEF AddsUp, CartInv
  <1> QED BY <1>2, <1>3, <1>4, CartStartOverlaps, CartGoesOn

\* A change begins with the cart as it is.
LEMMA BeginChangeStep ==
  ASSUME CartInv, NEW r \in Requests,
         NEW op \in {"updateCart", "deleteItemInCart", "processWebhook"},
         NEW skus \in SUBSET Skus, NEW q \in 1..MaxQuantity, BeginChange(r, op, skus, q)
  PROVE  CartInv'
  <1>1. PICK next : next = [CartIdle EXCEPT !.op = op, !.at = "populate", !.skus = skus,
                                        !.quantity = q, !.cart = carts[1]]
    OBVIOUS
  <1>2. Exists /\ StartOnCart(r, next) /\ UNCHANGED <<variant, carts, edits>>
    BY <1>1 DEF BeginChange
  <1>3. 1 \in DOMAIN carts /\ carts[1] \in CartDocument /\ q \in Nat
    BY <1>2, FirstCart, CartAssumption DEF CartInv
  <1>4. next \in RequestRecord /\ next.at = "populate" /\ next.cart = carts[1]
    BY <1>1, <1>3, CartTypes DEF RequestRecord, CartIdle
  <1>5. edits = 0 => AddsUp(variant, carts[1])
    BY <1>3 DEF CartInv
  <1> QED BY <1>2, <1>4, <1>5, CartStartOverlaps, CartGoesOn
\* The one sku of addToCart: what is computed costs the amount more.
LEMMA AddStep ==
  ASSUME CartInv, NEW r \in Requests, AddToCart(r)
  PROVE  CartInv'
  <1> DEFINE q == request[r].quantity
             had == IF Exists THEN carts[1].items ELSE NoItems
             items == [s \in Skus |-> IF s \in request[r].skus THEN had[s] + q ELSE had[s]]
             total == IF Exists THEN carts[1].totalAmount
               + request[r].amount ELSE request[r].amount
             fits == \A s \in request[r].skus : items[s] <= request[r].remain
             doc == [items |-> items, totalAmount |-> total]
             label == IF Exists THEN "write" ELSE "create"
  <1>t. CartTypeOK /\ request[r] \in RequestRecord
    BY RequestTypes DEF CartInv
  <1>u. request[r].at = "findCart" /\ UNCHANGED <<variant, carts, edits, overlapped>>
    BY DEF AddToCart
  <1>0. CASE FinishOnCart(r)
    BY <1>0, <1>u, CartFinishKeeps
  <1>1. CASE fits /\ request' = [request EXCEPT ![r]
               = [request[r] EXCEPT !.at = label, !.cart = doc]]
    <2>1. PICK next : next = [request[r] EXCEPT !.at = label, !.cart = doc]
      OBVIOUS
    <2>2. had \in ItemMaps
      BY <1>t, FirstCart, CartTypes
    <2>3. q \in Nat /\ request[r].amount \in Nat /\ request[r].skus \in SUBSET Skus
      BY <1>t DEF RequestRecord
    <2>4. items \in ItemMaps /\ total \in Int
      <3>1. items \in ItemMaps
        BY <2>2, <2>3 DEF ItemMaps
      <3>2. total \in Int
        BY <1>t, <2>3, FirstCart, CartTypes
      <3> QED BY <3>1, <3>2
    <2>5. doc \in CartDocument /\ doc.items = items /\ doc.totalAmount = total
      BY <2>4 DEF CartDocument, ItemMaps
    <2>6. \A s \in Skus : items[s] = IF s \in request[r].skus THEN had[s] + q ELSE had[s]
      OBVIOUS
    <2> HIDE DEF doc, items
    <2>7. /\ next \in RequestRecord /\ next.at = label /\ next.cart = doc
          /\ next.skus = request[r].skus
      BY <2>1, <2>5, <1>t DEF RequestRecord
    <2>8. PICK s \in Skus : request[r].skus = {s}
      BY <1>u DEF CartInv, RequestOK
    <2>9. edits = 0 => AddsUp(variant, doc)
      <3> SUFFICES ASSUME edits = 0 PROVE AddsUp(variant, doc)
        OBVIOUS
      <3>0. variant \in [Skus -> Offered]
        BY DEF CartInv
      <3>1. \A t \in Skus : variant[t].quantity \in Nat
        BY CartAssumption DEF CartInv
      <3>2. /\ PriceAt(variant, had) = IF Exists THEN carts[1].totalAmount ELSE 0
            /\ \A t \in Skus : had[t] <= variant[t].quantity
        <4>1. CASE Exists
          BY <4>1, <1>t, FirstCart DEF CartInv, AddsUp
        <4>2. CASE ~Exists
          <5>1. \A t \in Skus : NoItems[t] = 0
            BY DEF NoItems
          <5> QED BY <4>2, <5>1, <3>0, <3>1, PriceOfNothing
        <4> QED BY <4>1, <4>2
      <3>3. request[r].amount = variant[s].price * q /\ request[r].remain = variant[s].quantity
        BY <1>u, <2>8 DEF CartInv, RequestAddsUp
      <3>4. PriceAt(variant, items) = PriceAt(variant, had) + request[r].amount
        BY <2>2, <2>3, <2>4, <2>6, <2>8, <3>0, <3>3, PriceOfMore
      <3>5. total = PriceAt(variant, items)
        BY <2>3, <3>2, <3>4
      <3>6. \A t \in Skus : items[t] <= variant[t].quantity
        BY <1>1, <2>6, <2>8, <3>2, <3>3 DEF items
      <3> QED BY <2>5, <3>5, <3>6 DEF AddsUp
    <2>10. ~overlapped => /\ \A p \in Requests \ {r} : request[p] = CartIdle
                          /\ Exists => \A t \in Skus \ request[r].skus : items[t]
                               = carts[1].items[t]
      <3>1. request[r] # CartIdle
        BY <1>u DEF CartIdle
      <3> QED BY <2>6, <3>1 DEF CartInv, CartOneAtATime
    <2>11. overlapped' \in BOOLEAN
      BY <1>t, <1>u DEF CartTypeOK
    <2>12. next.at # "findCart" /\ next.at # "populate" /\ (next.at = "write" => Exists)
      BY <2>7
    <2>13. request' = [request EXCEPT ![r] = next]
      BY <1>1, <2>1
    <2>14. ~overlapped /\ next.at = "write" =>
             \A t \in Skus \ next.skus : next.cart.items[t] = carts[1].items[t]
      BY <2>5, <2>7, <2>10, <2>12
    <2> HIDE DEF label, total, had, fits
    <2> QED BY <1>u, <2>7, <2>9, <2>10, <2>11, <2>12, <2>13, <2>14, CartGoesOn
  <1>2. \/ FinishOnCart(r)
        \/ fits /\ request' = [request EXCEPT ![r] = [request[r] EXCEPT !.at = label, !.cart = doc]]
    BY DEF AddToCart, Store, Create
  <1> QED BY <1>0, <1>1, <1>2

\* What the other changes will store: the total changes as the items do.
LEMMA StoreStep ==
  ASSUME CartInv, NEW r \in Requests, request[r].at = "populate",
         NEW items \in ItemMaps, NEW total \in Int, Store(r, items, total),
         UNCHANGED <<variant, carts, edits, overlapped>>,
         \A s \in Skus \ request[r].skus : items[s] = request[r].cart.items[s],
         edits = 0 => AddsUp(variant, [items |-> items, totalAmount |-> total])
  PROVE  CartInv'
  <1>t. CartTypeOK /\ request[r] \in RequestRecord
    BY RequestTypes DEF CartInv
  <1> DEFINE doc == [items |-> items, totalAmount |-> total]
  <1>1. doc \in CartDocument /\ doc.items = items
    BY DEF CartDocument, ItemMaps
  <1>2. edits = 0 => AddsUp(variant, doc)
    OBVIOUS
  <1>3. PICK next : next = [request[r] EXCEPT !.at = "write", !.cart = doc]
    OBVIOUS
  <1>4. request' = [request EXCEPT ![r] = next]
    BY <1>3 DEF Store
  <1> HIDE DEF doc
  <1>5. next \in RequestRecord /\ next.at = "write" /\ next.cart = doc
          /\ next.skus = request[r].skus
    BY <1>1, <1>3, <1>t DEF RequestRecord
  <1>6. ~overlapped => /\ \A p \in Requests \ {r} : request[p] = CartIdle
                       /\ Exists
                       /\ \A s \in Skus \ request[r].skus : items[s] = carts[1].items[s]
    <2>1. request[r] # CartIdle
      BY DEF CartIdle
    <2> QED BY <2>1 DEF CartInv, CartOneAtATime
  <1>7. overlapped' \in BOOLEAN
    BY <1>t DEF CartTypeOK
  <1> QED BY <1>1, <1>2, <1>4, <1>5, <1>6, <1>7, CartGoesOn
\* What a change computes from the cart it has read.
LEMMA ReadTypes ==
  ASSUME CartInv, NEW r \in Requests
  PROVE  /\ request[r].cart \in CartDocument /\ request[r].cart.items \in ItemMaps
         /\ request[r].cart.totalAmount \in Int
         /\ request[r].skus \in SUBSET Skus /\ request[r].quantity \in Nat
         /\ variant \in [Skus -> Offered]
         /\ edits = 0 /\ request[r].at = "populate" =>
              /\ request[r].cart.totalAmount = PriceAt(variant, request[r].cart.items)
              /\ \A s \in Skus : request[r].cart.items[s] <= variant[s].quantity
  <1>1. request[r] \in RequestRecord
    BY RequestTypes DEF CartInv
  <1>2. request[r].cart \in CartDocument /\ request[r].skus \in SUBSET Skus
          /\ request[r].quantity \in Nat
    BY <1>1 DEF RequestRecord
  <1>3. edits = 0 /\ request[r].at = "populate" => AddsUp(variant, request[r].cart)
    BY DEF CartInv, RequestAddsUp
  <1> QED BY <1>2, <1>3, CartTypes DEF CartInv, AddsUp

\* The items that are not changed cost as much before as after.
LEMMA UpdateCartStep ==
  ASSUME CartInv, NEW r \in Requests, UpdateCart(r)
  PROVE  CartInv'
  <1> DEFINE q == request[r].quantity
             skus == request[r].skus
             had == request[r].cart.items
             items == [s \in Skus |-> IF s \in skus THEN q ELSE had[s]]
             fits == \A s \in skus : variant[s] # Gone /\ q <= variant[s].quantity
             total == request[r].cart.totalAmount + PriceAt(variant, Only(items, skus))
                                                  - PriceAt(variant, Only(had, skus))
  <1>1. request[r].at = "populate" /\ UNCHANGED <<variant, carts, edits, overlapped>>
    BY DEF UpdateCart
  <1>2. FinishOnCart(r) \/ (fits /\ Store(r, items, total))
    BY DEF UpdateCart, Price, PriceAt
  <1>3. CASE FinishOnCart(r)
    BY <1>1, <1>3, CartFinishKeeps
  <1>4. CASE fits /\ Store(r, items, total)
    <2>1. /\ had \in ItemMaps /\ request[r].cart.totalAmount \in Int /\ skus \in SUBSET Skus
               /\ q \in Nat
          /\ variant \in [Skus -> Offered]
          /\ edits = 0 => /\ request[r].cart.totalAmount = PriceAt(variant, had)
                          /\ \A s \in Skus : had[s] <= variant[s].quantity
      BY <1>1, ReadTypes
    <2>2. items \in ItemMaps /\ \A s \in Skus : items[s] = IF s \in skus THEN q ELSE had[s]
      BY <2>1 DEF ItemMaps
    <2>3. Without(items, skus) = Without(had, skus)
      BY <2>2 DEF Without
    <2> HIDE DEF items, had
    <2>4. /\ Only(items, skus) \in ItemMaps /\ Only(had, skus) \in ItemMaps
          /\ Without(had, skus) \in ItemMaps
          /\ PriceAt(variant, items) = PriceAt(variant, Only(items, skus))
               + PriceAt(variant, Without(had, skus))
          /\ PriceAt(variant, had) = PriceAt(variant, Only(had, skus))
               + PriceAt(variant, Without(had, skus))
      BY <2>1, <2>2, <2>3, PriceOfParts
    <2>5. /\ PriceAt(variant, Only(items, skus)) \in Int
               /\ PriceAt(variant, Only(had, skus)) \in Int
          /\ PriceAt(variant, Without(had, skus)) \in Int
      BY <2>1, <2>4, PriceInt
    <2>6. total \in Int /\ (edits = 0 => total = PriceAt(variant, items))
      BY <2>1, <2>4, <2>5
    <2>7. edits = 0 => \A s \in Skus : items[s] <= variant[s].quantity
      BY <1>4, <2>1, <2>2
    <2> HIDE DEF total
    <2>8. edits = 0 => AddsUp(variant, [items |-> items, totalAmount |-> total])
      BY <2>6, <2>7 DEF AddsUp
    <2>9. \A s \in Skus \ skus : items[s] = had[s]
      BY <2>2
    <2> QED BY <1>1, <1>4, <2>2, <2>6, <2>8, <2>9, StoreStep DEF had
  <1> QED BY <1>2, <1>3, <1>4

\* deleteItemInCart and a paid notification take items out, and their price.
LEMMA TakeOutStep ==
  ASSUME CartInv, NEW r \in Requests,
         DeleteItemInCart(r) \/ CaptureItems(r)
  PROVE  CartInv'
  <1> DEFINE skus == request[r].skus
             had == request[r].cart.items
             items == Without(had, skus)
             total == request[r].cart.totalAmount - PriceAt(variant, Only(had, skus))
  <1>1. request[r].at = "populate" /\ UNCHANGED <<variant, carts, edits, overlapped>>
    BY DEF DeleteItemInCart, CaptureItems
  <1>2. FinishOnCart(r) \/ Store(r, items, total)
    BY DEF DeleteItemInCart, CaptureItems, Price, PriceAt
  <1>3. CASE FinishOnCart(r)
    BY <1>1, <1>3, CartFinishKeeps
  <1>4. CASE Store(r, items, total)
    <2>1. /\ had \in ItemMaps /\ request[r].cart.totalAmount \in Int /\ skus \in SUBSET Skus
          /\ variant \in [Skus -> Offered]
          /\ edits = 0 => /\ request[r].cart.totalAmount = PriceAt(variant, had)
                          /\ \A s \in Skus : had[s] <= variant[s].quantity
      BY <1>1, ReadTypes
    <2>2. \A s \in Skus : items[s] = IF s \in skus THEN 0 ELSE had[s]
      BY DEF Without
    <2> HIDE DEF had
    <2>3. /\ Only(had, skus) \in ItemMaps /\ items \in ItemMaps
          /\ PriceAt(variant, had) = PriceAt(variant, Only(had, skus))
               + PriceAt(variant, items)
      BY <2>1, PriceOfParts
    <2>4. PriceAt(variant, Only(had, skus)) \in Int /\ PriceAt(variant, items) \in Int
      BY <2>1, <2>3, PriceInt
    <2> HIDE DEF items
    <2>5. total \in Int /\ (edits = 0 => total = PriceAt(variant, items))
      BY <2>1, <2>3, <2>4
    <2>6. edits = 0 => \A s \in Skus : items[s] <= variant[s].quantity
      <3> SUFFICES ASSUME edits = 0, NEW s \in Skus PROVE items[s] <= variant[s].quantity
        OBVIOUS
      <3>1. variant[s].quantity \in Nat
        BY CartAssumption DEF CartInv
      <3> QED BY <2>1, <2>2, <3>1
    <2> HIDE DEF total
    <2>7. edits = 0 => AddsUp(variant, [items |-> items, totalAmount |-> total])
      BY <2>5, <2>6 DEF AddsUp
    <2>8. \A s \in Skus \ skus : items[s] = had[s]
      BY <2>2
    <2> QED BY <1>1, <1>4, <2>3, <2>5, <2>7, <2>8, StoreStep DEF had
  <1> QED BY <1>2, <1>3, <1>4

\* A cart that is written, or a new one: what the request carried adds up.
LEMMA CartsChange ==
  ASSUME CartInv, NEW r \in Requests, request[r] # CartIdle, FinishOnCart(r),
         UNCHANGED <<variant, edits, overlapped>>,
         carts' \in Seq(CartDocument),
         edits = 0 => \A i \in DOMAIN carts' : AddsUp(variant, carts'[i])
  PROVE  CartInv'
  <1>t. CartTypeOK /\ request \in [Requests -> RequestRecord]
    BY RequestTypes DEF CartInv
  <1>1. request'[r] = CartIdle /\ \A q \in Requests \ {r} : request'[q] = request[q]
    BY <1>t DEF FinishOnCart
  <1>2. CartTypeOK'
    <2>1. request' \in [Requests -> RequestRecord]
      BY <1>t, CartTypes DEF FinishOnCart
    <2> QED BY <1>t, <2>1 DEF CartTypeOK, RequestRecord
  <1>3. \A q \in Requests : RequestOK(q)'
    BY <1>1 DEF CartInv, RequestOK, CartIdle
  <1>4. edits' = 0 => \A q \in Requests : RequestAddsUp(q)'
    BY <1>1 DEF CartInv, RequestAddsUp, AddsUp, CartIdle
  <1>5. ~overlapped' => CartOneAtATime'
    <2>1. ~overlapped => \A q \in Requests : request'[q] = CartIdle
      BY <1>1 DEF CartInv, CartOneAtATime
    <2>2. CartIdle.at = "idle"
      BY DEF CartIdle
    <2> SUFFICES ASSUME ~overlapped' PROVE CartOneAtATime'
      OBVIOUS
    <2>3. \A q \in Requests : request'[q] = CartIdle
      BY <2>1
    <2> QED BY <2>2, <2>3 DEF CartOneAtATime
  <1>6. edits' = 0 => \A i \in DOMAIN carts' : AddsUp(variant, carts[i])'
    BY DEF AddsUp
  <1>7. /\ variant' \in [Skus -> Offered]
        /\ edits' = 0 => variant' = InitialVariants
    BY DEF CartInv
  <1> QED BY <1>2, <1>3, <1>4, <1>5, <1>6, <1>7 DEF CartInv

\* What is stored is what the request has computed; its other items are the customer's as
\* long as nobody else has stored a cart since they were read.
LEMMA WriteStep ==
  ASSUME CartInv, NEW r \in Requests, WriteCart(r) \/ CreateCart(r)
  PROVE  CartInv'
  <1>t. CartTypeOK /\ request[r] \in RequestRecord
    BY RequestTypes DEF CartInv
  <1>1. PICK cart : cart = request[r].cart
    OBVIOUS
  <1>2. cart \in CartDocument /\ (edits = 0 => AddsUp(variant, cart))
    BY <1>1, <1>t DEF RequestRecord, WriteCart, CreateCart, CartInv, RequestAddsUp
  <1>3. /\ request[r] # CartIdle /\ FinishOnCart(r) /\ UNCHANGED <<variant, edits, overlapped>>
        /\ carts' = [carts EXCEPT ![1] = cart] \/ carts' = Append(carts, cart)
    BY <1>1 DEF WriteCart, CreateCart, CartIdle
  <1>4. carts \in Seq(CartDocument)
          /\ (edits = 0 => \A i \in DOMAIN carts : AddsUp(variant, carts[i]))
    BY <1>t DEF CartTypeOK, CartInv
  <1>5. /\ carts' \in Seq(CartDocument)
        /\ \A i \in DOMAIN carts' : carts'[i] = cart \/ (i \in DOMAIN carts /\ carts'[i] = carts[i])
    BY <1>2, <1>3, <1>4
  <1>6. edits = 0 => \A i \in DOMAIN carts' : AddsUp(variant, carts'[i])
    BY <1>2, <1>4, <1>5
  <1> QED BY <1>3, <1>5, <1>6, CartsChange

\* What an edit of a product puts in the place of what a cart has adds up to nothing:
\* from then on nothing is claimed of the totals.
LEMMA EditStep ==
  ASSUME CartInv, NEW s \in Skus, NEW v \in Variants \cup {Gone},
         EditProduct(s, v)
  PROVE  CartInv'
  <1>1. /\ variant' = [variant EXCEPT ![s] = v] /\ edits < MaxEdits /\ edits' = edits + 1
        /\ UNCHANGED <<carts, request, overlapped>>
    BY DEF EditProduct
  <1>t. CartTypeOK /\ variant \in [Skus -> Offered] /\ edits \in 0..MaxEdits
    BY DEF CartInv, CartTypeOK
  <1>2. v \in Offered /\ v \in [price : Nat, quantity : Nat \cup {-1}]
    <2>1. \A w \in [price : Nat, quantity : Nat] : w \in [price : Nat, quantity : Nat \cup {-1}]
      OBVIOUS
    <2>2. Gone \in [price : Nat, quantity : Nat \cup {-1}]
      BY DEF Gone
    <2> QED BY <2>1, <2>2, CartAssumption DEF Offered
  <1>3. /\ variant' \in [Skus -> Offered]
        /\ variant' \in [Skus -> [price : Nat, quantity : Nat \cup {-1}]]
    BY <1>1, <1>2, <1>t DEF CartTypeOK
  <1>4. edits' \in 0..MaxEdits /\ edits' # 0
    BY <1>1, <1>t, CartAssumption
  <1>5. CartTypeOK'
    BY <1>1, <1>3, <1>4, <1>t DEF CartTypeOK
  <1> QED BY <1>1, <1>3, <1>4, <1>5 DEF CartInv, RequestOK, CartOneAtATime, Exists

\* Each step keeps the invariant.
LEMMA CartStep ==
  ASSUME CartInv, [CartNext]_cartVars
  PROVE  CartInv'
  <1>1. CASE UNCHANGED cartVars
    BY <1>1 DEF cartVars, CartInv, CartTypeOK, RequestOK, RequestAddsUp, AddsUp,
         CartOneAtATime, Exists
  <1>2. CASE \E r \in Requests : Begin(r)
    BY <1>2, BeginAddStep, GetCartStep, BeginChangeStep DEF Begin
  <1>3. ASSUME NEW r \in Requests, CartFails(r) PROVE CartInv'
    BY <1>3, CartFinishKeeps DEF CartFails
  <1>4. CASE CartNext
    BY <1>2, <1>3, <1>4, AddStep, UpdateCartStep, TakeOutStep, WriteStep, EditStep DEF CartNext
  <1> QED BY <1>1, <1>4

\* CartInv holds in every reachable state.
LEMMA CartInvariant == CartSpec => []CartInv
  <1>1. CartInit => CartInv
    BY CartInitInv
  <1>2. CartInv /\ [CartNext]_cartVars => CartInv'
    BY CartStep
  <1> QED BY <1>1, <1>2, PTL DEF CartSpec
-----------------------------------------------------------------------------
(* Theorems about the cart. *)

\* Carts, offers and what handlers carry between their awaits keep their types, for any
\* finite set of skus and any number of requests and edits.
THEOREM CartTypeCorrect == CartSpec => []CartTypeOK
  <1>1. CartInv => CartTypeOK
    BY DEF CartInv
  <1> QED BY <1>1, CartInvariant, PTL

\* While no product is edited, addToCart, updateCart, deleteItemInCart and the notification,
\* however they overlap, never store a cart whose totalAmount is not the price of its items
\* or which holds more of a sku than the shop has: whatever of it a handler has read or
\* computed adds up when it is stored, and still did when others stored theirs.
THEOREM CartsAlwaysAddUp == CartSpec => []CartsAddUp
  <1>1. CartInv => CartsAddUp
    BY DEF CartInv, CartsAddUp, AddsUp, Price, PriceAt
  <1> QED BY <1>1, CartInvariant, PTL

\* As long as the customer's requests came one at a time, storing all items back changes
\* only the quantities the request is about: the cart it has read is still the customer's.
THEOREM WritesKeepTheOtherItems == CartSpec => WritesOnlyItsItems
  <1> DEFINE Kept == \A r \in Requests : WriteCart(r) /\ ~overlapped =>
                       \A s \in Skus \ request[r].skus : carts'[1].items[s] = carts[1].items[s]
  <1>1. CartInv => Kept
    <2> SUFFICES ASSUME CartInv, NEW r \in Requests, WriteCart(r), ~overlapped,
                        NEW s \in Skus \ request[r].skus
                 PROVE  carts'[1].items[s] = carts[1].items[s]
      OBVIOUS
    <2>1. Exists /\ request[r].cart.items[s] = carts[1].items[s]
      BY DEF CartInv, CartOneAtATime, WriteCart
    <2>2. carts' = [carts EXCEPT ![1] = request[r].cart] /\ 1 \in DOMAIN carts
      BY <2>1, FirstCart DEF WriteCart, CartInv
    <2>3. carts'[1] = request[r].cart
      BY <2>2
    <2> QED BY <2>1, <2>3
  <1>2. CartInv /\ [CartNext]_cartVars => [Kept]_cartVars
    BY <1>1
  <1> HIDE DEF Kept
  <1>3. CartSpec => [][Kept]_cartVars
    BY <1>2, CartInvariant, PTL DEF CartSpec
  <1> QED BY <1>3 DEF WritesOnlyItsItems, Kept
=============================================================================
