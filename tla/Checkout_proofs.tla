--------------------------- MODULE Checkout_proofs ---------------------------
(***************************************************************************)
(* Theorems about Checkout, for any sets of requests, customers, orders    *)
(* and skus, and any bounds.  The invariant says of every request what it  *)
(* has done to stock and order by the await it is suspended at, and that   *)
(* the order it is about to write is held by its session alone.            *)
(***************************************************************************)
EXTENDS Checkout, SharedLemmas, SequenceTheorems

\* The awaits that each handler passes.
Shape(r) ==
  /\ request[r].op = "none" <=> request[r].at = "idle"
  /\ request[r].op = "createOrder" => request[r].at \in {"getCart", "populate", "create"}
  /\ request[r].op = "cancelOrder" => request[r].at \in {"bulkWrite", "commit"}
  /\ request[r].op = "processWebhook" =>
       /\ request[r].at # "create"
       /\ ~request[r].paid => request[r].at \in {"payment", "order", "commit"}

\* Who commits an order, or cancels it, has written it in its session.
HoldsOrder(r) ==
  request[r].at = "commit" \/ request[r].op = "cancelOrder" => <<"order", request[r].order>> \in held[r]

\* A paid notification that has left its loop over the items has deducted each one,
\* and deducts no more than it has found.
Deducts(r) ==
  request[r].op = "processWebhook" /\ request[r].paid =>
    /\ \A s \in Ordered(request[r].order) : s \in request[r].todo \/ sold[request[r].order][s] > 0
    /\ request[r].at \in {"updateCart", "bulkWrite"} => ItemsValid(request[r], request[r].avail)
    /\ request[r].at \in {"payment", "order", "commit"} => request[r].todo = {}

\* A cancellation works on an order that stays as it was matched, and has returned
\* the items that are no longer on its list.
Returns(r) ==
  LET o == request[r].order
  IN request[r].op = "cancelOrder" =>
       /\ order[o].orderStatus \in {"PENDING", "CONFIRMED"}
       /\ order[o].transactionStatus = "CAPTURED"
       /\ request[r].items = order[o].items
       /\ \A s \in Ordered(o) : s \in request[r].todo \/ restocked[o][s] >= order[o].items[s]
       /\ request[r].at = "commit" => request[r].todo = {}

RequestOK(r) ==
  /\ Shape(r) /\ HoldsOrder(r) /\ Deducts(r) /\ Returns(r)
  /\ request[r].op = "createOrder" => order[request[r].order].orderStatus = "NONE"
  /\ request[r].op = "processWebhook" => order[request[r].order].orderStatus # "NONE"

\* An orderCode is drawn by one request.
CreatesAlone ==
  \A r, q \in Requests :
    request[r].op = "createOrder" /\ request[q].op = "createOrder"
      /\ request[r].order = request[q].order => r = q

\* The cancellation that has returned s and may still succeed, or has succeeded.
Returned(o, s) ==
  \/ order[o].orderStatus = "CANCELED"
  \/ \E r \in Requests :
       request[r].op = "cancelOrder" /\ request[r].order = o /\ s \notin request[r].todo

\* Before that, a sku has been returned by failed cancellations only.
RestockBounded ==
  \A o \in Orders : \A s \in Skus :
    ~Returned(o, s) => restocked[o][s] <= order[o].items[s] * used.failures

OrderOK(o) ==
  /\ order[o].orderStatus = "NONE" => order[o] = NoOrder
  /\ order[o].orderStatus = "CANCELED" =>
       \A s \in Ordered(o) : restocked[o][s] >= order[o].items[s]
  /\ \A s \in Skus : restocked[o][s] <= order[o].items[s] * (1 + used.failures)

\* Requests that came one at a time: once a PayOS order was captured, no notification
\* finds it or has found it.
OneAtATime ==
  /\ \A r, q \in Requests : r # q => request[r].at = "idle" \/ request[q].at = "idle"
  /\ \A o \in Orders : Method[o] = "PAY_OS" =>
       /\ \A i, j \in Captures(o) : i = j
       /\ Captures(o) # {} => ~payment[o].located
       /\ \A r \in Requests :
            request[r].op = "processWebhook" /\ request[r].order = o => Captures(o) = {}

HistoryEntries ==
  {"PENDING", "CONFIRMED", "CANCELED"} \X {"DRAFT", "CAPTURED", "ERROR", "CANCELED"}

CheckoutInv ==
  /\ TypeOK
  /\ SessionsIsolated
  /\ StockNonNegative /\ PaymentAgrees /\ PaidWasDeducted
  /\ \A r \in Requests : RequestOK(r)
  /\ CreatesAlone
  /\ RestockBounded
  /\ \A o \in Orders : OrderOK(o)
  /\ ~overlapped => OneAtATime
-----------------------------------------------------------------------------
\* The bound on the returned units grows with the failures.
LEMMA Multiples ==
  ASSUME NEW a \in Nat, NEW n \in Nat
  PROVE  /\ a * n \in Nat /\ a * (n + 1) = a * n + a /\ a * (1 + n) = a * n + a
         /\ a * (1 + (n + 1)) = a * n + a + a
  OBVIOUS

\* What a request carries.
LEMMA RequestFields ==
  ASSUME TypeOK, NEW r \in Requests
  PROVE  /\ request[r] \in RequestRecord
         /\ request[r].order \in Orders /\ request[r].paid \in BOOLEAN
         /\ request[r].items \in Quantities /\ request[r].avail \in [Skus -> Int]
         /\ request[r].todo \subseteq Skus
         /\ \A s \in Skus : request[r].items[s] \in Nat /\ request[r].avail[s] \in Int
  <1>1. request[r] \in RequestRecord
    BY DEF TypeOK
  <1>2. \A n \in 0..MaxQuantity : n \in Nat
    BY CheckoutAssumption
  <1> QED BY <1>1, <1>2 DEF RequestRecord, Quantities

\* What an order and its counters consist of.
LEMMA OrderFields ==
  ASSUME TypeOK, NEW o \in Orders
  PROVE  /\ order[o] \in OrderRecord /\ payment[o] \in PaymentRecord
         /\ order[o].items \in Quantities
         /\ \A s \in Skus : /\ order[o].items[s] \in Nat
                            /\ sold[o][s] \in Nat /\ restocked[o][s] \in Nat
  <1>1. order[o] \in OrderRecord /\ order[o].items \in Quantities
    BY DEF TypeOK, OrderRecord
  <1>2. \A n \in 0..MaxQuantity : n \in Nat
    BY CheckoutAssumption
  <1> QED BY <1>1, <1>2 DEF TypeOK, Quantities

\* A request that is not there.
LEMMA IdleFields ==
  /\ Idle \in RequestRecord /\ Nothing \in Quantities
  /\ Idle.op = "none" /\ Idle.at = "idle" /\ Idle.todo = {}
  <1>1. (CHOOSE o \in Orders : TRUE) \in Orders
    BY CheckoutAssumption
  <1>2. Nothing \in [Skus -> 0..MaxQuantity] /\ Nothing \in [Skus -> Int]
    BY CheckoutAssumption DEF Nothing
  <1> QED BY <1>1, <1>2 DEF Idle, RequestRecord, Quantities

\* A request that has ended claims nothing.
LEMMA IdleOK ==
  ASSUME NEW r \in Requests, request[r] = Idle
  PROVE  RequestOK(r)
  BY IdleFields DEF RequestOK, Shape, HoldsOrder, Deducts, Returns

\* Nothing has been ordered yet.
LEMMA CheckoutInitInv == Init => CheckoutInv
  <1> SUFFICES ASSUME Init PROVE CheckoutInv
    OBVIOUS
  <1>1. SessionTypeOK(Documents) /\ SessionsIsolated
    BY SessionInitIsolated DEF Init
  <1>2. NoOrder \in OrderRecord /\ NoPayment \in PaymentRecord
    <2>1. <<>> \in Seq({"PENDING", "CONFIRMED", "CANCELED"} \X {"DRAFT", "CAPTURED", "ERROR", "CANCELED"})
      OBVIOUS
    <2> QED BY <2>1, IdleFields DEF NoOrder, NoPayment, OrderRecord, PaymentRecord
  <1>3. TypeOK
    <2>1. /\ stock \in [Skus -> Int]
          /\ sold \in [Orders -> [Skus -> Nat]] /\ restocked \in [Orders -> [Skus -> Nat]]
      BY CheckoutAssumption DEF Init, Nothing
    <2>2. used \in [deliveries : Nat, failures : Nat, edits : Nat]
      BY DEF Init
    <2> QED BY <1>1, <1>2, <2>1, <2>2, IdleFields DEF Init, TypeOK
  <1>4. StockNonNegative
    BY CheckoutAssumption DEF Init, StockNonNegative
  <1>5. PaymentAgrees /\ PaidWasDeducted
    BY DEF Init, PaymentAgrees, PaidWasDeducted, NoOrder, NoPayment
  <1>6. \A r \in Requests : RequestOK(r)
    BY IdleOK DEF Init
  <1>7. CreatesAlone
    BY IdleFields DEF Init, CreatesAlone
  <1>8. RestockBounded /\ \A o \in Orders : OrderOK(o)
    BY DEF Init, RestockBounded, OrderOK, NoOrder, Nothing
  <1>9. OneAtATime
    <2>1. \A o \in Orders : Captures(o) = {}
      BY DEF Init, Captures, NoOrder
    <2> QED BY <2>1, IdleFields DEF Init, OneAtATime
  <1> QED BY <1>1, <1>3, <1>4, <1>5, <1>6, <1>7, <1>8, <1>9 DEF CheckoutInv
-----------------------------------------------------------------------------
\* A request keeps what it knows when others leave its session and its order alone.
LEMMA OtherRequest ==
  ASSUME CheckoutInv, NEW q \in Requests, request'[q] = request[q], held'[q] = held[q],
         NEW o, o = request[q].order,
         order[o].orderStatus # "NONE" =>
           order'[o].items = order[o].items /\ order'[o].orderStatus # "NONE",
         request[q].op = "createOrder" \/ <<"order", o>> \in held[q] => order'[o] = order[o],
         \A s \in Skus : sold'[o][s] >= sold[o][s] /\ restocked'[o][s] >= restocked[o][s],
         \A s \in Skus : sold'[o][s] \in Nat /\ restocked'[o][s] \in Nat
  PROVE  RequestOK(q)'
  <1>1. RequestOK(q) /\ TypeOK
    BY DEF CheckoutInv
  <1>2. o \in Orders
    BY <1>1, RequestFields
  <1>3. \A s \in Skus : order[o].items[s] \in Nat /\ sold[o][s] \in Nat /\ restocked[o][s] \in Nat
    BY <1>1, <1>2, OrderFields
  <1>4. Shape(q)' /\ HoldsOrder(q)'
    BY <1>1 DEF RequestOK, Shape, HoldsOrder
  <1>5. Deducts(q)'
    <2> SUFFICES ASSUME request[q].op = "processWebhook", request[q].paid
                 PROVE  Deducts(q)'
      BY DEF Deducts
    <2>1. order'[o].items = order[o].items /\ Ordered(o)' = Ordered(o)
      BY <1>1 DEF RequestOK, Ordered
    <2> QED BY <1>1, <1>3, <2>1 DEF RequestOK, Deducts, ItemsValid, Ordered
  <1>6. Returns(q)'
    <2> SUFFICES ASSUME request[q].op = "cancelOrder"
                 PROVE  Returns(q)'
      BY DEF Returns
    <2>1. order'[o] = order[o] /\ Ordered(o)' = Ordered(o)
      BY <1>1 DEF RequestOK, HoldsOrder, Ordered
    <2> QED BY <1>1, <1>3, <2>1 DEF RequestOK, Returns, Ordered
  <1> QED BY <1>1, <1>4, <1>5, <1>6 DEF RequestOK
\* A step of one request that writes neither stock nor order: it goes on, or it ends.
LEMMA Continues ==
  ASSUME CheckoutInv, NEW r \in Requests,
         UNCHANGED <<stock, order, payment, ledger, overlapped>>,
         TypeOK', SessionsIsolated', RequestOK(r)',
         \A q \in Requests \ {r} : request'[q] = request[q] /\ held'[q] = held[q],
         request[r].at # "idle",
         request'[r] = Idle \/ /\ request'[r].op = request[r].op
                               /\ request'[r].order = request[r].order,
         \/ used'.failures = used.failures /\ request[r].op # "cancelOrder"
         \/ used'.failures = used.failures + 1
  PROVE  CheckoutInv'
  <1>1. /\ TypeOK /\ used.failures \in Nat /\ CreatesAlone /\ RestockBounded
        /\ \A o \in Orders : OrderOK(o)
    BY DEF CheckoutInv, TypeOK
  <1>2. StockNonNegative' /\ PaymentAgrees' /\ PaidWasDeducted'
    BY DEF CheckoutInv, StockNonNegative, PaymentAgrees, PaidWasDeducted, Ordered, ledger
  <1>3. \A q \in Requests : RequestOK(q)'
    <2> SUFFICES ASSUME NEW q \in Requests \ {r} PROVE RequestOK(q)'
      OBVIOUS
    <2>1. /\ request[q].order \in Orders
          /\ \A s \in Skus : /\ sold[request[q].order][s] \in Nat
                             /\ restocked[request[q].order][s] \in Nat
      BY <1>1, RequestFields, OrderFields
    <2> QED BY <2>1, OtherRequest DEF ledger
  <1>4. CreatesAlone'
    BY <1>1, IdleFields DEF CreatesAlone
  <1>5. ASSUME NEW o \in Orders, NEW s \in Skus
        PROVE  /\ order[o].items[s] \in Nat /\ restocked[o][s] \in Nat
               /\ ~Returned(o, s)' => restocked[o][s] <= order[o].items[s] * used'.failures
               /\ restocked[o][s] <= order[o].items[s] * (1 + used'.failures)
    <2>1. /\ order[o].items[s] \in Nat /\ restocked[o][s] \in Nat
          /\ restocked[o][s] <= order[o].items[s] * (1 + used.failures)
          /\ ~Returned(o, s) => restocked[o][s] <= order[o].items[s] * used.failures
      BY <1>1, OrderFields DEF OrderOK, RestockBounded
    <2>2. CASE used'.failures = used.failures /\ request[r].op # "cancelOrder"
      <3>1. ~Returned(o, s)' => ~Returned(o, s)
        BY <2>2 DEF Returned
      <3> QED BY <2>1, <2>2, <3>1
    <2>3. CASE used'.failures = used.failures + 1
      <3>1. order[o].items[s] * (1 + used.failures) <= order[o].items[s] * (1 + used'.failures)
        BY <1>1, <2>1, <2>3, Multiples
      <3>2. order[o].items[s] * used'.failures = order[o].items[s] * (1 + used.failures)
        BY <1>1, <2>3
      <3>3. order[o].items[s] * (1 + used.failures) \in Nat /\ order[o].items[s] * (1 + used'.failures) \in Nat
        BY <1>1, <2>1, <2>3, Multiples
      <3> QED BY <2>1, <3>1, <3>2, <3>3
    <2> QED BY <2>2, <2>3
  <1>6. RestockBounded' /\ \A o \in Orders : OrderOK(o)'
    BY <1>1, <1>5 DEF RestockBounded, OrderOK, Ordered, ledger
  <1>7. ~overlapped' => OneAtATime'
    <2>1. \A o \in Orders : Captures(o)' = Captures(o)
      BY DEF Captures
    <2> QED BY <2>1, IdleFields DEF CheckoutInv, OneAtATime
  <1> QED BY <1>2, <1>3, <1>4, <1>6, <1>7 DEF CheckoutInv

\* What an assignment to "at" leaves of a request.
LEMMA GoesTo ==
  ASSUME TypeOK, NEW r \in Requests,
         NEW at \in {"populate", "create", "updateCart", "bulkWrite", "payment", "order", "commit"},
         request' = [request EXCEPT ![r].at = at]
  PROVE  /\ request' \in [Requests -> RequestRecord]
         /\ request'[r].at = at /\ request'[r].op = request[r].op
         /\ request'[r].order = request[r].order /\ request'[r].paid = request[r].paid
         /\ request'[r].items = request[r].items /\ request'[r].avail = request[r].avail
         /\ request'[r].todo = request[r].todo
         /\ \A q \in Requests \ {r} : request'[q] = request[q]
  <1>1. request \in [Requests -> RequestRecord]
    BY DEF TypeOK
  <1> QED BY <1>1 DEF RequestRecord

\* A request that ends leaves the others alone.
LEMMA FinishFields ==
  ASSUME TypeOK, NEW r \in Requests, Finish(r)
  PROVE  /\ request' \in [Requests -> RequestRecord]
         /\ request'[r] = Idle
         /\ \A q \in Requests \ {r} : request'[q] = request[q]
  BY IdleFields DEF TypeOK, Finish

\* The catch block of every handler.
LEMMA ThrowInv ==
  ASSUME CheckoutInv, NEW r \in Requests, Throw(r), request[r].at # "idle",
         \/ used' = used /\ request[r].op # "cancelOrder"
         \/ used' = [used EXCEPT !.failures = @ + 1]
  PROVE  CheckoutInv'
  <1>1. TypeOK /\ SessionTypeOK(Documents) /\ SessionsIsolated
    BY DEF CheckoutInv, TypeOK
  <1>2. /\ request' \in [Requests -> RequestRecord] /\ request'[r] = Idle
        /\ \A q \in Requests \ {r} : request'[q] = request[q]
    BY <1>1, FinishFields DEF Throw
  <1>3. /\ SessionTypeOK(Documents)' /\ SessionsIsolated'
        /\ \A q \in Requests \ {r} : held'[q] = held[q]
    BY <1>1, AbortIsolated DEF Throw
  <1>4. /\ used' \in [deliveries : Nat, failures : Nat, edits : Nat]
        /\ \/ used'.failures = used.failures /\ request[r].op # "cancelOrder"
           \/ used'.failures = used.failures + 1
    BY <1>1 DEF TypeOK
  <1>5. UNCHANGED <<stock, cart, order, payment, ledger, overlapped>>
    BY DEF Throw, docs, history
  <1>6. TypeOK'
    BY <1>1, <1>2, <1>3, <1>4, <1>5 DEF TypeOK, ledger
  <1>7. RequestOK(r)'
    BY <1>2, IdleFields DEF RequestOK, Shape, HoldsOrder, Deducts, Returns
  <1> QED BY <1>2, <1>3, <1>4, <1>5, <1>6, <1>7, Continues

\* A call that throws ends in the catch block.
LEMMA FailInv ==
  ASSUME CheckoutInv, NEW r \in Requests, Fail(r)
  PROVE  CheckoutInv'
  BY ThrowInv DEF Fail

\* The two queries of getCart: what they have read is checked at once.
LEMMA ReadInv ==
  ASSUME CheckoutInv, NEW r \in Requests, ReadCart(r) \/ ReadStock(r)
  PROVE  CheckoutInv'
  <1>1. TypeOK /\ SessionTypeOK(Documents) /\ SessionsIsolated /\ RequestOK(r)
    BY DEF CheckoutInv, TypeOK
  <1>2. /\ UNCHANGED <<stock, cart, order, payment, ledger, overlapped, used, held, stale>>
        /\ request[r].at \in {"getCart", "populate"} /\ request[r].op # "cancelOrder"
    BY <1>1 DEF ReadCart, ReadStock, docs, history, sessionVars, RequestOK, Shape
  <1>3. /\ request' \in [Requests -> RequestRecord]
        /\ \A q \in Requests \ {r} : request'[q] = request[q]
        /\ \/ request'[r] = Idle
           \/ /\ request'[r].op = request[r].op /\ request'[r].order = request[r].order
              /\ request'[r].paid = request[r].paid /\ request'[r].todo = request[r].todo
              /\ \/ request[r].at = "getCart" /\ request'[r].at = "populate"
                 \/ /\ request[r].at = "populate"
                    /\ request'[r].at = IF request[r].op = "createOrder" THEN "create" ELSE "updateCart"
                    /\ ItemsValid(request'[r], request'[r].avail)
    <2>1. request \in [Requests -> RequestRecord]
      BY <1>1 DEF TypeOK
    <2>2. CASE Finish(r)
      BY <1>1, <2>2, FinishFields
    <2>3. CASE ReadCart(r) /\ ~Finish(r)
      <3> DEFINE items == cart[Owner[request[r].order]]
      <3>1. items \in Quantities
        BY <1>1, RequestFields, CheckoutAssumption DEF TypeOK
      <3>2. request' = [request EXCEPT ![r].at = "populate", ![r].items = items] /\ request[r].at = "getCart"
        BY <2>3 DEF ReadCart
      <3> HIDE DEF items
      <3> QED BY <2>1, <3>1, <3>2 DEF RequestRecord
    <2>4. CASE ReadStock(r) /\ ~Finish(r)
      <3> DEFINE at == IF request[r].op = "createOrder" THEN "create" ELSE "updateCart"
      <3>1. stock \in [Skus -> Int] /\ at \in {"create", "updateCart"}
        BY <1>1 DEF TypeOK
      <3>2. /\ request' = [request EXCEPT ![r].avail = stock, ![r].at = at]
            /\ request[r].at = "populate" /\ ItemsValid(request[r], stock)
        BY <2>4 DEF ReadStock
      <3> HIDE DEF at
      <3>3. /\ request' \in [Requests -> RequestRecord]
            /\ request'[r].at = at /\ request'[r].avail = stock
            /\ request'[r].op = request[r].op /\ request'[r].order = request[r].order
            /\ request'[r].paid = request[r].paid /\ request'[r].todo = request[r].todo
            /\ request'[r].items = request[r].items
            /\ \A q \in Requests \ {r} : request'[q] = request[q]
        BY <2>1, <3>1, <3>2 DEF RequestRecord
      <3> QED BY <3>2, <3>3 DEF ItemsValid, at
    <2> QED BY <2>2, <2>3, <2>4
  <1>4. TypeOK' /\ SessionsIsolated'
    BY <1>1, <1>2, <1>3 DEF TypeOK, ledger, SessionTypeOK, SessionsIsolated
  <1>5. RequestOK(r)'
    <2>1. CASE request'[r] = Idle
      BY <2>1, IdleFields DEF RequestOK, Shape, HoldsOrder, Deducts, Returns
    <2>2. CASE request'[r] # Idle
      BY <1>1, <1>2, <1>3, <2>2
         DEF RequestOK, Shape, HoldsOrder, Deducts, Returns, Ordered, ledger
    <2> QED BY <2>1, <2>2
  <1> QED BY <1>2, <1>3, <1>4, <1>5, Continues
\* The three writes of a notification in its session.
LEMMA SessionWritesInv ==
  ASSUME CheckoutInv, NEW r \in Requests, UpdateCart(r) \/ UpdatePayment(r) \/ UpdateOrder(r)
  PROVE  CheckoutInv'
  <1> DEFINE doc == IF request[r].at = "updateCart" THEN <<"cart", Owner[request[r].order]>>
                    ELSE <<request[r].at, request[r].order>>
             next == CASE request[r].at = "updateCart" -> "bulkWrite"
                       [] request[r].at = "payment" -> "order"
                       [] request[r].at = "order" -> "commit"
  <1>1. /\ TypeOK /\ SessionTypeOK(Documents) /\ SessionsIsolated /\ RequestOK(r)
        /\ request[r].at \in {"updateCart", "payment", "order"}
        /\ request[r].op = "processWebhook" /\ request[r].order \in Orders
        /\ WriteOrThrow(r, doc, next)
    <2>1. TypeOK /\ SessionTypeOK(Documents) /\ SessionsIsolated /\ RequestOK(r)
      BY DEF CheckoutInv, TypeOK
    <2>2. request[r].at \in {"updateCart", "payment", "order"} /\ WriteOrThrow(r, doc, next)
      BY DEF UpdateCart, UpdatePayment, UpdateOrder
    <2>3. request[r].op \in {"none", "createOrder", "processWebhook", "cancelOrder"}
      BY <2>1, RequestFields DEF RequestRecord
    <2> QED BY <2>1, <2>2, <2>3, RequestFields DEF RequestOK, Shape
  <1>2. doc \in Documents /\ next \in {"bulkWrite", "order", "commit"}
    BY <1>1, CheckoutAssumption DEF Documents
  <1>3. CASE WriteConflict(r, doc) /\ Throw(r) /\ UNCHANGED used
    BY <1>1, <1>3, ThrowInv
  <1>4. CASE SessionWrite(r, doc) /\ request' = [request EXCEPT ![r].at = next]
             /\ UNCHANGED <<stock, docs, used, history>>
    <2>1. /\ SessionTypeOK(Documents)' /\ SessionsIsolated'
          /\ held'[r] = held[r] \cup {doc}
          /\ \A q \in Requests \ {r} : held'[q] = held[q]
      BY <1>1, <1>2, <1>4, SessionWriteIsolated
    <2>2. /\ request' \in [Requests -> RequestRecord]
          /\ request'[r].at = next /\ request'[r].op = request[r].op
          /\ request'[r].order = request[r].order /\ request'[r].paid = request[r].paid
          /\ request'[r].items = request[r].items /\ request'[r].avail = request[r].avail
          /\ request'[r].todo = request[r].todo
          /\ \A q \in Requests \ {r} : request'[q] = request[q]
      <3> HIDE DEF next
      <3> QED BY <1>1, <1>2, <1>4, GoesTo
    <2>3. UNCHANGED <<stock, cart, order, payment, used, ledger, overlapped>>
      BY <1>4 DEF docs, history
    <2>4. TypeOK'
      BY <1>1, <2>1, <2>2, <2>3 DEF TypeOK, ledger
    <2>5. RequestOK(r)'
      <3>1. HoldsOrder(r)'
        BY <1>1, <2>1, <2>2 DEF HoldsOrder
      <3>2. Shape(r)' /\ Returns(r)'
        BY <1>1, <2>2 DEF RequestOK, Shape, Returns
      <3>3. Deducts(r)'
        BY <1>1, <2>2, <2>3 DEF RequestOK, Deducts, Shape, ItemsValid, Ordered, ledger
      <3> QED BY <1>1, <2>2, <2>3, <3>1, <3>2, <3>3 DEF RequestOK
    <2> QED BY <1>1, <2>1, <2>2, <2>3, <2>4, <2>5, Continues
  <1> QED BY <1>1, <1>3, <1>4 DEF WriteOrThrow

\* One operation of a bulkWrite is done.
LEMMA BulkWriteFields ==
  ASSUME TypeOK, NEW r \in Requests, NEW s \in Skus, NEW after \in {"payment", "commit"},
         request' = [request EXCEPT ![r].todo = @ \ {s},
           ![r].at = IF request[r].todo = {s} THEN after ELSE "bulkWrite"]
  PROVE  /\ request' \in [Requests -> RequestRecord]
         /\ request'[r].at = (IF request[r].todo = {s} THEN after ELSE "bulkWrite")
         /\ request'[r].op = request[r].op
         /\ request'[r].order = request[r].order /\ request'[r].paid = request[r].paid
         /\ request'[r].items = request[r].items /\ request'[r].avail = request[r].avail
         /\ request'[r].todo = request[r].todo \ {s}
         /\ \A q \in Requests \ {r} : request'[q] = request[q]
  <1> DEFINE at == IF request[r].todo = {s} THEN after ELSE "bulkWrite"
             rest == request[r].todo \ {s}
  <1>1. request \in [Requests -> RequestRecord] /\ rest \in SUBSET Skus
    BY RequestFields DEF TypeOK
  <1>2. at \in {"payment", "commit", "bulkWrite"}
    OBVIOUS
  <1>3. request' = [request EXCEPT ![r].todo = rest, ![r].at = at]
    OBVIOUS
  <1>4. /\ request' \in [Requests -> RequestRecord]
        /\ request'[r].at = at /\ request'[r].op = request[r].op
        /\ request'[r].order = request[r].order /\ request'[r].paid = request[r].paid
        /\ request'[r].items = request[r].items /\ request'[r].avail = request[r].avail
        /\ request'[r].todo = rest
        /\ \A q \in Requests \ {r} : request'[q] = request[q]
    <2> DEFINE rec == [request[r] EXCEPT !.todo = rest, !.at = at]
    <2>1. request' = [request EXCEPT ![r] = rec]
      BY <1>3
    <2>2. /\ rec.at = at /\ rec.op = request[r].op /\ rec.todo = rest
          /\ rec.order = request[r].order /\ rec.paid = request[r].paid
          /\ rec.items = request[r].items /\ rec.avail = request[r].avail
          /\ rec \in RequestRecord
      <3> HIDE DEF at, rest
      <3> QED BY <1>1, <1>2 DEF RequestRecord
    <2> HIDE DEF at, rest, rec
    <2> QED BY <1>1, <2>1, <2>2
  <1> QED BY <1>4

\* The ledger of one order and sku grows.
LEMMA LedgerGrows ==
  ASSUME NEW moved \in [Orders -> [Skus -> Nat]], NEW o \in Orders, NEW s \in Skus, NEW n \in Nat,
         NEW later, later = [moved EXCEPT ![o][s] = @ + n]
  PROVE  /\ later \in [Orders -> [Skus -> Nat]]
         /\ later[o][s] = moved[o][s] + n
         /\ \A p \in Orders, t \in Skus : later[p][t] >= moved[p][t] /\ (p # o \/ t # s => later[p][t] = moved[p][t])
  <1>1. moved[o][s] \in Nat /\ moved[o][s] + n \in Nat
    OBVIOUS
  <1>2. /\ later[o][s] = moved[o][s] + n
        /\ \A p \in Orders, t \in Skus : p # o \/ t # s => later[p][t] = moved[p][t]
    OBVIOUS
  <1>3. \A p \in Orders : later[p] \in [Skus -> Nat]
    BY <1>1
  <1> QED BY <1>1, <1>2, <1>3

\* What a notification stores was found sufficient when it was read.
LEMMA SetStockInv ==
  ASSUME CheckoutInv, NEW r \in Requests, NEW s \in Skus, SetStock(r, s)
  PROVE  CheckoutInv'
  <1> DEFINE o == request[r].order
  <1>1. /\ TypeOK /\ SessionTypeOK(Documents) /\ SessionsIsolated /\ RequestOK(r)
        /\ request[r].at = "bulkWrite" /\ request[r].op = "processWebhook" /\ request[r].paid
        /\ s \in request[r].todo /\ o \in Orders
        /\ request[r].items[s] > 0 /\ request[r].items[s] <= request[r].avail[s]
        /\ request[r].items[s] \in Nat /\ request[r].avail[s] \in Int
        /\ UNCHANGED <<cart, order, payment, used, restocked, overlapped, held, stale>>
    BY RequestFields DEF CheckoutInv, TypeOK, SetStock, RequestOK, Shape, Deducts, ItemsValid,
                         docs, sessionVars
  <1>2. /\ request' \in [Requests -> RequestRecord]
        /\ request'[r].at = (IF request[r].todo = {s} THEN "payment" ELSE "bulkWrite")
        /\ request'[r].op = request[r].op
        /\ request'[r].order = request[r].order /\ request'[r].paid = request[r].paid
        /\ request'[r].items = request[r].items /\ request'[r].avail = request[r].avail
        /\ request'[r].todo = request[r].todo \ {s}
        /\ \A q \in Requests \ {r} : request'[q] = request[q]
    BY <1>1, BulkWriteFields DEF SetStock
  <1>3. /\ sold' \in [Orders -> [Skus -> Nat]]
        /\ sold'[o][s] > 0
        /\ \A p \in Orders, t \in Skus : sold'[p][t] >= sold[p][t]
        /\ \A p \in Orders, t \in Skus : sold[p][t] \in Nat /\ sold'[p][t] \in Nat
    BY <1>1, LedgerGrows DEF SetStock, TypeOK
  <1>4. /\ stock' \in [Skus -> Int]
        /\ \A t \in Skus : t # s => stock'[t] = stock[t]
        /\ stock'[s] >= 0
    BY <1>1 DEF SetStock, TypeOK
  <1>5. SessionTypeOK(Documents)' /\ SessionsIsolated'
    BY <1>1 DEF SessionTypeOK, SessionsIsolated
  <1>6. TypeOK'
    BY <1>1, <1>2, <1>3, <1>4, <1>5 DEF TypeOK
  <1>7. StockNonNegative' /\ PaymentAgrees'
    BY <1>1, <1>4 DEF CheckoutInv, StockNonNegative, PaymentAgrees
  <1>8. PaidWasDeducted'
    <2>1. \A p \in Orders : Ordered(p)' = Ordered(p) /\ Ordered(p) \subseteq Skus
      BY <1>1 DEF Ordered
    <2> QED BY <1>1, <1>3, <2>1 DEF CheckoutInv, PaidWasDeducted
  <1>9. \A q \in Requests : RequestOK(q)'
    <2>1. RequestOK(r)'
      <3>1. Ordered(o)' = Ordered(o) /\ Ordered(o) \subseteq Skus
        BY <1>1, <1>2 DEF Ordered
      <3>2. Deducts(r)'
        BY <1>1, <1>2, <1>3, <3>1 DEF RequestOK, Deducts, ItemsValid
      <3> QED BY <1>1, <1>2, <3>2 DEF RequestOK, Shape, HoldsOrder, Returns
    <2>2. ASSUME NEW q \in Requests \ {r} PROVE RequestOK(q)'
      <3>1. /\ request[q].order \in Orders
            /\ \A t \in Skus : restocked[request[q].order][t] \in Nat
        BY <1>1, RequestFields, OrderFields
      <3> QED BY <1>1, <1>2, <1>3, <3>1, OtherRequest
    <2> QED BY <2>1, <2>2
  <1>10. CreatesAlone'
    BY <1>1, <1>2 DEF CheckoutInv, CreatesAlone
  <1>11. RestockBounded' /\ \A p \in Orders : OrderOK(p)'
    <2>1. \A p \in Orders, t \in Skus : Returned(p, t) => Returned(p, t)'
      BY <1>1, <1>2 DEF Returned
    <2> QED BY <1>1, <2>1 DEF CheckoutInv, RestockBounded, OrderOK, Ordered
  <1>12. ~overlapped' => OneAtATime'
    <2>1. \A p \in Orders : Captures(p)' = Captures(p)
      BY <1>1 DEF Captures
    <2> QED BY <1>1, <1>2, <2>1 DEF CheckoutInv, OneAtATime
  <1> QED BY <1>5, <1>6, <1>7, <1>8, <1>9, <1>10, <1>11, <1>12 DEF CheckoutInv

\* Two requests never hold the same order.
LEMMA OrderHeldOnce ==
  ASSUME CheckoutInv, NEW r \in Requests, NEW q \in Requests \ {r},
         <<"order", request[r].order>> \in held[r]
  PROVE  /\ <<"order", request[r].order>> \notin held[q]
         /\ request[q].op = "cancelOrder" \/ request[q].at = "commit" => request[q].order # request[r].order
  BY DEF CheckoutInv, SessionsIsolated, RequestOK, HoldsOrder

\* What a cancellation adds to the stock it adds once.
LEMMA IncStockInv ==
  ASSUME CheckoutInv, NEW r \in Requests, NEW s \in Skus, IncStock(r, s)
  PROVE  CheckoutInv'
  <1> DEFINE o == request[r].order
  <1>1. /\ TypeOK /\ SessionTypeOK(Documents) /\ SessionsIsolated /\ RequestOK(r)
        /\ request[r].at = "bulkWrite" /\ request[r].op = "cancelOrder"
        /\ s \in request[r].todo /\ o \in Orders
        /\ request[r].items = order[o].items /\ order[o].items[s] \in Nat
        /\ used.failures \in Nat
        /\ UNCHANGED <<cart, order, payment, used, sold, overlapped, held, stale>>
    BY RequestFields DEF CheckoutInv, TypeOK, IncStock, RequestOK, Shape, Returns, docs, sessionVars
  <1>2. /\ request' \in [Requests -> RequestRecord]
        /\ request'[r].at = (IF request[r].todo = {s} THEN "commit" ELSE "bulkWrite")
        /\ request'[r].op = request[r].op
        /\ request'[r].order = request[r].order /\ request'[r].paid = request[r].paid
        /\ request'[r].items = request[r].items /\ request'[r].avail = request[r].avail
        /\ request'[r].todo = request[r].todo \ {s}
        /\ \A q \in Requests \ {r} : request'[q] = request[q]
    BY <1>1, BulkWriteFields DEF IncStock
  <1>3. /\ restocked' \in [Orders -> [Skus -> Nat]]
        /\ restocked'[o][s] = restocked[o][s] + order[o].items[s]
        /\ \A p \in Orders, t \in Skus :
             /\ restocked[p][t] \in Nat /\ restocked'[p][t] \in Nat
             /\ restocked'[p][t] >= restocked[p][t]
             /\ p # o \/ t # s => restocked'[p][t] = restocked[p][t]
    BY <1>1, LedgerGrows DEF IncStock, TypeOK
  <1>4. /\ stock' \in [Skus -> Int]
        /\ \A t \in Skus : stock'[t] >= stock[t]
    BY <1>1 DEF IncStock, TypeOK
  <1>5. SessionTypeOK(Documents)' /\ SessionsIsolated'
    BY <1>1 DEF SessionTypeOK, SessionsIsolated
  <1>6. TypeOK'
    BY <1>1, <1>2, <1>3, <1>4, <1>5 DEF TypeOK
  <1>7. StockNonNegative' /\ PaymentAgrees' /\ PaidWasDeducted'
    <2>1. \A t \in Skus : stock[t] >= 0 /\ stock[t] \in Int /\ stock'[t] \in Int
      BY <1>1, <1>4 DEF CheckoutInv, StockNonNegative, TypeOK
    <2> QED BY <1>1, <1>4, <2>1 DEF CheckoutInv, StockNonNegative, PaymentAgrees, PaidWasDeducted, Ordered
  <1>8. \A q \in Requests : RequestOK(q)'
    <2>1. RequestOK(r)'
      <3>1. Ordered(o)' = Ordered(o) /\ Ordered(o) \subseteq Skus
        BY <1>1, <1>2 DEF Ordered
      <3>2. \A t \in Ordered(o) : t \in request'[r].todo \/ restocked'[o][t] >= order[o].items[t]
        <4> SUFFICES ASSUME NEW t \in Ordered(o), t \notin request'[r].todo
                     PROVE  restocked'[o][t] >= order[o].items[t]
          OBVIOUS
        <4>1. CASE t = s
          BY <1>1, <1>3, <4>1
        <4>2. CASE t # s
          BY <1>1, <1>2, <1>3, <3>1, <4>2 DEF RequestOK, Returns
        <4> QED BY <4>1, <4>2
      <3>3. Returns(r)'
        BY <1>1, <1>2, <3>1, <3>2 DEF RequestOK, Returns
      <3> QED BY <1>1, <1>2, <3>3 DEF RequestOK, Shape, HoldsOrder, Deducts
    <2>2. ASSUME NEW q \in Requests \ {r} PROVE RequestOK(q)'
      <3>1. /\ request[q].order \in Orders
            /\ \A t \in Skus : sold[request[q].order][t] \in Nat
        BY <1>1, RequestFields, OrderFields
      <3> QED BY <1>1, <1>2, <1>3, <3>1, OtherRequest
    <2> QED BY <2>1, <2>2
  <1>9. CreatesAlone'
    BY <1>1, <1>2 DEF CheckoutInv, CreatesAlone
  <1>10. restocked[o][s] <= order[o].items[s] * used.failures
    <2>1. ~Returned(o, s)
      BY <1>1, OrderHeldOnce DEF Returned, RequestOK, Returns, HoldsOrder
    <2> QED BY <1>1, <2>1 DEF CheckoutInv, RestockBounded
  <1>11. \A p \in Orders, t \in Skus : Returned(p, t) => Returned(p, t)'
    BY <1>1, <1>2 DEF Returned
  <1>12. RestockBounded'
    <2> SUFFICES ASSUME NEW p \in Orders, NEW t \in Skus, ~Returned(p, t)'
                 PROVE  restocked'[p][t] <= order[p].items[t] * used.failures
      BY <1>1 DEF RestockBounded
    <2>1. p # o \/ t # s
      BY <1>1, <1>2 DEF Returned
    <2> QED BY <1>3, <1>11, <2>1 DEF CheckoutInv, RestockBounded
  <1>13. \A p \in Orders : OrderOK(p)'
    <2> SUFFICES ASSUME NEW p \in Orders PROVE OrderOK(p)'
      OBVIOUS
    <2>1. OrderOK(p) /\ \A t \in Skus : order[p].items[t] \in Nat
      BY <1>1, OrderFields DEF CheckoutInv
    <2>2. ASSUME NEW t \in Skus
          PROVE  restocked'[p][t] <= order[p].items[t] * (1 + used.failures)
      <3>1. CASE p = o /\ t = s
        <4>1. order[o].items[s] * (1 + used.failures) = order[o].items[s] * used.failures + order[o].items[s]
          BY <1>1, Multiples
        <4>2. order[o].items[s] * used.failures \in Nat
          BY <1>1, Multiples
        <4> QED BY <1>1, <1>3, <1>10, <3>1, <4>1, <4>2
      <3>2. CASE p # o \/ t # s
        BY <1>3, <2>1, <3>2 DEF OrderOK
      <3> QED BY <3>1, <3>2
    <2>3. \A t \in Ordered(p) :
            order[p].orderStatus = "CANCELED" => restocked'[p][t] >= order[p].items[t]
      BY <1>3, <2>1 DEF OrderOK, Ordered
    <2> QED BY <1>1, <2>1, <2>2, <2>3 DEF OrderOK, Ordered
  <1>14. ~overlapped' => OneAtATime'
    <2>1. \A p \in Orders : Captures(p)' = Captures(p)
      BY <1>1 DEF Captures
    <2> QED BY <1>1, <1>2, <2>1 DEF CheckoutInv, OneAtATime
  <1> QED BY <1>5, <1>6, <1>7, <1>8, <1>9, <1>12, <1>13, <1>14 DEF CheckoutInv
-----------------------------------------------------------------------------
\* A request that starts, from orders and payments as they are.
LEMMA StartsInv ==
  ASSUME CheckoutInv, NEW r \in Requests, request[r].at = "idle",
         NEW rec \in RequestRecord, Start(r, rec), RequestOK(r)',
         UNCHANGED <<stock, cart, order, payment, ledger>>,
         used' \in [deliveries : Nat, failures : Nat, edits : Nat], used'.failures = used.failures,
         SessionTypeOK(Documents)', SessionsIsolated',
         \A q \in Requests \ {r} : held'[q] = held[q],
         rec.op = "createOrder" =>
           \A q \in Requests : request[q].op = "createOrder" => request[q].order # rec.order,
         rec.op = "processWebhook" /\ Method[rec.order] = "PAY_OS" => payment[rec.order].located
  PROVE  CheckoutInv'
  <1>1. /\ TypeOK /\ request[r].op = "none"
        /\ request' \in [Requests -> RequestRecord] /\ request'[r] = rec
        /\ \A q \in Requests \ {r} : request'[q] = request[q]
        /\ overlapped' \in BOOLEAN
        /\ ~overlapped' => ~overlapped /\ \A q \in Requests \ {r} : request[q].at = "idle"
    BY DEF CheckoutInv, TypeOK, Start, RequestOK, Shape
  <1>2. TypeOK'
    BY <1>1 DEF TypeOK, ledger
  <1>3. StockNonNegative' /\ PaymentAgrees' /\ PaidWasDeducted'
    BY DEF CheckoutInv, StockNonNegative, PaymentAgrees, PaidWasDeducted, Ordered, ledger
  <1>4. \A q \in Requests : RequestOK(q)'
    <2> SUFFICES ASSUME NEW q \in Requests \ {r} PROVE RequestOK(q)'
      OBVIOUS
    <2>1. /\ request[q].order \in Orders
          /\ \A s \in Skus : /\ sold[request[q].order][s] \in Nat
                             /\ restocked[request[q].order][s] \in Nat
      BY <1>1, RequestFields, OrderFields
    <2> QED BY <1>1, <2>1, OtherRequest DEF ledger
  <1>5. CreatesAlone'
    BY <1>1 DEF CheckoutInv, CreatesAlone
  <1>6. RestockBounded' /\ \A o \in Orders : OrderOK(o)'
    <2>1. \A o \in Orders, s \in Skus : Returned(o, s) => Returned(o, s)'
      BY <1>1 DEF Returned
    <2> QED BY <2>1 DEF CheckoutInv, RestockBounded, OrderOK, Ordered, ledger
  <1>7. ASSUME ~overlapped' PROVE OneAtATime'
    <2>1. \A o \in Orders : Captures(o)' = Captures(o)
      BY DEF Captures
    <2>2. OneAtATime /\ \A q \in Requests \ {r} : request'[q].at = "idle" /\ request'[q].op = "none"
      BY <1>1, <1>7 DEF CheckoutInv, RequestOK, Shape
    <2> QED BY <1>1, <2>1, <2>2 DEF OneAtATime
  <1> QED BY <1>2, <1>3, <1>4, <1>5, <1>6, <1>7 DEF CheckoutInv

\* Every handler begins by reading what it may go on with.
LEMMA BeginInv ==
  ASSUME CheckoutInv, NEW r \in Requests, Begin(r)
  PROVE  CheckoutInv'
  <1>1. /\ TypeOK /\ SessionTypeOK(Documents) /\ SessionsIsolated
        /\ used \in [deliveries : Nat, failures : Nat, edits : Nat]
    BY DEF CheckoutInv, TypeOK
  <1>2. \A o \in Orders : Ordered(o) \in SUBSET Skus
    BY DEF Ordered
  <1>3. ASSUME NEW o \in Orders, NEW wanted \in (SUBSET Skus) \ {{}}, BeginOrder(r, o, wanted)
        PROVE  CheckoutInv'
    <2> DEFINE rec == [Idle EXCEPT !.op = "createOrder", !.at = "getCart", !.order = o, !.todo = wanted]
    <2>1. /\ rec \in RequestRecord /\ rec.op = "createOrder" /\ rec.at = "getCart" /\ rec.order = o
      BY IdleFields DEF RequestRecord
    <2>2. /\ UNCHANGED <<stock, cart, order, payment, used, ledger, held, stale>>
          /\ Start(r, rec) /\ request[r].at = "idle"
          /\ order[o].orderStatus = "NONE"
          /\ \A q \in Requests : request[q].op = "createOrder" => request[q].order # o
      BY <1>3 DEF BeginOrder, docs, sessionVars
    <2>3. SessionTypeOK(Documents)' /\ SessionsIsolated'
      BY <1>1, <2>2 DEF SessionTypeOK, SessionsIsolated
    <2>4. request'[r] = rec
      BY <1>1, <2>2 DEF Start, TypeOK
    <2> HIDE DEF rec
    <2>5. RequestOK(r)'
      BY <2>1, <2>2, <2>4 DEF RequestOK, Shape, HoldsOrder, Deducts, Returns
    <2> QED BY <1>1, <2>1, <2>2, <2>3, <2>5, StartsInv
  <1>4. ASSUME NEW o \in Orders, NEW paid \in BOOLEAN, ReceiveWebhook(r, o, paid)
        PROVE  CheckoutInv'
    <2> DEFINE at == IF paid THEN "getCart" ELSE "payment"
               todo == IF paid THEN Ordered(o) ELSE {}
               rec == [Idle EXCEPT !.op = "processWebhook", !.order = o, !.paid = paid,
                                   !.at = at, !.todo = todo]
    <2>1. /\ rec \in RequestRecord /\ rec.op = "processWebhook" /\ rec.at = at /\ rec.order = o
          /\ rec.paid = paid /\ rec.todo = todo
      <3>1. at \in {"getCart", "payment"} /\ todo \in SUBSET Skus
        BY <1>2
      <3> HIDE DEF at, todo
      <3> QED BY <3>1, IdleFields DEF RequestRecord
    <2>2. /\ UNCHANGED <<stock, cart, order, payment, ledger, held, stale>>
          /\ Start(r, rec) /\ request[r].at = "idle"
          /\ order[o].orderStatus # "NONE"
          /\ Method[o] = "PAY_OS" => payment[o].located
          /\ used' \in [deliveries : Nat, failures : Nat, edits : Nat] /\ used'.failures = used.failures
      BY <1>1, <1>4 DEF ReceiveWebhook, docs, sessionVars
    <2>3. SessionTypeOK(Documents)' /\ SessionsIsolated'
      BY <1>1, <2>2 DEF SessionTypeOK, SessionsIsolated
    <2>4. request'[r] = rec
      BY <1>1, <2>2 DEF Start, TypeOK
    <2> HIDE DEF rec
    <2>5. RequestOK(r)'
      BY <2>1, <2>2, <2>4 DEF RequestOK, Shape, HoldsOrder, Deducts, Returns, Ordered
    <2> HIDE DEF at, todo
    <2> QED BY <1>1, <2>1, <2>2, <2>3, <2>5, StartsInv
  <1>5. ASSUME NEW o \in Orders, BeginCancel(r, o)
        PROVE  CheckoutInv'
    <2> DEFINE items == order[o].items
               todo == Ordered(o)
               rec == [Idle EXCEPT !.op = "cancelOrder", !.at = "bulkWrite", !.order = o,
                                   !.items = items, !.todo = todo]
    <2>1. /\ rec \in RequestRecord /\ rec.op = "cancelOrder" /\ rec.at = "bulkWrite" /\ rec.order = o
          /\ rec.items = items /\ rec.todo = todo
      <3>1. items \in Quantities /\ todo \in SUBSET Skus
        BY <1>1, <1>2, OrderFields
      <3> HIDE DEF items, todo
      <3> QED BY <3>1, IdleFields DEF RequestRecord
    <2>2. /\ UNCHANGED <<stock, cart, order, payment, used, ledger>>
          /\ Start(r, rec) /\ request[r].at = "idle"
          /\ SessionWrite(r, <<"order", o>>)
          /\ order[o].orderStatus \in {"PENDING", "CONFIRMED"} /\ order[o].transactionStatus = "CAPTURED"
      BY <1>5 DEF BeginCancel, docs
    <2>3. <<"order", o>> \in Documents
      BY DEF Documents
    <2>4. /\ SessionTypeOK(Documents)' /\ SessionsIsolated'
          /\ held'[r] = held[r] \cup {<<"order", o>>}
          /\ \A q \in Requests \ {r} : held'[q] = held[q]
      BY <1>1, <2>2, <2>3, SessionWriteIsolated
    <2>5. request'[r] = rec
      BY <1>1, <2>2 DEF Start, TypeOK
    <2> HIDE DEF rec
    <2>6. RequestOK(r)'
      BY <2>1, <2>2, <2>4, <2>5 DEF RequestOK, Shape, HoldsOrder, Deducts, Returns, Ordered
    <2> HIDE DEF items, todo
    <2> QED BY <1>1, <2>1, <2>2, <2>4, <2>6, StartsInv
  <1> QED BY <1>3, <1>4, <1>5 DEF Begin
-----------------------------------------------------------------------------
\* Where x occurs in a history, and what a new entry e adds to that.
Occurrences(h, x) == {i \in DOMAIN h : h[i] = x}

\* An entry added to a history occurs once more than before.
LEMMA OccurrencesAppend ==
  ASSUME NEW S, NEW h \in Seq(S), NEW e \in S, NEW x
  PROVE  Occurrences(Append(h, e), x)
           = Occurrences(h, x) \cup (IF e = x THEN {Len(h) + 1} ELSE {})
  <1>1. /\ Len(Append(h, e)) = Len(h) + 1 /\ Len(h) \in Nat
        /\ DOMAIN h = 1..Len(h)
        /\ DOMAIN Append(h, e) = 1..(Len(h) + 1)
        /\ Append(h, e)[Len(h) + 1] = e
        /\ \A i \in 1..Len(h) : Append(h, e)[i] = h[i]
    BY AppendProperties
  <1> QED BY <1>1 DEF Occurrences

\* The captures of an order are occurrences in its history.
LEMMA CapturesOccur ==
  ASSUME TypeOK, NEW o \in Orders, NEW e \in HistoryEntries,
         order'[o].orderHistory = Append(order[o].orderHistory, e)
  PROVE  /\ e # <<"PENDING", "CAPTURED">> => Captures(o)' = Captures(o)
         /\ e = <<"PENDING", "CAPTURED">> =>
              Captures(o)' = Captures(o) \cup {Len(order[o].orderHistory) + 1}
  <1> DEFINE h == order[o].orderHistory
             x == <<"PENDING", "CAPTURED">>
  <1>1. h \in Seq(HistoryEntries)
    BY OrderFields DEF OrderRecord, HistoryEntries
  <1>2. Captures(o) = Occurrences(h, x) /\ Captures(o)' = Occurrences(Append(h, e), x)
    BY DEF Captures, Occurrences
  <1> HIDE DEF h, x
  <1>3. Occurrences(Append(h, e), x) = Occurrences(h, x) \cup (IF e = x THEN {Len(h) + 1} ELSE {})
    BY <1>1, OccurrencesAppend
  <1> QED BY <1>2, <1>3 DEF h, x

\* The order and its payment after a step that writes both.
Replaces(o, record, paid) ==
  /\ order' = [order EXCEPT ![o] = record]
  /\ payment' = [payment EXCEPT ![o] = paid]

\* The order after a step that writes both its statuses and adds e to its history.
Written(o, status, transaction, e) ==
  [order[o] EXCEPT !.orderStatus = status, !.transactionStatus = transaction,
                   !.orderHistory = Append(@, e)]

\* What the commits have in common: the order is held by r alone, and its items stay.
LEMMA CommitInv ==
  ASSUME CheckoutInv, NEW r \in Requests, request[r].at = "commit",
         Finish(r), CommitTransaction(r),
         NEW o, o = request[r].order,
         NEW record \in OrderRecord, NEW paid \in PaymentRecord, NEW e,
         Replaces(o, record, paid),
         cart' \in [Customers -> Quantities],
         UNCHANGED <<stock, used, ledger, overlapped>>,
         record.items = order[o].items,
         record.orderStatus \in {order[o].orderStatus, "CANCELED"},
         \/ paid.transactionStatus = record.transactionStatus
         \/ paid.transactionStatus = "CAPTURED" /\ record.transactionStatus = "CANCELED",
         record.transactionStatus = "CAPTURED" => \A s \in Ordered(o) : sold[o][s] > 0,
         record.orderStatus = "CANCELED" =>
           \A s \in Ordered(o) : restocked[o][s] >= order[o].items[s],
         request[r].op = "cancelOrder" => record.orderStatus = "CANCELED",
         e \in HistoryEntries,
         record.orderHistory = Append(order[o].orderHistory, e),
         e = <<"PENDING", "CAPTURED">> => request[r].op = "processWebhook" /\ ~paid.located,
         paid.located => payment[o].located
  PROVE  CheckoutInv'
  <1>1. /\ TypeOK /\ SessionTypeOK(Documents) /\ SessionsIsolated /\ RequestOK(r) /\ o \in Orders
        /\ order[o].orderStatus # "NONE" /\ record.orderStatus # "NONE"
    <2>1. TypeOK /\ SessionTypeOK(Documents) /\ SessionsIsolated /\ RequestOK(r) /\ o \in Orders
      BY RequestFields DEF CheckoutInv, TypeOK
    <2>2. request[r].op \in {"processWebhook", "cancelOrder"}
      BY <2>1, RequestFields DEF RequestRecord, RequestOK, Shape
    <2> QED BY <2>1, <2>2 DEF RequestOK, Returns
  <1>2. /\ SessionTypeOK(Documents)' /\ SessionsIsolated'
        /\ \A q \in Requests \ {r} : held'[q] = held[q]
    BY <1>1, CommitIsolated
  <1>3. /\ request' \in [Requests -> RequestRecord] /\ request'[r] = Idle
        /\ \A q \in Requests \ {r} : request'[q] = request[q]
    BY <1>1, FinishFields
  <1>4. /\ order' \in [Orders -> OrderRecord] /\ payment' \in [Orders -> PaymentRecord]
        /\ order'[o] = record /\ payment'[o] = paid
        /\ \A p \in Orders \ {o} : order'[p] = order[p] /\ payment'[p] = payment[p]
        /\ \A p \in Orders : order'[p].items = order[p].items
    BY <1>1 DEF TypeOK, Replaces
  <1>5. TypeOK'
    BY <1>1, <1>2, <1>3, <1>4 DEF TypeOK, ledger
  <1>6. \A p \in Orders : Ordered(p)' = Ordered(p)
    BY <1>4 DEF Ordered
  <1>7. StockNonNegative' /\ PaymentAgrees' /\ PaidWasDeducted'
    <2>1. StockNonNegative' /\ PaymentAgrees'
      BY <1>4 DEF CheckoutInv, StockNonNegative, PaymentAgrees
    <2> QED BY <1>4, <1>6, <2>1 DEF CheckoutInv, PaidWasDeducted, ledger
  <1>8. \A q \in Requests : RequestOK(q)'
    <2>1. RequestOK(r)'
      BY <1>3, IdleFields DEF RequestOK, Shape, HoldsOrder, Deducts, Returns
    <2>2. ASSUME NEW q \in Requests \ {r} PROVE RequestOK(q)'
      <3>1. /\ request[q].order \in Orders
            /\ \A s \in Skus : /\ sold[request[q].order][s] \in Nat
                               /\ restocked[request[q].order][s] \in Nat
        BY <1>1, RequestFields, OrderFields
      <3>2. request[q].op = "createOrder" => request[q].order # o
        BY <1>1 DEF CheckoutInv, RequestOK
      <3>3. <<"order", request[q].order>> \in held[q] => request[q].order # o
        BY <1>1 DEF RequestOK, HoldsOrder, SessionsIsolated
      <3>4. /\ order'[request[q].order].items = order[request[q].order].items
            /\ order[request[q].order].orderStatus # "NONE" => order'[request[q].order].orderStatus # "NONE"
            /\ request[q].order # o => order'[request[q].order] = order[request[q].order]
        BY <1>1, <1>4, <3>1
      <3>5. /\ request'[q] = request[q] /\ held'[q] = held[q]
            /\ sold' = sold /\ restocked' = restocked
        BY <1>2, <1>3, <2>2 DEF ledger
      <3>6. \A s \in Skus : /\ sold[request[q].order][s] >= sold[request[q].order][s]
                             /\ restocked[request[q].order][s] >= restocked[request[q].order][s]
        BY <3>1
      <3> QED BY <3>1, <3>2, <3>3, <3>4, <3>5, <3>6, OtherRequest
    <2> QED BY <2>1, <2>2
  <1>9. CreatesAlone'
    BY <1>3, IdleFields DEF CheckoutInv, CreatesAlone
  <1>10. RestockBounded'
    <2>1. ASSUME NEW p \in Orders, NEW s \in Skus, Returned(p, s) PROVE Returned(p, s)'
      <3>1. CASE order[p].orderStatus = "CANCELED"
        BY <1>4, <3>1 DEF Returned
      <3>2. CASE request[r].op = "cancelOrder" /\ p = o
        BY <1>4, <3>2 DEF Returned
      <3>3. CASE \E q \in Requests \ {r} :
                   request[q].op = "cancelOrder" /\ request[q].order = p /\ s \notin request[q].todo
        BY <1>3, <3>3 DEF Returned
      <3> QED BY <2>1, <3>1, <3>2, <3>3 DEF Returned
    <2> QED BY <1>4, <2>1 DEF CheckoutInv, RestockBounded, ledger
  <1>11. \A p \in Orders : OrderOK(p)'
    BY <1>1, <1>4, <1>6 DEF CheckoutInv, OrderOK, ledger, NoOrder
  <1>12. ASSUME ~overlapped' PROVE OneAtATime'
    <2>1. OneAtATime
      BY <1>12 DEF CheckoutInv
    <2>2. \A p \in Orders \ {o} : Captures(p)' = Captures(p)
      BY <1>4 DEF Captures
    <2>3. /\ e # <<"PENDING", "CAPTURED">> => Captures(o)' = Captures(o)
          /\ e = <<"PENDING", "CAPTURED">> => Captures(o)' = Captures(o) \cup {Len(order[o].orderHistory) + 1}
      BY <1>1, <1>4, CapturesOccur
    <2>4. \A q \in Requests \ {r} : request'[q].at = "idle" /\ request'[q].op = "none"
      <3>1. \A q \in Requests \ {r} : request[q].at = "idle"
        BY <2>1 DEF OneAtATime
      <3> QED BY <1>3, <3>1 DEF CheckoutInv, RequestOK, Shape
    <2>5. \A q \in Requests : request'[q].at = "idle" /\ request'[q].op = "none"
      BY <1>3, <2>4, IdleFields
    <2>6. ASSUME NEW p \in Orders, Method[p] = "PAY_OS"
          PROVE  /\ \A i, j \in Captures(p)' : i = j
                 /\ Captures(p)' # {} => ~payment'[p].located
      <3>1. CASE p # o
        BY <1>4, <2>1, <2>2, <2>6, <3>1 DEF OneAtATime
      <3>2. CASE p = o /\ e # <<"PENDING", "CAPTURED">>
        BY <1>4, <2>1, <2>3, <2>6, <3>2 DEF OneAtATime
      <3>3. CASE p = o /\ e = <<"PENDING", "CAPTURED">>
        <4>1. Captures(o) = {}
          BY <1>1, <2>1, <2>6, <3>3 DEF OneAtATime
        <4> QED BY <1>4, <2>3, <3>3, <4>1
      <3> QED BY <3>1, <3>2, <3>3
    <2> QED BY <2>5, <2>6 DEF OneAtATime
  <1> QED BY <1>2, <1>5, <1>7, <1>8, <1>9, <1>10, <1>11, <1>12 DEF CheckoutInv

\* A write of the two statuses leaves an order in its type, and its items as they are.
LEMMA OrderWritten ==
  ASSUME TypeOK, NEW o \in Orders, NEW e \in HistoryEntries,
         NEW status \in {"NONE", "PENDING", "CONFIRMED", "CANCELED"},
         NEW transaction \in {"NONE", "DRAFT", "CAPTURED", "ERROR", "CANCELED"}
  PROVE  LET record == Written(o, status, transaction, e)
         IN /\ record \in OrderRecord
            /\ record.orderStatus = status /\ record.transactionStatus = transaction
            /\ record.items = order[o].items
            /\ record.orderHistory = Append(order[o].orderHistory, e)
  <1> DEFINE h == Append(order[o].orderHistory, e)
             record == Written(o, status, transaction, e)
  <1>1. order[o] \in OrderRecord
    BY DEF TypeOK
  <1>2. h \in Seq(HistoryEntries)
    <2>1. order[o].orderHistory \in Seq(HistoryEntries)
      BY <1>1 DEF OrderRecord, HistoryEntries
    <2> QED BY <2>1, AppendProperties
  <1>3. record = [order[o] EXCEPT !.orderStatus = status, !.transactionStatus = transaction, !.orderHistory = h]
    BY DEF Written
  <1> HIDE DEF h, record
  <1>4. /\ record \in OrderRecord
        /\ record.orderStatus = status /\ record.transactionStatus = transaction
        /\ record.items = order[o].items /\ record.orderHistory = h
    BY <1>1, <1>2, <1>3 DEF OrderRecord, HistoryEntries
  <1> QED BY <1>4 DEF h, record

\* A notification writes the payment, and of the order one status and the history.
LEMMA SettleFields ==
  ASSUME TypeOK, NEW o \in Orders, NEW status \in {"CAPTURED", "ERROR"}, Settle(o, status)
  PROVE  /\ Replaces(o, Written(o, order[o].orderStatus, status, <<"PENDING", status>>),
                     [transactionStatus |-> status, located |-> FALSE])
         /\ order[o].orderStatus \in {"NONE", "PENDING", "CONFIRMED", "CANCELED"}
         /\ <<"PENDING", status>> \in HistoryEntries
  <1> DEFINE record == Written(o, order[o].orderStatus, status, <<"PENDING", status>>)
  <1>1. order \in [Orders -> OrderRecord] /\ order[o] \in OrderRecord
    BY DEF TypeOK
  <1>2. record = [order[o] EXCEPT !.transactionStatus = status,
                                  !.orderHistory = Append(@, <<"PENDING", status>>)]
    BY <1>1 DEF Written, OrderRecord
  <1>3. order' = [order EXCEPT ![o] = record]
    BY <1>1, <1>2 DEF Settle
  <1> HIDE DEF record
  <1>4. Replaces(o, record, [transactionStatus |-> status, located |-> FALSE])
    BY <1>3 DEF Replaces, Settle
  <1> QED BY <1>1, <1>4 DEF record, OrderRecord, HistoryEntries

\* A paid notification has been through its loop: every item is deducted.
LEMMA CommitPaidInv ==
  ASSUME CheckoutInv, NEW r \in Requests, CommitPaid(r)
  PROVE  CheckoutInv'
  <1>1. TypeOK /\ RequestOK(r)
    BY DEF CheckoutInv
  <1>2. PICK o \in Orders : o = request[r].order
    BY <1>1, RequestFields
  <1> DEFINE e == <<"PENDING", "CAPTURED">>
             record == Written(o, order[o].orderStatus, "CAPTURED", e)
             paid == [transactionStatus |-> "CAPTURED", located |-> FALSE]
  <1>3. /\ Replaces(o, record, paid) /\ e \in HistoryEntries
        /\ order[o].orderStatus \in {"NONE", "PENDING", "CONFIRMED", "CANCELED"}
    BY <1>1, <1>2, SettleFields DEF CommitPaid
  <1>4. /\ record \in OrderRecord
        /\ record.orderStatus = order[o].orderStatus /\ record.transactionStatus = "CAPTURED"
        /\ record.items = order[o].items
        /\ record.orderHistory = Append(order[o].orderHistory, e)
        /\ paid \in PaymentRecord /\ paid.transactionStatus = "CAPTURED" /\ paid.located = FALSE
    <2> HIDE DEF e
    <2> QED BY <1>1, <1>3, OrderWritten DEF PaymentRecord
  <1>5. cart' \in [Customers -> Quantities]
    <2> DEFINE left == [s \in Skus |-> IF s \in Ordered(o) THEN 0 ELSE request[r].items[s]]
    <2>1. left \in Quantities
      BY <1>1, RequestFields, CheckoutAssumption DEF Quantities
    <2>2. cart' = [cart EXCEPT ![Owner[o]] = left]
      BY <1>2 DEF CommitPaid
    <2> HIDE DEF left
    <2> QED BY <1>1, <2>1, <2>2 DEF TypeOK
  <1>6. /\ request[r].at = "commit" /\ Finish(r) /\ CommitTransaction(r)
        /\ request[r].op = "processWebhook" /\ request[r].paid
        /\ UNCHANGED <<stock, used, ledger, overlapped>>
    BY DEF CommitPaid, history
  <1>7. \A s \in Ordered(o) : sold[o][s] > 0
    BY <1>1, <1>2, <1>6 DEF RequestOK, Deducts
  <1>8. record.orderStatus = "CANCELED" =>
          \A s \in Ordered(o) : restocked[o][s] >= order[o].items[s]
    BY <1>4 DEF CheckoutInv, OrderOK
  <1> HIDE DEF paid, record, e
  <1> QED BY <1>2, <1>3, <1>4, <1>5, <1>6, <1>7, <1>8, CommitInv

\* The notification of a failed payment writes ERROR to both documents, and leaves the
\* order's own status alone.
LEMMA CommitFailedInv ==
  ASSUME CheckoutInv, NEW r \in Requests, CommitFailed(r)
  PROVE  CheckoutInv'
  <1>1. TypeOK /\ RequestOK(r)
    BY DEF CheckoutInv
  <1>2. PICK o \in Orders : o = request[r].order
    BY <1>1, RequestFields
  <1> DEFINE e == <<"PENDING", "ERROR">>
             record == Written(o, order[o].orderStatus, "ERROR", e)
             paid == [transactionStatus |-> "ERROR", located |-> FALSE]
  <1>3. /\ Replaces(o, record, paid) /\ e \in HistoryEntries
        /\ order[o].orderStatus \in {"NONE", "PENDING", "CONFIRMED", "CANCELED"}
    BY <1>1, <1>2, SettleFields DEF CommitFailed
  <1>4. /\ record \in OrderRecord
        /\ record.orderStatus = order[o].orderStatus /\ record.transactionStatus = "ERROR"
        /\ record.items = order[o].items
        /\ record.orderHistory = Append(order[o].orderHistory, e)
        /\ paid \in PaymentRecord /\ paid.transactionStatus = "ERROR" /\ paid.located = FALSE
    <2> HIDE DEF e
    <2> QED BY <1>1, <1>3, OrderWritten DEF PaymentRecord
  <1>5. /\ request[r].at = "commit" /\ Finish(r) /\ CommitTransaction(r)
        /\ request[r].op = "processWebhook"
        /\ UNCHANGED <<stock, cart, used, ledger, overlapped>>
    BY DEF CommitFailed, history
  <1>6. cart' \in [Customers -> Quantities]
    BY <1>1, <1>5 DEF TypeOK
  <1>7. record.orderStatus = "CANCELED" =>
          \A s \in Ordered(o) : restocked[o][s] >= order[o].items[s]
    BY <1>4 DEF CheckoutInv, OrderOK
  <1>8. e # <<"PENDING", "CAPTURED">>
    OBVIOUS
  <1> HIDE DEF paid, record, e
  <1> QED BY <1>2, <1>3, <1>4, <1>5, <1>6, <1>7, <1>8, CommitInv

\* A cancellation has been through its loop: every item is returned.  The payment
\* stays as it is, and it is CAPTURED because the order was.
LEMMA CommitCancelInv ==
  ASSUME CheckoutInv, NEW r \in Requests, CommitCancel(r)
  PROVE  CheckoutInv'
  <1>1. TypeOK /\ RequestOK(r)
    BY DEF CheckoutInv
  <1>2. PICK o \in Orders : o = request[r].order
    BY <1>1, RequestFields
  <1> DEFINE e == <<"CANCELED", "CANCELED">>
             record == Written(o, "CANCELED", "CANCELED", e)
  <1>3. order' = [order EXCEPT ![o] = record]
    BY <1>1, <1>2 DEF CommitCancel, TypeOK, Written
  <1>4. e \in HistoryEntries /\ e # <<"PENDING", "CAPTURED">>
    BY DEF HistoryEntries
  <1>5. /\ record \in OrderRecord
        /\ record.orderStatus = "CANCELED" /\ record.transactionStatus = "CANCELED"
        /\ record.items = order[o].items
        /\ record.orderHistory = Append(order[o].orderHistory, e)
    <2> HIDE DEF e
    <2> QED BY <1>1, <1>4, OrderWritten
  <1>6. /\ request[r].at = "commit" /\ Finish(r) /\ CommitTransaction(r)
        /\ request[r].op = "cancelOrder"
        /\ UNCHANGED <<stock, cart, payment, used, ledger, overlapped>>
    BY DEF CommitCancel, history
  <1>7. /\ \A s \in Ordered(o) : restocked[o][s] >= order[o].items[s]
        /\ order[o].transactionStatus = "CAPTURED"
    BY <1>1, <1>2, <1>6 DEF RequestOK, Returns
  <1>8. /\ payment[o] \in PaymentRecord /\ payment[o].transactionStatus = "CAPTURED"
        /\ Replaces(o, record, payment[o])
        /\ cart' \in [Customers -> Quantities]
    BY <1>1, <1>3, <1>6, <1>7, OrderFields DEF CheckoutInv, PaymentAgrees, TypeOK, Replaces
  <1> HIDE DEF e, record
  <1> QED BY <1>2, <1>3, <1>4, <1>5, <1>6, <1>7, <1>8, CommitInv
-----------------------------------------------------------------------------
\* One findOneAndUpdate: it waits for the sessions that hold the order.
LEMMA ConfirmOrderInv ==
  ASSUME CheckoutInv, NEW o \in Orders, ConfirmOrder(o)
  PROVE  CheckoutInv'
  <1> DEFINE e == <<"CONFIRMED", "CAPTURED">>
             record == Written(o, "CONFIRMED", "CAPTURED", e)
  <1>1. /\ TypeOK /\ SessionTypeOK(Documents) /\ SessionsIsolated
        /\ order[o] \in OrderRecord /\ order \in [Orders -> OrderRecord]
        /\ order[o].orderStatus = "PENDING" /\ order[o].transactionStatus = "CAPTURED"
        /\ UNCHANGED <<stock, cart, payment, request, used, ledger, overlapped>>
        /\ DirectWrite(<<"order", o>>)
    BY DEF CheckoutInv, TypeOK, ConfirmOrder, history
  <1>2. order' = [order EXCEPT ![o] = record]
    <2>1. record = [order[o] EXCEPT !.orderStatus = "CONFIRMED", !.orderHistory = Append(@, e)]
      BY <1>1 DEF Written, OrderRecord
    <2> QED BY <1>1, <2>1 DEF ConfirmOrder
  <1>3. e \in HistoryEntries /\ e # <<"PENDING", "CAPTURED">>
    BY DEF HistoryEntries
  <1> HIDE DEF e
  <1>4. /\ record \in OrderRecord
        /\ record.orderStatus = "CONFIRMED" /\ record.transactionStatus = "CAPTURED"
        /\ record.items = order[o].items
        /\ record.orderHistory = Append(order[o].orderHistory, e)
    BY <1>1, <1>3, OrderWritten
  <1> HIDE DEF record
  <1>5. <<"order", o>> \in Documents
    BY DEF Documents
  <1>6. /\ SessionTypeOK(Documents)' /\ SessionsIsolated' /\ held' = held
        /\ \A q \in Requests : <<"order", o>> \notin held[q]
    BY <1>1, <1>5, DirectWriteIsolated
  <1>7. /\ order' \in [Orders -> OrderRecord] /\ order'[o] = record
        /\ \A p \in Orders \ {o} : order'[p] = order[p]
        /\ \A p \in Orders : /\ order'[p].items = order[p].items
                             /\ order'[p].transactionStatus = order[p].transactionStatus
    BY <1>1, <1>2, <1>4
  <1>8. TypeOK'
    BY <1>1, <1>6, <1>7 DEF TypeOK, ledger
  <1>9. \A p \in Orders : Ordered(p)' = Ordered(p)
    BY <1>7 DEF Ordered
  <1>10. StockNonNegative' /\ PaymentAgrees' /\ PaidWasDeducted'
    BY <1>1, <1>7, <1>9 DEF CheckoutInv, StockNonNegative, PaymentAgrees, PaidWasDeducted, ledger
  <1>11. ASSUME NEW q \in Requests PROVE RequestOK(q)'
    <2>1. /\ request[q].order \in Orders
          /\ \A s \in Skus : /\ sold[request[q].order][s] \in Nat
                             /\ restocked[request[q].order][s] \in Nat
      BY <1>1, RequestFields, OrderFields
    <2>2. request[q].op = "createOrder" \/ <<"order", request[q].order>> \in held[q]
            => request[q].order # o
      BY <1>1, <1>6 DEF CheckoutInv, RequestOK
    <2> QED BY <1>1, <1>4, <1>6, <1>7, <2>1, <2>2, OtherRequest DEF ledger
  <1>12. CreatesAlone'
    BY <1>1 DEF CheckoutInv, CreatesAlone
  <1>13. RestockBounded' /\ \A p \in Orders : OrderOK(p)'
    <2>1. \A p \in Orders, s \in Skus : Returned(p, s) => Returned(p, s)'
      BY <1>1, <1>7 DEF Returned
    <2> QED BY <1>1, <1>4, <1>7, <1>9, <2>1 DEF CheckoutInv, RestockBounded, OrderOK, ledger
  <1>14. ~overlapped' => OneAtATime'
    <2>1. \A p \in Orders : Captures(p)' = Captures(p)
      <3>1. Captures(o)' = Captures(o)
        BY <1>1, <1>3, <1>4, <1>7, CapturesOccur
      <3> QED BY <1>7, <3>1 DEF Captures
    <2> QED BY <1>1, <2>1 DEF CheckoutInv, OneAtATime
  <1> QED BY <1>6, <1>8, <1>10, <1>11, <1>12, <1>13, <1>14 DEF CheckoutInv

\* The cart handlers leave orders, payments, requests and stock alone.
LEMMA EditCartInv ==
  ASSUME CheckoutInv, NEW c \in Customers, NEW items \in Quantities, EditCart(c, items)
  PROVE  CheckoutInv'
  <1>1. /\ TypeOK /\ SessionTypeOK(Documents) /\ SessionsIsolated
        /\ UNCHANGED <<stock, order, payment, request, ledger, overlapped>>
        /\ DirectWrite(<<"cart", c>>)
    BY DEF CheckoutInv, TypeOK, EditCart, history
  <1>2. <<"cart", c>> \in Documents
    BY DEF Documents
  <1>3. SessionTypeOK(Documents)' /\ SessionsIsolated' /\ held' = held
    BY <1>1, <1>2, DirectWriteIsolated
  <1>4. TypeOK' /\ used'.failures = used.failures
    <2>1. cart' \in [Customers -> Quantities]
      BY <1>1 DEF TypeOK, EditCart
    <2>2. /\ used' \in [deliveries : Nat, failures : Nat, edits : Nat]
          /\ used'.failures = used.failures
      BY <1>1 DEF TypeOK, EditCart
    <2> QED BY <1>1, <1>3, <2>1, <2>2 DEF TypeOK, ledger
  <1>5. StockNonNegative' /\ PaymentAgrees' /\ PaidWasDeducted'
    BY <1>1 DEF CheckoutInv, StockNonNegative, PaymentAgrees, PaidWasDeducted, Ordered, ledger
  <1>6. \A q \in Requests : RequestOK(q)'
    BY <1>1, <1>3 DEF CheckoutInv, RequestOK, Shape, HoldsOrder, Deducts, Returns, Ordered, ItemsValid, ledger
  <1>7. CreatesAlone' /\ RestockBounded' /\ \A o \in Orders : OrderOK(o)'
    BY <1>1, <1>4 DEF CheckoutInv, CreatesAlone, RestockBounded, Returned, OrderOK, Ordered, ledger
  <1>8. ~overlapped' => OneAtATime'
    BY <1>1 DEF CheckoutInv, OneAtATime, Captures
  <1> QED BY <1>3, <1>4, <1>5, <1>6, <1>7, <1>8 DEF CheckoutInv

\* The order inserted is NoOrder until then, and no other request works on it.
LEMMA CreateOrderInv ==
  ASSUME CheckoutInv, NEW r \in Requests, CreateOrder(r)
  PROVE  CheckoutInv'
  <1>1. TypeOK /\ SessionTypeOK(Documents) /\ SessionsIsolated /\ RequestOK(r)
    BY DEF CheckoutInv, TypeOK
  <1>2. PICK o \in Orders : o = request[r].order
    BY <1>1, RequestFields
  <1> DEFINE items == [s \in Skus |-> IF s \in request[r].todo THEN request[r].items[s] ELSE 0]
             record == [orderStatus |-> "PENDING", transactionStatus |-> "DRAFT", items |-> items,
                        orderHistory |-> <<<<"PENDING", "DRAFT">>>>]
             paid == [transactionStatus |-> "DRAFT", located |-> Method[o] = "PAY_OS"]
  <1>3. /\ Replaces(o, record, paid)
        /\ Finish(r) /\ request[r].at = "create"
        /\ UNCHANGED <<stock, cart, used, ledger, overlapped, held, stale>>
    BY <1>2 DEF CreateOrder, Replaces, history, sessionVars
  <1>4. items \in Quantities /\ \A s \in Skus : items[s] \in Nat
    <2>1. \A n \in 0..MaxQuantity : n \in Nat
      BY CheckoutAssumption
    <2>2. items \in Quantities
      BY <1>1, RequestFields, CheckoutAssumption DEF Quantities
    <2> HIDE DEF items
    <2> QED BY <2>1, <2>2 DEF Quantities
  <1>5. /\ record \in OrderRecord /\ record.items = items
        /\ record.orderStatus = "PENDING" /\ record.transactionStatus = "DRAFT"
        /\ record.orderHistory = <<<<"PENDING", "DRAFT">>>>
        /\ paid \in PaymentRecord /\ paid.transactionStatus = "DRAFT"
    <2>1. <<<<"PENDING", "DRAFT">>>> \in Seq({"PENDING", "CONFIRMED", "CANCELED"}
                                               \X {"DRAFT", "CAPTURED", "ERROR", "CANCELED"})
      OBVIOUS
    <2> HIDE DEF items
    <2> QED BY <1>4, <2>1 DEF OrderRecord, PaymentRecord
  <1> HIDE DEF items, record, paid
  <1>6. /\ request' \in [Requests -> RequestRecord] /\ request'[r] = Idle
        /\ \A q \in Requests \ {r} : request'[q] = request[q]
    BY <1>1, <1>3, FinishFields
  <1>7. /\ order' \in [Orders -> OrderRecord] /\ payment' \in [Orders -> PaymentRecord]
        /\ order'[o] = record /\ payment'[o] = paid
        /\ \A p \in Orders \ {o} : order'[p] = order[p] /\ payment'[p] = payment[p]
    BY <1>1, <1>3, <1>5 DEF TypeOK, Replaces
  <1>8. /\ SessionTypeOK(Documents)' /\ SessionsIsolated'
        /\ held' = held /\ sold' = sold /\ restocked' = restocked
    BY <1>1, <1>3 DEF SessionTypeOK, SessionsIsolated, ledger
  <1>9. TypeOK'
    BY <1>1, <1>3, <1>6, <1>7, <1>8 DEF TypeOK
  <1>10. /\ request[r].op = "createOrder"
         /\ order[o] = NoOrder /\ order[o].orderStatus = "NONE"
    <2>1. request[r].op = "createOrder"
      BY <1>1, <1>3, RequestFields DEF RequestOK, Shape, RequestRecord
    <2> QED BY <1>1, <1>2, <2>1 DEF CheckoutInv, RequestOK, OrderOK
  <1>11. \A p \in Orders \ {o} : Ordered(p)' = Ordered(p)
    BY <1>7 DEF Ordered
  <1>12. StockNonNegative' /\ PaymentAgrees' /\ PaidWasDeducted'
    <2>1. StockNonNegative' /\ PaymentAgrees'
      BY <1>3, <1>5, <1>7 DEF CheckoutInv, StockNonNegative, PaymentAgrees
    <2> QED BY <1>5, <1>7, <1>8, <1>11, <2>1 DEF CheckoutInv, PaidWasDeducted
  <1>13. ASSUME NEW q \in Requests \ {r}
         PROVE  RequestOK(q)' /\ (request[q].op # "none" => request[q].order # o)
    <2>1. /\ request[q].order \in Orders /\ RequestOK(q)
          /\ request[q].op \in {"none", "createOrder", "processWebhook", "cancelOrder"}
          /\ \A s \in Skus : /\ sold[request[q].order][s] \in Nat
                             /\ restocked[request[q].order][s] \in Nat
      BY <1>1, RequestFields, OrderFields DEF CheckoutInv, RequestRecord
    <2>2. CASE request[q].op = "none"
      BY <1>6, <1>8, <2>1, <2>2 DEF RequestOK, Shape, HoldsOrder, Deducts, Returns
    <2>3. CASE request[q].op # "none"
      <3>1. request[q].order # o
        BY <1>2, <1>10, <2>1, <2>3 DEF CheckoutInv, CreatesAlone, RequestOK, Returns
      <3>2. order'[request[q].order] = order[request[q].order]
        BY <1>7, <2>1, <3>1
      <3>3. \A s \in Skus : /\ sold[request[q].order][s] >= sold[request[q].order][s]
                            /\ restocked[request[q].order][s] >= restocked[request[q].order][s]
        BY <2>1
      <3> QED BY <1>6, <1>8, <2>1, <3>1, <3>2, <3>3, OtherRequest
    <2> QED BY <2>2, <2>3
  <1>14. RequestOK(r)'
    BY <1>6, IdleFields DEF RequestOK, Shape, HoldsOrder, Deducts, Returns
  <1>15. CreatesAlone'
    BY <1>6, IdleFields DEF CheckoutInv, CreatesAlone
  <1>16. used.failures \in Nat /\ used' = used
    BY <1>1, <1>3 DEF TypeOK
  <1>17. \A s \in Skus : restocked[o][s] = 0
    <2> SUFFICES ASSUME NEW s \in Skus PROVE restocked[o][s] = 0
      OBVIOUS
    <2>1. restocked[o][s] \in Nat /\ restocked[o][s] <= order[o].items[s] * (1 + used.failures)
      BY <1>1, OrderFields DEF CheckoutInv, OrderOK
    <2>2. order[o].items[s] = 0
      BY <1>10 DEF NoOrder, Nothing
    <2> QED BY <1>16, <2>1, <2>2
  <1>18. RestockBounded'
    <2> SUFFICES ASSUME NEW p \in Orders, NEW s \in Skus, ~Returned(p, s)'
                 PROVE  restocked[p][s] <= order'[p].items[s] * used.failures
      BY <1>8, <1>16 DEF RestockBounded
    <2>1. CASE p = o
      BY <1>4, <1>5, <1>7, <1>16, <1>17, <2>1, Multiples
    <2>2. CASE p # o
      <3>1. Returned(p, s) => Returned(p, s)'
        <4>1. order[p].orderStatus = "CANCELED" => order'[p].orderStatus = "CANCELED"
          BY <1>7, <2>2
        <4>2. \A q \in Requests : request[q].op = "cancelOrder" => request'[q] = request[q]
          BY <1>6, <1>10
        <4> QED BY <4>1, <4>2 DEF Returned
      <3> QED BY <1>7, <2>2, <3>1 DEF CheckoutInv, RestockBounded
    <2> QED BY <2>1, <2>2
  <1>19. \A p \in Orders : OrderOK(p)'
    <2> SUFFICES ASSUME NEW p \in Orders PROVE OrderOK(p)'
      OBVIOUS
    <2>1. CASE p = o
      <3>1. \A s \in Skus : 0 <= items[s] * (1 + used.failures)
        BY <1>4, <1>16, Multiples
      <3> QED BY <1>5, <1>7, <1>8, <1>16, <1>17, <2>1, <3>1 DEF OrderOK
    <2>2. CASE p # o
      BY <1>7, <1>8, <1>11, <1>16, <2>2 DEF CheckoutInv, OrderOK
    <2> QED BY <2>1, <2>2
  <1>20. ASSUME ~overlapped' PROVE OneAtATime'
    <2>1. OneAtATime
      BY <1>3, <1>20 DEF CheckoutInv
    <2>2. \A q \in Requests : request'[q].at = "idle" /\ request'[q].op = "none"
      <3>1. \A q \in Requests \ {r} : request[q].at = "idle"
        BY <1>3, <2>1 DEF OneAtATime
      <3> QED BY <1>6, <3>1, IdleFields DEF CheckoutInv, RequestOK, Shape
    <2>3. \A p \in Orders \ {o} : Captures(p)' = Captures(p)
      BY <1>7 DEF Captures
    <2>4. Captures(o)' = {}
      BY <1>5, <1>7 DEF Captures
    <2> QED BY <1>7, <2>1, <2>2, <2>3, <2>4 DEF OneAtATime
  <1> QED BY <1>8, <1>9, <1>12, <1>13, <1>14, <1>15, <1>18, <1>19, <1>20 DEF CheckoutInv
-----------------------------------------------------------------------------
\* Every step keeps the invariant.
LEMMA CheckoutNextInv ==
  ASSUME CheckoutInv, [Next]_vars
  PROVE  CheckoutInv'
  <1>1. ASSUME NEW r \in Requests, Resume(r)
        PROVE  CheckoutInv'
    <2>1. CASE ReadCart(r) \/ ReadStock(r)
      BY <2>1, ReadInv
    <2>2. CASE CreateOrder(r)
      BY <2>2, CreateOrderInv
    <2>3. CASE UpdateCart(r) \/ UpdatePayment(r) \/ UpdateOrder(r)
      BY <2>3, SessionWritesInv
    <2>4. CASE \E s \in Skus : SetStock(r, s) \/ IncStock(r, s)
      BY <2>4, SetStockInv, IncStockInv
    <2>5. CASE CommitPaid(r) \/ CommitFailed(r) \/ CommitCancel(r)
      BY <2>5, CommitPaidInv, CommitFailedInv, CommitCancelInv
    <2> QED BY <1>1, <2>1, <2>2, <2>3, <2>4, <2>5 DEF Resume
  <1>2. CASE UNCHANGED vars
    <2>1. UNCHANGED <<stock, cart, order, payment, request, used, sold, restocked, overlapped, held, stale>>
      BY <1>2 DEF vars, docs, history, ledger, sessionVars
    <2>2. TypeOK' /\ SessionsIsolated'
      BY <2>1 DEF CheckoutInv, TypeOK, SessionTypeOK, SessionsIsolated
    <2>3. StockNonNegative' /\ PaymentAgrees' /\ PaidWasDeducted'
      BY <2>1 DEF CheckoutInv, StockNonNegative, PaymentAgrees, PaidWasDeducted, Ordered
    <2>4. \A r \in Requests : RequestOK(r)'
      BY <2>1 DEF CheckoutInv, RequestOK, Shape, HoldsOrder, Deducts, Returns, ItemsValid, Ordered
    <2>5. CreatesAlone' /\ RestockBounded' /\ \A o \in Orders : OrderOK(o)'
      BY <2>1 DEF CheckoutInv, CreatesAlone, RestockBounded, Returned, OrderOK, Ordered
    <2>6. ~overlapped' => OneAtATime'
      BY <2>1 DEF CheckoutInv, OneAtATime, Captures
    <2> QED BY <2>2, <2>3, <2>4, <2>5, <2>6 DEF CheckoutInv
  <1> QED BY <1>1, <1>2, BeginInv, FailInv, ConfirmOrderInv, EditCartInv DEF Next

\* CheckoutInv holds in every reachable state.
LEMMA CheckoutAlways == Spec => []CheckoutInv
  <1> QED BY CheckoutInitInv, CheckoutNextInv, PTL DEF Spec
-----------------------------------------------------------------------------
\* Every variable keeps its type: no handler leaves an order, a payment, a cart or
\* a request in a form the others do not expect.
THEOREM CheckoutTypeCorrect == Spec => []TypeOK
  <1>1. CheckoutInv => TypeOK
    BY DEF CheckoutInv
  <1> QED BY <1>1, CheckoutAlways, PTL

\* However the stock writes of notifications and cancellations race, no quantity
\* becomes negative: what a notification writes was checked in the step that read it.
THEOREM StockStaysNonNegative == Spec => []StockNonNegative
  <1>1. CheckoutInv => StockNonNegative
    BY DEF CheckoutInv
  <1> QED BY <1>1, CheckoutAlways, PTL

\* Payment and order, two documents written by several handlers, never disagree on
\* the transaction, except that a canceled order's payment is still captured.
THEOREM PaymentsAgree == Spec => []PaymentAgrees
  <1>1. CheckoutInv => PaymentAgrees
    BY DEF CheckoutInv
  <1> QED BY <1>1, CheckoutAlways, PTL

\* An order is captured only after the stock of each of its items was written.
THEOREM PaidOrdersWereDeducted == Spec => []PaidWasDeducted
  <1>1. CheckoutInv => PaidWasDeducted
    BY DEF CheckoutInv
  <1> QED BY <1>1, CheckoutAlways, PTL

\* A canceled order has returned its items, and however many cancellations race,
\* each item is returned once, and once more for each that failed.
THEOREM CanceledOrdersRestockOnce == Spec => []RestockedOnce
  <1>1. CheckoutInv => RestockedOnce
    BY DEF CheckoutInv, OrderOK, RestockedOnce
  <1> QED BY <1>1, CheckoutAlways, PTL

\* While requests come one at a time, the notifications of a PayOS order, however
\* often they are delivered, capture it at most once.
THEOREM PayOSCapturedOnce == Spec => []CapturedOnce
  <1>1. CheckoutInv => CapturedOnce
    BY DEF CheckoutInv, OneAtATime, CapturedOnce
  <1> QED BY <1>1, CheckoutAlways, PTL
-----------------------------------------------------------------------------
\* No write of the stock is lost while requests come one at a time: what a
\* notification has read of the items it has still to deduct is what the stock is.
FreshStock(r) ==
  request[r].op = "processWebhook" /\ request[r].at \in {"updateCart", "bulkWrite"} =>
    \A s \in request[r].todo : request[r].avail[s] = stock[s]

LedgerInv ==
  ~overlapped =>
    /\ \A s \in Skus : stock[s] = InitialStock[s] - Units(sold, s) + Units(restocked, s)
    /\ \A r \in Requests : FreshStock(r)

\* The units moved of a sku are a number that grows with the ledger of any order.
LEMMA UnitsGrow ==
  ASSUME NEW moved \in [Orders -> [Skus -> Nat]], NEW later \in [Orders -> [Skus -> Nat]],
         NEW o \in Orders, NEW s \in Skus, NEW n \in Nat,
         later[o][s] = moved[o][s] + n,
         \A p \in Orders, t \in Skus : p # o \/ t # s => later[p][t] = moved[p][t]
  PROVE  /\ \A t \in Skus : Units(moved, t) \in Int
         /\ Units(later, s) = Units(moved, s) + n
         /\ \A t \in Skus \ {s} : Units(later, t) = Units(moved, t)
  <1>1. IsFiniteSet(Orders)
    BY CheckoutAssumption
  <1>2. \A t \in Skus : Units(moved, t) \in Int
    BY <1>1, SumInt DEF Units
  <1>3. Units(later, s) = Units(moved, s) + n
    <2> DEFINE f == [p \in Orders |-> moved[p][s]]
               g == [p \in Orders |-> later[p][s]]
    <2>1. f \in [Orders -> Int] /\ g \in [Orders -> Int] /\ f[o] \in Int /\ g[o] = f[o] + n
      OBVIOUS
    <2>2. \A p \in Orders \ {o} : g[p] = f[p]
      OBVIOUS
    <2> HIDE DEF f, g
    <2>3. SumFunction(g) = SumFunction(f) + (g[o] - f[o])
      BY <1>1, <2>1, <2>2, SumChange
    <2>4. SumFunction(g) = SumFunction(f) + n
      BY <2>1, <2>3
    <2> QED BY <2>4 DEF Units, f, g
  <1>4. ASSUME NEW t \in Skus \ {s} PROVE Units(later, t) = Units(moved, t)
    <2>1. [p \in Orders |-> later[p][t]] = [p \in Orders |-> moved[p][t]]
      OBVIOUS
    <2> QED BY <2>1 DEF Units
  <1> QED BY <1>2, <1>3, <1>4

\* The units moved of a sku, over any finite set of orders, are an integer.
LEMMA UnitsInt ==
  ASSUME NEW moved \in [Orders -> [Skus -> Nat]], NEW s \in Skus
  PROVE  Units(moved, s) \in Int
  BY SumInt, CheckoutAssumption DEF Units

\* Nothing has been sold or returned.
LEMMA LedgerInit == Init => LedgerInv
  <1> SUFFICES ASSUME Init PROVE LedgerInv
    OBVIOUS
  <1>1. ASSUME NEW s \in Skus
        PROVE  stock[s] = InitialStock[s] - Units(sold, s) + Units(restocked, s)
    <2> DEFINE none == [o \in Orders |-> Nothing[s]]
    <2>1. DOMAIN none = Orders /\ \A o \in Orders : none[o] = 0
      BY DEF Nothing
    <2> HIDE DEF none
    <2>2. SumFunction(none) = 0
      BY <2>1, SumZero, CheckoutAssumption
    <2>3. [o \in Orders |-> sold[o][s]] = none /\ [o \in Orders |-> restocked[o][s]] = none
      BY DEF Init, none
    <2>4. Units(sold, s) = 0 /\ Units(restocked, s) = 0
      BY <2>2, <2>3 DEF Units
    <2>5. stock[s] = InitialStock[s] /\ InitialStock[s] \in Nat
      BY CheckoutAssumption DEF Init
    <2> QED BY <2>4, <2>5
  <1>2. \A r \in Requests : FreshStock(r)
    BY IdleFields DEF Init, FreshStock
  <1> QED BY <1>1, <1>2 DEF LedgerInv

\* What a step leaves of the items r has still to deduct, if it leaves r there at all.
Remembers(r) ==
  request'[r].op = "processWebhook" /\ request'[r].at \in {"updateCart", "bulkWrite"} =>
    /\ request[r].op = "processWebhook" /\ request[r].at \in {"updateCart", "bulkWrite"}
    /\ request'[r].avail = request[r].avail /\ request'[r].todo = request[r].todo

\* Steps that write no stock, and read none.
LEMMA LedgerKept ==
  ASSUME LedgerInv, UNCHANGED <<stock, sold, restocked>>, ~overlapped' => ~overlapped,
         \A r \in Requests : Remembers(r)
  PROVE  LedgerInv'
  BY DEF LedgerInv, Units, FreshStock, Remembers

\* A step of r that does not start, read the stock or write it.
LEMMA StepRemembers ==
  ASSUME CheckoutInv, NEW r \in Requests,
         Begin(r) \/ Resume(r) \/ Fail(r),
         ~ReadStock(r), \A s \in Skus : ~SetStock(r, s) /\ ~IncStock(r, s)
  PROVE  /\ UNCHANGED <<stock, sold, restocked>> /\ (~overlapped' => ~overlapped)
         /\ \A q \in Requests : Remembers(q)
  <1> USE DEF docs, history, ledger
  <1>1. TypeOK /\ Shape(r)
    BY DEF CheckoutInv, RequestOK
  <1>2. UNCHANGED <<stock, sold, restocked>> /\ (~overlapped' => ~overlapped)
    <2>1. CASE Begin(r)
      BY <2>1 DEF Begin, BeginOrder, ReceiveWebhook, BeginCancel, Start
    <2>2. CASE UpdateCart(r) \/ UpdatePayment(r) \/ UpdateOrder(r) \/ Fail(r)
      BY <2>2 DEF UpdateCart, UpdatePayment, UpdateOrder, WriteOrThrow, Fail, Throw
    <2>3. CASE ReadCart(r) \/ CreateOrder(r)
      BY <2>3 DEF ReadCart, CreateOrder
    <2>4. CASE CommitPaid(r)
      BY <2>4 DEF CommitPaid
    <2>5. CASE CommitFailed(r) \/ CommitCancel(r)
      BY <2>5 DEF CommitFailed, CommitCancel
    <2> QED BY <2>1, <2>2, <2>3, <2>4, <2>5 DEF Resume
  <1>3. \A q \in Requests \ {r} : request'[q] = request[q]
    BY <1>1 DEF TypeOK, Begin, BeginOrder, ReceiveWebhook, BeginCancel, Start, Resume, ReadCart,
           CreateOrder, UpdateCart, UpdatePayment, UpdateOrder, WriteOrThrow, CommitPaid,
           CommitFailed, CommitCancel, Fail, Throw, Finish
  <1>4. Remembers(r)
    <2>1. ASSUME NEW rec, request' = [request EXCEPT ![r] = rec] PROVE request'[r] = rec
      BY <1>1, <2>1 DEF TypeOK
    <2>2. CASE Begin(r)
      <3>1. request'[r].op # "processWebhook" \/ request'[r].at \in {"getCart", "payment"}
        <4>1. PICK o \in Orders : \/ \E wanted \in (SUBSET Skus) \ {{}} : BeginOrder(r, o, wanted)
                                 \/ \E paid \in BOOLEAN : ReceiveWebhook(r, o, paid)
                                 \/ BeginCancel(r, o)
          BY <2>2 DEF Begin
        <4>2. ASSUME NEW wanted, BeginOrder(r, o, wanted) PROVE request'[r].op = "createOrder"
          <5> DEFINE rec == [Idle EXCEPT !.op = "createOrder", !.at = "getCart", !.order = o,
                                         !.todo = wanted]
          <5>1. rec.op = "createOrder"
            BY DEF Idle
          <5>2. request' = [request EXCEPT ![r] = rec]
            BY <4>2 DEF BeginOrder, Start
          <5> QED BY <2>1, <5>1, <5>2
        <4>3. ASSUME NEW paid, ReceiveWebhook(r, o, paid) PROVE request'[r].at \in {"getCart", "payment"}
          <5> DEFINE rec == [Idle EXCEPT !.op = "processWebhook", !.order = o, !.paid = paid,
                                         !.at = IF paid THEN "getCart" ELSE "payment",
                                         !.todo = IF paid THEN Ordered(o) ELSE {}]
          <5>1. rec.at \in {"getCart", "payment"}
            BY DEF Idle
          <5>2. request' = [request EXCEPT ![r] = rec]
            BY <4>3 DEF ReceiveWebhook, Start
          <5> QED BY <2>1, <5>1, <5>2
        <4>4. CASE BeginCancel(r, o)
          BY <2>1, <4>4 DEF BeginCancel, Start, Idle
        <4> QED BY <4>1, <4>2, <4>3, <4>4
      <3> QED BY <3>1 DEF Remembers
    <2>3. CASE Finish(r)
      BY <1>1, <2>3, FinishFields, IdleFields DEF Remembers
    <2>4. CASE ReadCart(r) /\ ~Finish(r)
      <3>1. request'[r].at = "populate"
        BY <1>1, <2>4 DEF ReadCart, TypeOK, RequestRecord
      <3> QED BY <3>1 DEF Remembers
    <2>5. CASE (UpdateCart(r) \/ UpdatePayment(r) \/ UpdateOrder(r)) /\ ~Finish(r)
      <3>1. PICK at \in {"bulkWrite", "payment", "order", "commit"} :
              /\ request' = [request EXCEPT ![r].at = at]
              /\ at = "bulkWrite" => request[r].at = "updateCart"
        BY <2>5 DEF UpdateCart, UpdatePayment, UpdateOrder, WriteOrThrow, Throw
      <3> QED BY <1>1, <3>1, GoesTo DEF Remembers
    <2>6. CASE CreateOrder(r) \/ CommitPaid(r) \/ CommitFailed(r) \/ CommitCancel(r) \/ Fail(r)
      BY <2>3, <2>6 DEF CreateOrder, CommitPaid, CommitFailed, CommitCancel, Fail, Throw
    <2> QED BY <2>2, <2>3, <2>4, <2>5, <2>6 DEF Resume
  <1>5. \A q \in Requests \ {r} : Remembers(q)
    BY <1>3 DEF Remembers
  <1> QED BY <1>2, <1>4, <1>5

\* The stock is read as it is.
LEMMA ReadStockLedger ==
  ASSUME CheckoutInv, LedgerInv, NEW r \in Requests, ReadStock(r)
  PROVE  LedgerInv'
  <1>1. TypeOK /\ UNCHANGED <<stock, sold, restocked, overlapped>>
    BY DEF CheckoutInv, ReadStock, history, ledger
  <1>2. CASE Finish(r)
    <2>1. \A q \in Requests : Remembers(q)
      BY <1>1, <1>2, FinishFields, IdleFields DEF Remembers
    <2> QED BY <1>1, <2>1, LedgerKept
  <1>3. CASE ~Finish(r)
    <2>1. /\ request'[r].avail = stock /\ request'[r].todo = request[r].todo
          /\ \A q \in Requests \ {r} : request'[q] = request[q]
      BY <1>1, <1>3 DEF ReadStock, TypeOK, RequestRecord
    <2>2. FreshStock(r)'
      BY <1>1, <2>1 DEF FreshStock
    <2>3. \A q \in Requests \ {r} : FreshStock(q) => FreshStock(q)'
      BY <1>1, <2>1 DEF FreshStock
    <2> QED BY <1>1, <2>2, <2>3 DEF LedgerInv, Units
  <1> QED BY <1>2, <1>3

\* A notification on its own takes what it adds to the ledger from what is there.
LEMMA SetStockLedger ==
  ASSUME CheckoutInv, LedgerInv, NEW r \in Requests, NEW s \in Skus, SetStock(r, s)
  PROVE  LedgerInv'
  <1> DEFINE o == request[r].order
  <1>1. /\ TypeOK /\ o \in Orders /\ s \in request[r].todo
        /\ request[r].items[s] \in Nat /\ request[r].avail[s] \in Int
        /\ request[r].op = "processWebhook" /\ request[r].at = "bulkWrite"
        /\ UNCHANGED <<restocked, overlapped>>
    BY RequestFields DEF CheckoutInv, SetStock
  <1> SUFFICES ASSUME ~overlapped PROVE LedgerInv'
    BY <1>1 DEF LedgerInv
  <1>2. /\ sold' \in [Orders -> [Skus -> Nat]] /\ sold \in [Orders -> [Skus -> Nat]]
        /\ sold'[o][s] = sold[o][s] + request[r].items[s]
        /\ \A p \in Orders, t \in Skus : p # o \/ t # s => sold'[p][t] = sold[p][t]
    BY <1>1, LedgerGrows DEF SetStock, TypeOK
  <1>3. /\ Units(sold', s) = Units(sold, s) + request[r].items[s]
        /\ \A t \in Skus \ {s} : Units(sold', t) = Units(sold, t)
        /\ \A t \in Skus : Units(sold, t) \in Int /\ Units(restocked, t) \in Int
    <2> DEFINE n == request[r].items[s]
               later == sold'
    <2>1. o \in Orders /\ n \in Nat
      BY <1>1
    <2>2. /\ later \in [Orders -> [Skus -> Nat]] /\ sold \in [Orders -> [Skus -> Nat]]
          /\ later[o][s] = sold[o][s] + n
          /\ \A p \in Orders, t \in Skus : p # o \/ t # s => later[p][t] = sold[p][t]
      BY <1>2
    <2> HIDE DEF o, n, later
    <2>3. /\ Units(later, s) = Units(sold, s) + n
          /\ \A t \in Skus \ {s} : Units(later, t) = Units(sold, t)
      BY <2>1, <2>2, UnitsGrow
    <2>4. sold \in [Orders -> [Skus -> Nat]] /\ restocked \in [Orders -> [Skus -> Nat]]
      BY <1>1 DEF TypeOK
    <2>5. \A t \in Skus : Units(sold, t) \in Int /\ Units(restocked, t) \in Int
      BY <2>4, UnitsInt
    <2> QED BY <2>3, <2>5 DEF n, later
  <1>4. /\ stock'[s] = stock[s] - request[r].items[s] /\ stock[s] \in Int
        /\ \A t \in Skus \ {s} : stock'[t] = stock[t]
    BY <1>1 DEF SetStock, TypeOK, LedgerInv, FreshStock
  <1>5. \A t \in Skus : stock'[t] = InitialStock[t] - Units(sold', t) + Units(restocked, t)
    <2> SUFFICES ASSUME NEW t \in Skus
                 PROVE  stock'[t] = InitialStock[t] - Units(sold', t) + Units(restocked, t)
      OBVIOUS
    <2>1. /\ stock[t] = InitialStock[t] - Units(sold, t) + Units(restocked, t)
          /\ InitialStock[t] \in Nat /\ Units(sold, t) \in Int /\ Units(restocked, t) \in Int
      BY <1>3, CheckoutAssumption DEF LedgerInv
    <2>2. CASE t = s
      BY <1>1, <1>3, <1>4, <2>1, <2>2
    <2>3. CASE t # s
      BY <1>3, <1>4, <2>1, <2>3
    <2> QED BY <2>2, <2>3
  <1>6. ASSUME NEW q \in Requests PROVE FreshStock(q)'
    <2>1. CASE q = r
      <3>1. request'[r].avail = request[r].avail /\ request'[r].todo = request[r].todo \ {s}
        BY <1>1, BulkWriteFields DEF SetStock
      <3> QED BY <1>1, <1>4, <2>1, <3>1, RequestFields DEF LedgerInv, FreshStock
    <2>2. CASE q # r
      <3>1. request[q].at = "idle" /\ request'[q] = request[q]
        BY <1>1, <2>2 DEF SetStock, TypeOK, CheckoutInv, OneAtATime
      <3> QED BY <3>1 DEF FreshStock
    <2> QED BY <2>1, <2>2
  <1>7. (\A t \in Skus : stock[t] = InitialStock[t] - Units(sold, t) + Units(restocked, t))'
    BY <1>1, <1>5 DEF Units
  <1> QED BY <1>6, <1>7 DEF LedgerInv

\* A cancellation adds to the stock what it adds to the ledger.
LEMMA IncStockLedger ==
  ASSUME CheckoutInv, LedgerInv, NEW r \in Requests, NEW s \in Skus, IncStock(r, s)
  PROVE  LedgerInv'
  <1> DEFINE o == request[r].order
  <1>1. /\ TypeOK /\ o \in Orders /\ request[r].items[s] \in Nat
        /\ request[r].op = "cancelOrder" /\ request[r].at = "bulkWrite"
        /\ UNCHANGED <<sold, overlapped>>
    BY RequestFields DEF CheckoutInv, IncStock
  <1> SUFFICES ASSUME ~overlapped PROVE LedgerInv'
    BY <1>1 DEF LedgerInv
  <1>2. /\ restocked' \in [Orders -> [Skus -> Nat]] /\ restocked \in [Orders -> [Skus -> Nat]]
        /\ restocked'[o][s] = restocked[o][s] + request[r].items[s]
        /\ \A p \in Orders, t \in Skus : p # o \/ t # s => restocked'[p][t] = restocked[p][t]
    BY <1>1, LedgerGrows DEF IncStock, TypeOK
  <1>3. /\ Units(restocked', s) = Units(restocked, s) + request[r].items[s]
        /\ \A t \in Skus \ {s} : Units(restocked', t) = Units(restocked, t)
        /\ \A t \in Skus : Units(sold, t) \in Int /\ Units(restocked, t) \in Int
    <2> DEFINE n == request[r].items[s]
               later == restocked'
    <2>1. o \in Orders /\ n \in Nat
      BY <1>1
    <2>2. /\ later \in [Orders -> [Skus -> Nat]] /\ restocked \in [Orders -> [Skus -> Nat]]
          /\ later[o][s] = restocked[o][s] + n
          /\ \A p \in Orders, t \in Skus : p # o \/ t # s => later[p][t] = restocked[p][t]
      BY <1>2
    <2> HIDE DEF o, n, later
    <2>3. /\ Units(later, s) = Units(restocked, s) + n
          /\ \A t \in Skus \ {s} : Units(later, t) = Units(restocked, t)
      BY <2>1, <2>2, UnitsGrow
    <2>4. sold \in [Orders -> [Skus -> Nat]] /\ restocked \in [Orders -> [Skus -> Nat]]
      BY <1>1 DEF TypeOK
    <2>5. \A t \in Skus : Units(sold, t) \in Int /\ Units(restocked, t) \in Int
      BY <2>4, UnitsInt
    <2> QED BY <2>3, <2>5 DEF n, later
  <1>4. /\ stock'[s] = stock[s] + request[r].items[s] /\ stock[s] \in Int
        /\ \A t \in Skus \ {s} : stock'[t] = stock[t]
    BY <1>1 DEF IncStock, TypeOK
  <1>5. \A t \in Skus : stock'[t] = InitialStock[t] - Units(sold, t) + Units(restocked', t)
    <2> SUFFICES ASSUME NEW t \in Skus
                 PROVE  stock'[t] = InitialStock[t] - Units(sold, t) + Units(restocked', t)
      OBVIOUS
    <2>1. /\ stock[t] = InitialStock[t] - Units(sold, t) + Units(restocked, t)
          /\ InitialStock[t] \in Nat /\ Units(sold, t) \in Int /\ Units(restocked, t) \in Int
      BY <1>3, CheckoutAssumption DEF LedgerInv
    <2>2. CASE t = s
      BY <1>1, <1>3, <1>4, <2>1, <2>2
    <2>3. CASE t # s
      BY <1>3, <1>4, <2>1, <2>3
    <2> QED BY <2>2, <2>3
  <1>6. ASSUME NEW q \in Requests PROVE FreshStock(q)'
    <2>1. CASE q = r
      BY <1>1, <2>1, BulkWriteFields DEF IncStock, FreshStock
    <2>2. CASE q # r
      <3>1. request[q].at = "idle" /\ request'[q] = request[q]
        BY <1>1, <2>2 DEF IncStock, TypeOK, CheckoutInv, OneAtATime
      <3> QED BY <3>1 DEF FreshStock
    <2> QED BY <2>1, <2>2
  <1>7. (\A t \in Skus : stock[t] = InitialStock[t] - Units(sold, t) + Units(restocked, t))'
    BY <1>1, <1>5 DEF Units
  <1> QED BY <1>6, <1>7 DEF LedgerInv

\* Every step keeps the books, if the other invariant holds.
LEMMA LedgerNext ==
  ASSUME CheckoutInv, LedgerInv, [Next]_vars
  PROVE  LedgerInv'
  <1>1. ASSUME NEW r \in Requests, Begin(r) \/ Resume(r) \/ Fail(r) PROVE LedgerInv'
    <2>1. CASE ReadStock(r)
      BY <2>1, ReadStockLedger
    <2>2. CASE \E s \in Skus : SetStock(r, s) \/ IncStock(r, s)
      BY <2>2, SetStockLedger, IncStockLedger
    <2>3. CASE ~ReadStock(r) /\ \A s \in Skus : ~SetStock(r, s) /\ ~IncStock(r, s)
      BY <1>1, <2>3, StepRemembers, LedgerKept
    <2> QED BY <2>1, <2>2, <2>3
  <1>2. CASE \/ \E o \in Orders : ConfirmOrder(o)
             \/ \E c \in Customers, items \in Quantities : EditCart(c, items)
             \/ UNCHANGED vars
    <2>1. UNCHANGED <<stock, sold, restocked, overlapped, request>>
      BY <1>2 DEF ConfirmOrder, EditCart, vars, docs, history, ledger
    <2> QED BY <2>1, LedgerKept DEF Remembers
  <1> QED BY <1>1, <1>2 DEF Next

\* While requests come one at a time no stock write is lost: the stock is the initial
\* stock less what was sold plus what was returned, over all orders.
THEOREM StockAddsUp == Spec => []StockLedger
  <1>1. LedgerInv => StockLedger
    BY DEF LedgerInv, StockLedger
  <1> QED BY <1>1, CheckoutAlways, LedgerInit, LedgerNext, PTL DEF Spec
-----------------------------------------------------------------------------
\* Refinement of OrderLifecycle.

\* A step that writes one order writes one entry of each status function.
LEMMA StatusWritten ==
  ASSUME NEW o \in Orders, \A p \in Orders \ {o} : order'[p] = order[p]
  PROVE  /\ [p \in Orders |-> order'[p].orderStatus]
              = [[p \in Orders |-> order[p].orderStatus] EXCEPT ![o] = order'[o].orderStatus]
         /\ [p \in Orders |-> order'[p].transactionStatus]
              = [[p \in Orders |-> order[p].transactionStatus]
                   EXCEPT ![o] = order'[o].transactionStatus]
  OBVIOUS

\* The insert of createOrder is one Place.
LEMMA CreateOrderPlaces ==
  ASSUME CheckoutInv, NEW r \in Requests, CreateOrder(r)
  PROVE  Lifecycle!LifecycleNext
  <1>1. TypeOK /\ RequestOK(r)
    BY DEF CheckoutInv
  <1>2. PICK o \in Orders : o = request[r].order
    BY <1>1, RequestFields
  <1>3. order[o].orderStatus = "NONE"
    BY <1>1, <1>2, RequestFields DEF RequestOK, Shape, RequestRecord, CreateOrder
  <1>4. /\ order'[o].orderStatus = "PENDING" /\ order'[o].transactionStatus = "DRAFT"
        /\ \A p \in Orders \ {o} : order'[p] = order[p]
    BY <1>1, <1>2 DEF CreateOrder, TypeOK
  <1>5. Lifecycle!Place(o)
    BY <1>3, <1>4, StatusWritten DEF Lifecycle!Place
  <1> QED BY <1>5 DEF Lifecycle!LifecycleNext

\* The commit of a notification is one Notify.
LEMMA CommitWebhookNotifies ==
  ASSUME CheckoutInv, NEW r \in Requests, CommitPaid(r) \/ CommitFailed(r)
  PROVE  Lifecycle!LifecycleNext
  <1>1. TypeOK /\ RequestOK(r)
    BY DEF CheckoutInv
  <1>2. PICK o \in Orders : o = request[r].order
    BY <1>1, RequestFields
  <1>3. order[o].orderStatus # "NONE"
    BY <1>1, <1>2 DEF RequestOK, CommitPaid, CommitFailed
  <1>4. PICK status \in {"CAPTURED", "ERROR"} : Settle(o, status)
    BY <1>2 DEF CommitPaid, CommitFailed
  <1>5. /\ order'[o].orderStatus = order[o].orderStatus /\ order'[o].transactionStatus = status
        /\ \A p \in Orders \ {o} : order'[p] = order[p]
    <2> DEFINE e == <<"PENDING", status>>
               record == Written(o, order[o].orderStatus, status, e)
    <2>1. /\ order' = [order EXCEPT ![o] = record] /\ e \in HistoryEntries
          /\ order[o].orderStatus \in {"NONE", "PENDING", "CONFIRMED", "CANCELED"}
      BY <1>1, <1>4, SettleFields DEF Replaces
    <2>2. record.orderStatus = order[o].orderStatus /\ record.transactionStatus = status
      <3> HIDE DEF e
      <3> QED BY <1>1, <2>1, OrderWritten
    <2> HIDE DEF record
    <2> QED BY <1>1, <2>1, <2>2 DEF TypeOK
  <1>6. [p \in Orders |-> order'[p].orderStatus] = [p \in Orders |-> order[p].orderStatus]
    BY <1>5
  <1>7. Lifecycle!Notify(o, status)
    BY <1>3, <1>5, <1>6, StatusWritten DEF Lifecycle!Notify
  <1> QED BY <1>7 DEF Lifecycle!LifecycleNext

\* confirmOrder is one Advance.
LEMMA ConfirmOrderAdvances ==
  ASSUME CheckoutInv, NEW o \in Orders, ConfirmOrder(o)
  PROVE  Lifecycle!LifecycleNext
  <1>1. TypeOK
    BY DEF CheckoutInv
  <1>2. /\ order'[o].orderStatus = "CONFIRMED"
        /\ order'[o].transactionStatus = order[o].transactionStatus
        /\ \A p \in Orders \ {o} : order'[p] = order[p]
    BY <1>1 DEF ConfirmOrder, TypeOK, OrderRecord
  <1>3. [p \in Orders |-> order'[p].transactionStatus] = [p \in Orders |-> order[p].transactionStatus]
    BY <1>2
  <1>4. order[o].orderStatus = "PENDING" /\ order[o].transactionStatus = "CAPTURED"
    BY DEF ConfirmOrder
  <1>5. Lifecycle!Advance(o, "PENDING", "CONFIRMED")
    BY <1>2, <1>3, <1>4, StatusWritten DEF Lifecycle!Advance
  <1> QED BY <1>5 DEF Lifecycle!LifecycleNext, Lifecycle!OrderStatuses

\* The commit of cancelOrder is one Cancel: the order is still as it was matched.
LEMMA CommitCancelCancels ==
  ASSUME CheckoutInv, NEW r \in Requests, CommitCancel(r)
  PROVE  Lifecycle!LifecycleNext
  <1>1. TypeOK /\ RequestOK(r)
    BY DEF CheckoutInv
  <1>2. PICK o \in Orders : o = request[r].order
    BY <1>1, RequestFields
  <1>3. order[o].orderStatus \in {"PENDING", "CONFIRMED"} /\ order[o].transactionStatus = "CAPTURED"
    BY <1>1, <1>2 DEF RequestOK, Returns, CommitCancel
  <1>4. /\ order'[o].orderStatus = "CANCELED" /\ order'[o].transactionStatus = "CANCELED"
        /\ \A p \in Orders \ {o} : order'[p] = order[p]
    BY <1>1, <1>2 DEF CommitCancel, TypeOK, OrderRecord
  <1>5. Lifecycle!Cancel(o)
    BY <1>3, <1>4, StatusWritten DEF Lifecycle!Cancel
  <1> QED BY <1>5 DEF Lifecycle!LifecycleNext

\* Every step is one of the life cycle, or leaves both status fields alone.
LEMMA StepRefines ==
  ASSUME CheckoutInv, [Next]_vars
  PROVE  [Lifecycle!LifecycleNext]_(Lifecycle!lifecycleVars)
  <1>1. ASSUME order' = order
        PROVE  UNCHANGED Lifecycle!lifecycleVars
    BY <1>1 DEF Lifecycle!lifecycleVars
  <1>2. ASSUME NEW r \in Requests, Resume(r)
        PROVE  order' = order \/ Lifecycle!LifecycleNext
    <2>1. CASE CreateOrder(r) \/ CommitPaid(r) \/ CommitFailed(r) \/ CommitCancel(r)
      BY <2>1, CreateOrderPlaces, CommitWebhookNotifies, CommitCancelCancels
    <2>2. CASE \/ ReadCart(r) \/ ReadStock(r) \/ UpdateCart(r) \/ UpdatePayment(r) \/ UpdateOrder(r)
               \/ \E s \in Skus : SetStock(r, s) \/ IncStock(r, s)
      BY <2>2 DEF ReadCart, ReadStock, UpdateCart, UpdatePayment, UpdateOrder, WriteOrThrow, Throw,
                  SetStock, IncStock, docs
    <2> QED BY <1>2, <2>1, <2>2 DEF Resume
  <1>3. ASSUME NEW r \in Requests, Begin(r) \/ Fail(r)
        PROVE  order' = order
    BY <1>3 DEF Begin, BeginOrder, ReceiveWebhook, BeginCancel, Fail, Throw, docs
  <1>4. CASE \/ \E c \in Customers, items \in Quantities : EditCart(c, items)
             \/ UNCHANGED vars
    BY <1>1, <1>4 DEF EditCart, vars, docs
  <1> QED BY <1>1, <1>2, <1>3, <1>4, ConfirmOrderAdvances DEF Next

\* However createOrder, the notifications, confirmOrder and cancelOrder interleave
\* and fail, the status fields of the orders move as OrderLifecycle allows.
THEOREM CheckoutImplementsLifecycle == Spec => ImplementsLifecycle
  <1>1. Init => Lifecycle!LifecycleInit
    BY DEF Init, NoOrder, Lifecycle!LifecycleInit
  <1>2. CheckoutInv /\ [Next]_vars => [Lifecycle!LifecycleNext]_(Lifecycle!lifecycleVars)
    BY StepRefines
  <1> QED BY <1>1, <1>2, CheckoutAlways, PTL DEF Spec, ImplementsLifecycle, Lifecycle!LifecycleSpec
=============================================================================
