------------------------------ MODULE Checkout ------------------------------
(***************************************************************************)
(* From the cart to a paid order and back: OrderService.createOrder,       *)
(* confirmOrder and cancelOrder, and the payment notifications handled by  *)
(* MomoPaymentStrategy.processWebhook and PayOSPaymentStrategy.            *)
(* processWebhook/processWebhookOrder, over the documents they share.      *)
(*                                                                         *)
(* A request in flight is a record whose field "at" is the await it is     *)
(* suspended at: everything between two awaits is one step.  Repository    *)
(* calls without {session} act on committed data at once; session writes   *)
(* are held by MongoSession and take effect in the Commit actions.         *)
(***************************************************************************)
EXTENDS Integers, Sequences, FiniteSets, Functions, MongoSession

CONSTANTS Customers, Skus, Orders,
          Owner,          \* the customer an order id belongs to
          Method,         \* the paymentMethod it is created with
          InitialStock,
          MaxQuantity,    \* bound: units of one sku in a cart
          MaxDeliveries,  \* bound: notifications processed in a behaviour
          MaxFailures,    \* bound: requests lost to a crash or an error
          MaxEdits        \* bound: cart edits in a behaviour

ASSUME CheckoutAssumption ==
  /\ Orders # {} /\ IsFiniteSet(Orders)
  /\ Owner \in [Orders -> Customers]
  /\ Method \in [Orders -> {"MOMO", "PAY_OS"}]
  /\ InitialStock \in [Skus -> Nat]
  /\ {MaxQuantity, MaxDeliveries, MaxFailures, MaxEdits} \subseteq Nat

VARIABLES stock,      \* product.variants[].quantity, by sku
          cart,       \* cart.items: the quantity of each sku, 0 when absent
          order, payment,
          used,       \* how much of each bound is used up
          sold, restocked, \* history: units the stock writes of an order moved
          overlapped  \* history: two requests have been in flight at once

docs == <<cart, order, payment>>
ledger == <<sold, restocked>>
history == <<ledger, overlapped>>
vars == <<stock, docs, request, used, history, sessionVars>>

Quantities == [Skus -> 0..MaxQuantity]
Nothing == [s \in Skus |-> 0]
Ordered(o) == {s \in Skus : order[o].items[s] > 0}

NoOrder == [orderStatus |-> "NONE", transactionStatus |-> "NONE",
            items |-> Nothing, orderHistory |-> <<>>]
\* located: transaction.orderCode is in the document, so that PayOS's
\* processWebhook finds the payment.
NoPayment == [transactionStatus |-> "NONE", located |-> FALSE]

Idle == [op |-> "none", at |-> "idle", order |-> CHOOSE o \in Orders : TRUE,
         paid |-> FALSE, items |-> Nothing, avail |-> Nothing, todo |-> {}]

Documents == ({"cart"} \X Customers) \cup ({"payment", "order"} \X Orders)

OrderRecord ==
  [orderStatus : {"NONE", "PENDING", "CONFIRMED", "CANCELED"},
   transactionStatus : {"NONE", "DRAFT", "CAPTURED", "ERROR", "CANCELED"},
   items : Quantities,
   orderHistory : Seq({"PENDING", "CONFIRMED", "CANCELED"}
                        \X {"DRAFT", "CAPTURED", "ERROR", "CANCELED"})]
PaymentRecord ==
  [transactionStatus : {"NONE", "DRAFT", "CAPTURED", "ERROR"}, located : BOOLEAN]
RequestRecord ==
  [op : {"none", "createOrder", "processWebhook", "cancelOrder"},
   at : {"idle", "getCart", "populate", "create", "updateCart", "bulkWrite",
         "payment", "order", "commit"},
   order : Orders, paid : BOOLEAN,
   items : Quantities, avail : [Skus -> Int], todo : SUBSET Skus]

Init ==
  /\ stock = InitialStock
  /\ cart \in [Customers -> Quantities]
  /\ order = [o \in Orders |-> NoOrder]
  /\ payment = [o \in Orders |-> NoPayment]
  /\ request = [r \in Requests |-> Idle]
  /\ used = [deliveries |-> 0, failures |-> 0, edits |-> 0]
  /\ sold = [o \in Orders |-> Nothing]
  /\ restocked = [o \in Orders |-> Nothing]
  /\ overlapped = FALSE
  /\ SessionInit

-----------------------------------------------------------------------------
\* Steps shared by the handlers.

Start(r, rec) ==
  /\ request' = [request EXCEPT ![r] = rec]
  /\ overlapped' = (overlapped \/ \E q \in Requests \ {r} : request[q].at # "idle")
Finish(r) == request' = [request EXCEPT ![r] = Idle]

\* The catch block of every handler: abortTransaction, then rethrow.
Throw(r) == /\ Finish(r)
            /\ AbortTransaction(r)
            /\ UNCHANGED <<stock, docs, history>>

\* Mutant: a handler that retries the write instead of giving up.
WriteOrRetry(r, doc, next) ==
  /\ SessionWrite(r, doc)
  /\ request' = [request EXCEPT ![r].at = next]
  /\ UNCHANGED <<stock, docs, used, history>>

\* A session write of doc followed by the await named next, or a WriteConflict.
WriteOrThrow(r, doc, next) ==
  \/ /\ SessionWrite(r, doc)
     /\ request' = [request EXCEPT ![r].at = next]
     /\ UNCHANGED <<stock, docs, used, history>>
  \/ /\ WriteConflict(r, doc)
     /\ Throw(r)
     /\ UNCHANGED used

\* CartService.getCart, first query: the cart document, without the session.
ReadCart(r) ==
  /\ request[r].at = "getCart"
  /\ LET items == cart[Owner[request[r].order]]
     IN \/ /\ items # Nothing
           /\ request' = [request EXCEPT ![r].at = "populate", ![r].items = items]
        \/ /\ items = Nothing          \* CART_EMPTY
           /\ Finish(r)
  /\ UNCHANGED <<stock, docs, used, history, sessionVars>>

\* Mutant: the remaining quantity is not looked at.
ItemsInCart(rec, avail) == \A s \in rec.todo : rec.items[s] > 0

\* Every ordered sku is in the cart that was read, and its stock suffices.
ItemsValid(rec, avail) == \A s \in rec.todo : rec.items[s] > 0 /\ rec.items[s] <= avail[s]

\* getCart, second query: populate reads the products of the cart as they are
\* now; the items are checked before the next await.
ReadStock(r) ==
  /\ request[r].at = "populate"
  /\ \/ /\ ItemsValid(request[r], stock)
        /\ request' = [request EXCEPT ![r].avail = stock,
             ![r].at = IF request[r].op = "createOrder" THEN "create" ELSE "updateCart"]
     \/ /\ ~ItemsValid(request[r], stock)   \* ORDER_ITEMS_INVALID
        /\ Finish(r)
  /\ UNCHANGED <<stock, docs, used, history, sessionVars>>
-----------------------------------------------------------------------------
\* OrderService.createOrder.  The id o stands for the random orderCode.

BeginOrder(r, o, wanted) ==
  /\ request[r].at = "idle"
  /\ order[o].orderStatus = "NONE"
  /\ \A q \in Requests : request[q].op = "createOrder" => request[q].order # o
  /\ Start(r, [Idle EXCEPT !.op = "createOrder", !.at = "getCart", !.order = o, !.todo = wanted])
  /\ UNCHANGED <<stock, docs, used, ledger, sessionVars>>

\* The provider has answered; payment and order are inserted in one session
\* that writes nothing else, so it cannot conflict.  The cart is left as it is.
\* Only a PayOS answer has a field orderCode.
CreateOrder(r) ==
  /\ request[r].at = "create"
  /\ LET o == request[r].order
         items == [s \in Skus |-> IF s \in request[r].todo THEN request[r].items[s] ELSE 0]
     IN /\ order' = [order EXCEPT ![o] =
             [orderStatus |-> "PENDING", transactionStatus |-> "DRAFT", items |-> items,
              orderHistory |-> <<<<"PENDING", "DRAFT">>>>]]
        /\ payment' = [payment EXCEPT ![o] =
             [transactionStatus |-> "DRAFT", located |-> Method[o] = "PAY_OS"]]
  /\ Finish(r)
  /\ UNCHANGED <<stock, cart, used, history, sessionVars>>
-----------------------------------------------------------------------------
\* The provider's notification.  It may come late, twice or out of order.  A
\* PayOS notification whose payment is not found is answered with true and
\* changes nothing, as is one for an order that was never committed.

ReceiveWebhook(r, o, paid) ==
  /\ request[r].at = "idle"
  /\ used.deliveries < MaxDeliveries
  /\ order[o].orderStatus # "NONE"
  /\ Method[o] = "PAY_OS" => payment[o].located
  /\ Start(r, [Idle EXCEPT !.op = "processWebhook", !.order = o, !.paid = paid,
                           !.at = IF paid THEN "getCart" ELSE "payment",
                           !.todo = IF paid THEN Ordered(o) ELSE {}])
  /\ used' = [used EXCEPT !.deliveries = @ + 1]
  /\ UNCHANGED <<stock, docs, ledger, sessionVars>>

\* Mutant: the notification skips the stock.
UpdateCartOnly(r) ==
  /\ request[r].at = "updateCart"
  /\ WriteOrThrow(r, <<"cart", Owner[request[r].order]>>, "payment")

UpdateCart(r) ==
  /\ request[r].at = "updateCart"
  /\ WriteOrThrow(r, <<"cart", Owner[request[r].order]>>, "bulkWrite")

\* One operation of productRepository.model.bulkWrite.  The session is given
\* inside the operation, where it is not looked at: the write is outside the
\* transaction.  It stores the difference of two values read earlier.
SetStock(r, s) ==
  /\ request[r].at = "bulkWrite"
  /\ request[r].op = "processWebhook"
  /\ s \in request[r].todo
  /\ stock' = [stock EXCEPT ![s] = request[r].avail[s] - request[r].items[s]]
  /\ sold' = [sold EXCEPT ![request[r].order][s] = @ + request[r].items[s]]
  /\ request' = [request EXCEPT ![r].todo = @ \ {s},
       ![r].at = IF request[r].todo = {s} THEN "payment" ELSE "bulkWrite"]
  /\ UNCHANGED <<docs, used, restocked, overlapped, sessionVars>>

UpdatePayment(r) ==
  /\ request[r].at = "payment"
  /\ WriteOrThrow(r, <<"payment", request[r].order>>, "order")

UpdateOrder(r) ==
  /\ request[r].at = "order"
  /\ WriteOrThrow(r, <<"order", request[r].order>>, "commit")

\* Mutants: a history entry with its fields swapped; a transaction that still
\* has its orderCode, as the one processWebhookAI stores.
SettleSwapped(o, status) ==
  /\ payment' = [payment EXCEPT ![o] = [transactionStatus |-> status, located |-> FALSE]]
  /\ order' = [order EXCEPT ![o].transactionStatus = status,
                            ![o].orderHistory = Append(@, <<status, "PENDING">>)]

SettleLocated(o, status) ==
  /\ payment' = [payment EXCEPT ![o].transactionStatus = status]
  /\ order' = [order EXCEPT ![o].transactionStatus = status,
                            ![o].orderHistory = Append(@, <<"PENDING", status>>)]

\* What the held writes say of payment and order, for either outcome.
Settle(o, status) ==
  /\ payment' = [payment EXCEPT ![o] = [transactionStatus |-> status, located |-> FALSE]]
  /\ order' = [order EXCEPT ![o].transactionStatus = status,
                            ![o].orderHistory = Append(@, <<"PENDING", status>>)]

CommitPaid(r) ==
  /\ request[r].at = "commit"
  /\ request[r].op = "processWebhook"
  /\ request[r].paid
  /\ LET o == request[r].order
     IN /\ Settle(o, "CAPTURED")
        /\ cart' = [cart EXCEPT ![Owner[o]] =
             [s \in Skus |-> IF s \in Ordered(o) THEN 0 ELSE request[r].items[s]]]
  /\ Finish(r)
  /\ CommitTransaction(r)
  /\ UNCHANGED <<stock, used, history>>

CommitFailed(r) ==
  /\ request[r].at = "commit"
  /\ request[r].op = "processWebhook"
  /\ ~request[r].paid
  /\ Settle(request[r].order, "ERROR")
  /\ Finish(r)
  /\ CommitTransaction(r)
  /\ UNCHANGED <<stock, cart, used, history>>
-----------------------------------------------------------------------------
\* OrderService.confirmOrder: one findOneAndUpdate.

\* Mutant: an order that was not paid is confirmed too.
ConfirmUnpaid(o) ==
  /\ order[o].orderStatus = "PENDING"
  /\ DirectWrite(<<"order", o>>)
  /\ order' = [order EXCEPT ![o].orderStatus = "CONFIRMED",
                            ![o].orderHistory = Append(@, <<"CONFIRMED", "CAPTURED">>)]
  /\ UNCHANGED <<stock, cart, payment, request, used, history>>

ConfirmOrder(o) ==
  /\ order[o].orderStatus = "PENDING"
  /\ order[o].transactionStatus = "CAPTURED"
  /\ DirectWrite(<<"order", o>>)
  /\ order' = [order EXCEPT ![o].orderStatus = "CONFIRMED",
                            ![o].orderHistory = Append(@, <<"CONFIRMED", "CAPTURED">>)]
  /\ UNCHANGED <<stock, cart, payment, request, used, history>>
-----------------------------------------------------------------------------
\* OrderService.cancelOrder.  The order is matched and written first, in the
\* session; a match that fails, or a conflict, changes nothing.

\* Mutants: without the condition on transactionStatus; with a read in place of
\* the session write.
CancelUnpaid(r, o) ==
  /\ request[r].at = "idle"
  /\ order[o].orderStatus \in {"PENDING", "CONFIRMED"}
  /\ SessionWrite(r, <<"order", o>>)
  /\ Start(r, [Idle EXCEPT !.op = "cancelOrder", !.at = "bulkWrite", !.order = o,
                           !.items = order[o].items, !.todo = Ordered(o)])
  /\ UNCHANGED <<stock, docs, used, ledger>>

CancelByRead(r, o) ==
  /\ request[r].at = "idle"
  /\ order[o].orderStatus \in {"PENDING", "CONFIRMED"}
  /\ order[o].transactionStatus = "CAPTURED"
  /\ Start(r, [Idle EXCEPT !.op = "cancelOrder", !.at = "bulkWrite", !.order = o,
                           !.items = order[o].items, !.todo = Ordered(o)])
  /\ UNCHANGED <<stock, docs, used, ledger, sessionVars>>

BeginCancel(r, o) ==
  /\ request[r].at = "idle"
  /\ order[o].orderStatus \in {"PENDING", "CONFIRMED"}
  /\ order[o].transactionStatus = "CAPTURED"
  /\ SessionWrite(r, <<"order", o>>)
  /\ Start(r, [Idle EXCEPT !.op = "cancelOrder", !.at = "bulkWrite", !.order = o,
                           !.items = order[o].items, !.todo = Ordered(o)])
  /\ UNCHANGED <<stock, docs, used, ledger>>

\* Mutant: $set in place of $inc.
SetStockBack(r, s) ==
  /\ request[r].at = "bulkWrite"
  /\ request[r].op = "cancelOrder"
  /\ s \in request[r].todo
  /\ stock' = [stock EXCEPT ![s] = request[r].items[s]]
  /\ restocked' = [restocked EXCEPT ![request[r].order][s] = @ + request[r].items[s]]
  /\ request' = [request EXCEPT ![r].todo = @ \ {s},
       ![r].at = IF request[r].todo = {s} THEN "commit" ELSE "bulkWrite"]
  /\ UNCHANGED <<docs, used, sold, overlapped, sessionVars>>

\* bulkWrite of $inc: again outside the transaction.
IncStock(r, s) ==
  /\ request[r].at = "bulkWrite"
  /\ request[r].op = "cancelOrder"
  /\ s \in request[r].todo
  /\ stock' = [stock EXCEPT ![s] = @ + request[r].items[s]]
  /\ restocked' = [restocked EXCEPT ![request[r].order][s] = @ + request[r].items[s]]
  /\ request' = [request EXCEPT ![r].todo = @ \ {s},
       ![r].at = IF request[r].todo = {s} THEN "commit" ELSE "bulkWrite"]
  /\ UNCHANGED <<docs, used, sold, overlapped, sessionVars>>

CommitCancel(r) ==
  /\ request[r].at = "commit"
  /\ request[r].op = "cancelOrder"
  /\ LET o == request[r].order
     IN order' = [order EXCEPT ![o].orderStatus = "CANCELED", ![o].transactionStatus = "CANCELED",
                               ![o].orderHistory = Append(@, <<"CANCELED", "CANCELED">>)]
  /\ Finish(r)
  /\ CommitTransaction(r)
  /\ UNCHANGED <<stock, cart, payment, used, history>>
-----------------------------------------------------------------------------
\* Any await of a request may fail (the mail is sent before the commit, the
\* provider or the database may be unreachable) or the process may be killed:
\* the session is aborted, by the catch block or by the server.
Fail(r) ==
  /\ request[r].at # "idle"
  /\ used.failures < MaxFailures
  /\ used' = [used EXCEPT !.failures = @ + 1]
  /\ Throw(r)

\* The cart handlers, which may leave any content (they are modelled in Cart).
EditCart(c, items) ==
  /\ used.edits < MaxEdits
  /\ items # cart[c]
  /\ DirectWrite(<<"cart", c>>)
  /\ cart' = [cart EXCEPT ![c] = items]
  /\ used' = [used EXCEPT !.edits = @ + 1]
  /\ UNCHANGED <<stock, order, payment, request, history>>
-----------------------------------------------------------------------------
Resume(r) ==
  \/ ReadCart(r) \/ ReadStock(r) \/ CreateOrder(r)
  \/ UpdateCart(r) \/ \E s \in Skus : SetStock(r, s) \/ IncStock(r, s)
  \/ UpdatePayment(r) \/ UpdateOrder(r)
  \/ CommitPaid(r) \/ CommitFailed(r) \/ CommitCancel(r)

Begin(r) ==
  \E o \in Orders :
    \/ \E wanted \in (SUBSET Skus) \ {{}} : BeginOrder(r, o, wanted)
    \/ \E paid \in BOOLEAN : ReceiveWebhook(r, o, paid)
    \/ BeginCancel(r, o)

Next ==
  \/ \E r \in Requests : Begin(r) \/ Resume(r) \/ Fail(r)
  \/ \E o \in Orders : ConfirmOrder(o)
  \/ \E c \in Customers, items \in Quantities : EditCart(c, items)

Spec == Init /\ [][Next]_vars

\* The event loop resumes every suspended request.
FairSpec == Spec /\ \A r \in Requests : WF_vars(Resume(r))
-----------------------------------------------------------------------------
\* Properties.

TypeOK ==
  /\ stock \in [Skus -> Int]
  /\ cart \in [Customers -> Quantities]
  /\ order \in [Orders -> OrderRecord]
  /\ payment \in [Orders -> PaymentRecord]
  /\ request \in [Requests -> RequestRecord]
  /\ used \in [deliveries : Nat, failures : Nat, edits : Nat]
  /\ sold \in [Orders -> [Skus -> Nat]]
  /\ restocked \in [Orders -> [Skus -> Nat]]
  /\ overlapped \in BOOLEAN
  /\ SessionTypeOK(Documents)

\* No race of the absolute ($set) stock writes of notifications with each other
\* or with the relative ($inc) ones of cancellations makes a quantity negative.
StockNonNegative == \A s \in Skus : stock[s] >= 0

\* Payment and order are two documents, written one after the other by several
\* handlers; their transactionStatus never disagree, and an order that is
\* CANCELED still has its money (the refund is commented out).
PaymentAgrees ==
  \A o \in Orders :
    \/ payment[o].transactionStatus = order[o].transactionStatus
    \/ payment[o].transactionStatus = "CAPTURED" /\ order[o].transactionStatus = "CANCELED"

\* An order is CAPTURED only after the stock of each of its items was written,
\* although that write is outside the transaction that captures it.
PaidWasDeducted ==
  \A o \in Orders : order[o].transactionStatus = "CAPTURED" =>
    \A s \in Ordered(o) : sold[o][s] > 0

\* A CANCELED order has given all its items back to the stock; and however many
\* cancellations of an order race, they go back once: only a cancellation that failed
\* after the bulkWrite adds another time.
RestockedOnce ==
  \A o \in Orders :
    /\ order[o].orderStatus = "CANCELED" =>
         \A s \in Ordered(o) : restocked[o][s] >= order[o].items[s]
    /\ \A s \in Skus : restocked[o][s] <= order[o].items[s] * (1 + used.failures)

\* Whatever the interleaving of the handlers, the two status fields of an order
\* move as OrderLifecycle allows.
Lifecycle == INSTANCE OrderLifecycle
  WITH orderStatus <- [o \in Orders |-> order[o].orderStatus],
       transactionStatus <- [o \in Orders |-> order[o].transactionStatus]
ImplementsLifecycle == Lifecycle!LifecycleSpec

Units(moved, s) == SumFunction([o \in Orders |-> moved[o][s]])

\* As long as requests came one at a time, the stock is the initial stock less
\* what the orders' writes took plus what they returned: no write is lost.
StockLedger ==
  ~overlapped => \A s \in Skus : stock[s] = InitialStock[s] - Units(sold, s) + Units(restocked, s)

Captures(o) ==
  {i \in DOMAIN order[o].orderHistory : order[o].orderHistory[i] = <<"PENDING", "CAPTURED">>}

\* As long as requests came one at a time, a PayOS order is captured at most once
\* however often, late or out of order its notifications are delivered.
CapturedOnce ==
  ~overlapped => \A o \in Orders : Method[o] = "PAY_OS" => \A i, j \in Captures(o) : i = j

\* No handler stays suspended: a session write never waits for another session.
RequestEnds == \A r \in Requests : request[r].at # "idle" ~> request[r].at = "idle"

Busy(o) == \E r \in Requests : request[r].at # "idle" /\ request[r].order = o

\* "Execute in transaction" (payos.strategy.ts:86): a notification that did not
\* commit has taken nothing from the stock.
AbortedWebhookLeavesStock ==
  \A o \in Orders : ~Busy(o) /\ Captures(o) = {} => sold[o] = Nothing
=============================================================================
