---------------------------- MODULE PaymentRouting ----------------------------
(***************************************************************************)
(* Which payment provider a call reaches.  PaymentService is one object    *)
(* for all requests; every request first sets its field "strategy" and     *)
(* then calls through it, and other requests may set it again at each      *)
(* await.  createOrder and createPayment call the provider twice: the      *)
(* field is set before the first call only.                                *)
(*                                                                         *)
(* Each payment has a code of its own (orderCode, drawn at random).  What  *)
(* a notification changes once it has found its payment is the subject of  *)
(* Checkout and AiCredits; here it only has to reach it, the first time.   *)
(***************************************************************************)
EXTENDS Naturals, FiniteSets, Handlers

CONSTANTS MaxPayments,   \* bound: payments begun in a behaviour
          None           \* no provider

ASSUME RoutingAssumption == MaxPayments \in Nat /\ None \notin {"momo", "payos", "zalopay"}

VARIABLES strategy,      \* PaymentService.strategy
          payments,      \* stored payments, each with what its provider answered
          begun,         \* used up of MaxPayments; numbers the payments
          links,         \* checkout data returned to customers: code and provider
          notified,      \* codes whose first notification has been received
          missed,        \* history: codes whose first notification found nothing
          calls,         \* history: method chosen and provider called with it
          crossed        \* history: the field left payos while a request waited to use it

routingVars == <<strategy, payments, request, begun, links, notified, missed, calls, crossed>>

Methods == {"PAY_OS", "MOMO", "ZALO_PAY"}
Types == {"ORDER", "AI"}
Providers == {"momo", "payos"}
Codes == 1..MaxPayments
NotPaying == [at |-> "idle"]

\* The method decides the provider; ZaloPay is "implement later" and shares the
\* default branch.
ProviderFor(method) == IF method = "MOMO" THEN "momo" ELSE "payos"

\* getTransaction(orderCode) asks for a number.  PayOS answers with the payment
\* link, which has the orderCode.  MoMo finds no orderId in a number: it refuses,
\* or answers without an orderCode.
QueryAnswers(provider) ==
  IF provider = "payos" THEN {[ok |-> TRUE, orderCode |-> TRUE]}
  ELSE {[ok |-> TRUE, orderCode |-> FALSE], [ok |-> FALSE, orderCode |-> FALSE]}

RoutingInit ==
  /\ strategy = None
  /\ payments = {}
  /\ request = [r \in Requests |-> NotPaying]
  /\ begun = 0
  /\ links = {} /\ notified = {} /\ missed = {} /\ calls = {}
  /\ crossed = FALSE

\* setStrategy; the history notes who is still waiting to call payos.
SetStrategy(provider) ==
  /\ strategy' = provider
  /\ crossed' = (crossed \/ (provider # "payos" /\ \E q \in Requests : request[q].at = "created"))

\* createOrder with the method of the form (after that it awaits the cart), or
\* createPayment, which is always PAY_OS.
BeginPayment(r, method, type) ==
  /\ request[r] = NotPaying
  /\ type = "AI" => method = "PAY_OS"
  /\ begun < MaxPayments
  /\ begun' = begun + 1
  /\ request' = [request EXCEPT ![r] =
       [at |-> "begun", method |-> method, type |-> type, code |-> begun',
        asked |-> None, orderCode |-> FALSE]]
  /\ UNCHANGED <<strategy, payments, links, notified, missed, calls, crossed>>

\* Mutant: createPayment relies on what the field already is.
CreateTransactionUnset(r) ==
  LET req == request[r]
  IN /\ req.at = "begun"
     /\ IF req.type = "AI" /\ strategy # None THEN UNCHANGED <<strategy, crossed>>
        ELSE SetStrategy(ProviderFor(req.method))
     /\ calls' = calls \cup {<<req.method, strategy'>>}
     /\ request' = [request EXCEPT ![r].asked = strategy',
                                   ![r].at = IF req.method = "MOMO" THEN "answered" ELSE "created"]
     /\ UNCHANGED <<payments, begun, links, notified, missed>>

\* The field is set and createTransaction called in one turn.
CreateTransaction(r) ==
  LET req == request[r]
  IN /\ req.at = "begun"
     /\ SetStrategy(ProviderFor(req.method))
     /\ calls' = calls \cup {<<req.method, strategy'>>}
     /\ request' = [request EXCEPT ![r].asked = strategy',
                                   ![r].at = IF req.method = "MOMO" THEN "answered" ELSE "created"]
     /\ UNCHANGED <<payments, begun, links, notified, missed>>

\* The provider has answered; in the same turn a PayOS payment is queried, through
\* the field as it now is.
GetTransaction(r) ==
  /\ request[r].at = "created"
  /\ request' = [request EXCEPT ![r].at = "queried", ![r].asked = strategy]
  /\ UNCHANGED <<strategy, payments, begun, links, notified, missed, calls, crossed>>

\* An answer without an error; a refused query ends the request (PaymentFails).
QueryAnswered(r) ==
  /\ request[r].at = "queried"
  /\ \E answer \in QueryAnswers(request[r].asked) :
       /\ answer.ok
       /\ request' = [request EXCEPT ![r].at = "answered", ![r].orderCode = answer.orderCode]
  /\ UNCHANGED <<strategy, payments, begun, links, notified, missed, calls, crossed>>

\* Payment (and order) are stored and the checkout data is returned.
StorePayment(r) ==
  LET req == request[r]
  IN /\ req.at = "answered"
     /\ payments' = payments \cup
          {[code |-> req.code, method |-> req.method, type |-> req.type, orderCode |-> req.orderCode]}
     /\ links' = links \cup {<<req.code, ProviderFor(req.method)>>}
     /\ request' = [request EXCEPT ![r] = NotPaying]
     /\ UNCHANGED <<strategy, begun, notified, missed, calls, crossed>>

\* A failing await: the provider, the query, the database.
PaymentFails(r) ==
  /\ request[r] # NotPaying
  /\ request' = [request EXCEPT ![r] = NotPaying]
  /\ UNCHANGED <<strategy, payments, begun, links, notified, missed, calls, crossed>>

\* MoMo's notification finds the order (stored with its payment) by its orderId,
\* PayOS's the payment by its transaction.orderCode.
Finds(provider, code) ==
  \E p \in payments :
    /\ p.code = code
    /\ IF provider = "momo" THEN p.type = "ORDER" ELSE p.orderCode

\* Mutant: the notification is processed with the strategy that is set.
FirstWebhookAsSet(code, provider) ==
  /\ <<code, provider>> \in links
  /\ code \notin notified
  /\ notified' = notified \cup {code}
  /\ missed' = IF Finds(strategy, code) THEN missed ELSE missed \cup {code}
  /\ UNCHANGED <<strategy, payments, request, begun, links, calls, crossed>>

\* The first notification about a payment.  Setting the field, checking the
\* signature and processing with it take one turn.
FirstWebhook(code, provider) ==
  /\ <<code, provider>> \in links
  /\ code \notin notified
  /\ SetStrategy(provider)
  /\ notified' = notified \cup {code}
  /\ calls' = calls \cup {<<p.method, strategy'>> : p \in {q \in payments : q.code = code}}
  /\ missed' = IF Finds(strategy', code) THEN missed ELSE missed \cup {code}
  /\ UNCHANGED <<payments, request, begun, links>>

\* A notification with another signature: the field has been set all the same.
RefuseWebhook(provider) ==
  /\ SetStrategy(provider)
  /\ UNCHANGED <<payments, request, begun, links, notified, missed, calls>>

RoutingNext ==
  \/ \E r \in Requests :
       \/ \E method \in Methods, type \in Types : BeginPayment(r, method, type)
       \/ CreateTransaction(r) \/ GetTransaction(r) \/ QueryAnswered(r)
       \/ StorePayment(r) \/ PaymentFails(r)
  \/ \E code \in Codes, provider \in Providers : FirstWebhook(code, provider)
  \/ \E provider \in Providers : RefuseWebhook(provider)

RoutingSpec == RoutingInit /\ [][RoutingNext]_routingVars
-----------------------------------------------------------------------------
\* Properties.

PaymentRecord == [code : Codes, method : Methods, type : Types, orderCode : BOOLEAN]

RequestRecord ==
  {NotPaying} \cup
  [at : {"begun", "created", "queried", "answered"}, method : Methods, type : Types,
   code : Codes, asked : Providers \cup {None}, orderCode : BOOLEAN]

RoutingTypeOK ==
  /\ strategy \in Providers \cup {None}
  /\ payments \subseteq PaymentRecord
  /\ request \in [Requests -> RequestRecord]
  /\ begun \in 0..MaxPayments
  /\ links \subseteq Codes \X Providers
  /\ notified \subseteq Codes /\ missed \subseteq Codes
  /\ calls \subseteq Methods \X Providers
  /\ crossed \in BOOLEAN

\* However many requests share the field, a payment is created at, and its
\* notification processed by, the provider of its method (PaymentService): no await
\* may come between setting the field and these calls.
CallsFollowTheirChoice == \A c \in calls : c[2] = ProviderFor(c[1])

\* Unless the field was switched while a request waited between its two calls, the
\* first notification of every checkout that a customer was given finds what
\* createOrder or createPayment has stored.
FirstNotificationFinds == crossed \/ missed = {}
=============================================================================
