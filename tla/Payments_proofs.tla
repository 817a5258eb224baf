--------------------------- MODULE Payments_proofs ---------------------------
(***************************************************************************)
(* Theorems about what is paid.  AiCredits, for any number of requests and *)
(* payments, any prices and plans: two notifications never hold the same   *)
(* payment, and a payment that is held is still located: so a failed one   *)
(* is never written again, and one that is captured has been credited by   *)
(* the same request.  The balance: each step changes what is spent and     *)
(* what is generated alike, unless a call is lost; and what is to be       *)
(* charged exceeds the balance by at most the price of all but one of      *)
(* those generations, since the last to start found it covered.            *)
(* PaymentRouting, for any number of requests and payments: calls follow   *)
(* their choice because a code belongs to one request, then to one payment *)
(* and its link: whoever is notified about it was linked by the method it  *)
(* was created with.  The first notification finds its payment because,    *)
(* unless the field was switched, PayOS was asked for what PayOS was to    *)
(* store.                                                                  *)
(***************************************************************************)
EXTENDS AiCredits, PaymentRouting, SharedLemmas
-----------------------------------------------------------------------------
(* The credits of a customer. *)

Generating == [op : {"generate"}, at : {"provider", "save"}, kind : Kinds,
               todo : (SUBSET {"save", "charge"}) \ {{}}]
Notified == [op : {"processWebhook"}, at : {"payment", "credit", "commit"},
             payment : Payments, paid : BOOLEAN]

\* A session holds at most the payment it is about, and that is still located.
HoldsItsPayment(r) ==
  /\ request[r].at \notin {"credit", "commit"} => held[r] = {}
  /\ request[r].at \in {"credit", "commit"} =>
       /\ held[r] \subseteq {<<"payment", request[r].payment>>}
       /\ held[r] # {} => payment[request[r].payment].located
       /\ request[r].at = "commit" /\ request[r].paid => credited[request[r].payment] > 0

PaymentOK(p) ==
  /\ payment[p].transactionStatus = "ERROR" => ~payment[p].located
  /\ payment[p].transactionStatus = "CAPTURED" => credited[p] > 0

CreditsInv ==
  /\ TypeOK
  /\ SessionsIsolated
  /\ \A r \in Requests : HoldsItsPayment(r)
  /\ \A p \in Payments : PaymentOK(p)

\* What a request at each of its awaits looks like.
LEMMA RequestTypes ==
  ASSUME TypeOK, NEW r \in Requests
  PROVE  /\ request[r] \in {Idle} \cup Generating \cup Notified
         /\ request[r].op = "generate" => request[r] \in Generating
         /\ request[r].at \in {"provider", "save"} => request[r] \in Generating
         /\ request[r].at \in {"payment", "credit", "commit"} => request[r] \in Notified
         /\ request[r] = Idle <=> request[r].at = "idle"
  BY DEF TypeOK, Idle, Generating, Notified

\* Nothing has happened yet.
LEMMA CreditsInitInv == Init => CreditsInv
  <1> SUFFICES ASSUME Init PROVE CreditsInv
    OBVIOUS
  <1>1. SessionTypeOK(Documents) /\ SessionsIsolated
    BY SessionInitIsolated DEF Init
  <1>2. TypeOK
    <2>1. 0 \in 0..MaxDeliveries /\ 0 \in 0..MaxFailures /\ DefaultCredits \in Int
      BY AiCreditsAssumption
    <2>2. NoPayment \in [transactionStatus : {"NONE", "DRAFT", "CAPTURED", "ERROR"},
            located : BOOLEAN]
      BY DEF NoPayment
    <2> QED BY <1>1, <2>1, <2>2 DEF Init, TypeOK
  <1>3. \A r \in Requests : HoldsItsPayment(r)
    BY DEF Init, HoldsItsPayment, Idle, SessionInit
  <1>4. \A p \in Payments : PaymentOK(p)
    BY DEF Init, PaymentOK, NoPayment
  <1> QED BY <1>1, <1>2, <1>3, <1>4 DEF CreditsInv

\* A step of r that writes no payment and holds none keeps what is known of payments.
LEMMA PaymentsKept ==
  ASSUME CreditsInv, NEW r \in Requests,
         UNCHANGED <<payment, credited, sessionVars>>,
         request[r].at \notin {"credit", "commit"}, request'[r].at \notin {"credit", "commit"},
         \A q \in Requests \ {r} : request'[q] = request[q]
  PROVE  /\ SessionTypeOK(Documents)' /\ SessionsIsolated'
         /\ \A q \in Requests : HoldsItsPayment(q)'
         /\ \A p \in Payments : PaymentOK(p)'
  <1> USE DEF CreditsInv, sessionVars
  <1>1. SessionTypeOK(Documents)' /\ SessionsIsolated'
    BY DEF TypeOK, SessionTypeOK, SessionsIsolated
  <1>2. held'[r] = {}
    BY DEF HoldsItsPayment
  <1>3. \A q \in Requests : HoldsItsPayment(q)'
    BY <1>2 DEF HoldsItsPayment
  <1>4. \A p \in Payments : PaymentOK(p)'
    BY DEF PaymentOK
  <1> QED BY <1>1, <1>3, <1>4

\* A request that starts is the only one that changes.
LEMMA Starts ==
  ASSUME TypeOK, NEW r \in Requests, NEW rec \in Generating \cup Notified, Start(r, rec)
  PROVE  /\ request[r] = Idle /\ request'[r] = rec
         /\ request' \in [Requests -> {Idle} \cup Generating \cup Notified]
         /\ \A q \in Requests \ {r} : request'[q] = request[q]
  BY DEF TypeOK, Start, Generating, Notified

\* The requests that are to be charged are finitely many.
LEMMA UnpaidFinite ==
  /\ IsFiniteSet(Unpaid) /\ Cardinality(Unpaid) \in Nat
  <1>1. Unpaid \subseteq Requests
    BY DEF Unpaid
  <1> QED BY <1>1, AiCreditsAssumption, FS_Subset, FS_CardinalityType

\* A generation starts.
LEMMA GenerateInv ==
  ASSUME CreditsInv, NEW r \in Requests, NEW kind \in Kinds, Generate(r, kind)
  PROVE  CreditsInv'
  <1> DEFINE rec == [op |-> "generate", at |-> "provider", kind |-> kind,
             todo |-> {"save", "charge"}]
  <1>1. /\ Start(r, rec) /\ rec \in Generating
        /\ UNCHANGED <<creditVars, lost, payment, generations, deliveries, failures, sessionVars>>
    BY DEF Generate, Generating
  <1>2. /\ request[r] = Idle /\ request'[r] = rec
        /\ request' \in [Requests -> {Idle} \cup Generating \cup Notified]
        /\ \A q \in Requests \ {r} : request'[q] = request[q]
    BY <1>1, Starts DEF CreditsInv
  <1>3. /\ SessionTypeOK(Documents)' /\ SessionsIsolated'
        /\ \A q \in Requests : HoldsItsPayment(q)'
        /\ \A p \in Payments : PaymentOK(p)'
    BY <1>1, <1>2, PaymentsKept DEF Idle, creditVars
  <1>4. together' \in Nat
    BY UnpaidFinite DEF Generate, CreditsInv, TypeOK
  <1>5. TypeOK'
    BY <1>1, <1>2, <1>3, <1>4 DEF CreditsInv, TypeOK, Generating, Notified, creditVars
  <1> QED BY <1>3, <1>5 DEF CreditsInv

\* What is left to do once a call is done.
LEMMA CallDoneFields ==
  ASSUME TypeOK, NEW r \in Requests, NEW call \in {"save", "charge"}, CallDone(r, call)
  PROVE  /\ request[r] \in Generating /\ request[r].at = "save" /\ call \in request[r].todo
         /\ request' \in [Requests -> {Idle} \cup Generating \cup Notified]
         /\ \A q \in Requests \ {r} : request'[q] = request[q]
         /\ \/ request'[r] = Idle /\ request[r].todo = {call}
            \/ /\ request'[r] \in Generating /\ request'[r].at = "save"
               /\ request'[r].kind = request[r].kind
               /\ request'[r].todo = request[r].todo \ {call}
  <1>1. request \in [Requests -> {Idle} \cup Generating \cup Notified]
    BY DEF TypeOK, Generating, Notified
  <1>2. request[r] \in Generating /\ request[r].at = "save" /\ call \in request[r].todo
    BY RequestTypes DEF CallDone
  <1>3. CASE request[r].todo = {call}
    BY <1>1, <1>2, <1>3 DEF CallDone
  <1>4. CASE request[r].todo # {call}
    <2>1. request' = [request EXCEPT ![r] = [request[r] EXCEPT !.todo = request[r].todo \ {call}]]
      BY <1>4 DEF CallDone
    <2>2. request[r].todo \ {call} \in (SUBSET {"save", "charge"}) \ {{}}
      BY <1>2, <1>4 DEF Generating
    <2>3. /\ [request[r] EXCEPT !.todo = request[r].todo \ {call}] \in Generating
          /\ [request[r] EXCEPT !.todo = request[r].todo \ {call}].at = "save"
          /\ [request[r] EXCEPT !.todo = request[r].todo \ {call}].kind = request[r].kind
          /\ [request[r] EXCEPT !.todo = request[r].todo \ {call}].todo = request[r].todo \ {call}
      BY <1>2, <2>2 DEF Generating
    <2> QED BY <1>1, <1>2, <2>1, <2>3
  <1> QED BY <1>3, <1>4

\* The provider has answered.
LEMMA ProviderAnswersFields ==
  ASSUME TypeOK, NEW r \in Requests, ProviderAnswers(r)
  PROVE  /\ request[r] \in Generating
         /\ request' \in [Requests -> {Idle} \cup Generating \cup Notified]
         /\ \A q \in Requests \ {r} : request'[q] = request[q]
         /\ request'[r] \in Generating /\ request'[r].at = "save"
         /\ request'[r].kind = request[r].kind /\ request'[r].todo = request[r].todo
  <1>1. request \in [Requests -> {Idle} \cup Generating \cup Notified]
    BY DEF TypeOK, Generating, Notified
  <1>2. request[r] \in Generating
    BY RequestTypes DEF ProviderAnswers
  <1>3. /\ [request[r] EXCEPT !.at = "save"] \in Generating
        /\ [request[r] EXCEPT !.at = "save"].at = "save"
        /\ [request[r] EXCEPT !.at = "save"].kind = request[r].kind
        /\ [request[r] EXCEPT !.at = "save"].todo = request[r].todo
    BY <1>2 DEF Generating
  <1>4. request' = [request EXCEPT ![r] = [request[r] EXCEPT !.at = "save"]]
    BY DEF ProviderAnswers, Goto
  <1> QED BY <1>1, <1>2, <1>3, <1>4

\* The provider's answer, the two calls that follow, and those that fail, have
\* nothing to do with payments.
LEMMA GenerationInv ==
  ASSUME CreditsInv, NEW r \in Requests,
         \/ ProviderAnswers(r) \/ SaveGeneration(r) \/ Charge(r)
         \/ \E call \in {"save", "charge"} : CallFails(r, call)
  PROVE  CreditsInv'
  <1>1. TypeOK /\ UNCHANGED <<credited, payment, deliveries, together, sessionVars>>
    BY DEF CreditsInv, ProviderAnswers, SaveGeneration, Charge, CallFails, creditVars, historyVars
  <1>2. /\ request[r] \in Generating
        /\ request' \in [Requests -> {Idle} \cup Generating \cup Notified]
        /\ request'[r] \in {Idle} \cup Generating
        /\ \A q \in Requests \ {r} : request'[q] = request[q]
    <2>1. ASSUME NEW call \in {"save", "charge"}, CallDone(r, call)
          PROVE  <1>2!1 /\ <1>2!2 /\ <1>2!3 /\ <1>2!4
      BY <1>1, <2>1, CallDoneFields
    <2>2. CASE ProviderAnswers(r)
      BY <1>1, <2>2, ProviderAnswersFields
    <2> QED BY <2>1, <2>2 DEF SaveGeneration, Charge, CallFails
  <1>3. /\ SessionTypeOK(Documents)' /\ SessionsIsolated'
        /\ \A q \in Requests : HoldsItsPayment(q)'
        /\ \A p \in Payments : PaymentOK(p)'
    BY <1>1, <1>2, PaymentsKept DEF Idle, Generating
  <1>4. /\ credits' \in Int /\ generations' \in [Kinds -> Nat]
        /\ lost' \in Nat /\ failures' \in 0..MaxFailures
    BY <1>1, <1>2, AiCreditsAssumption
       DEF TypeOK, ProviderAnswers, SaveGeneration, Charge, CallFails, Generating,
           creditVars, historyVars
  <1>5. TypeOK'
    BY <1>1, <1>2, <1>3, <1>4 DEF TypeOK, Generating, Notified
  <1> QED BY <1>3, <1>5 DEF CreditsInv

\* A notification that goes on to its next await, or ends.
LEMMA GoesOn ==
  ASSUME TypeOK, NEW r \in Requests, request[r] \in Notified,
         NEW label \in {"payment", "credit", "commit"}, Goto(r, label)
  PROVE  /\ request' \in [Requests -> {Idle} \cup Generating \cup Notified]
         /\ request'[r] = [request[r] EXCEPT !.at = label]
         /\ request'[r] \in Notified /\ request'[r].at = label /\ request'[r].op # "generate"
         /\ request'[r].payment = request[r].payment /\ request'[r].paid = request[r].paid
         /\ \A q \in Requests \ {r} : request'[q] = request[q]
  <1>1. request \in [Requests -> {Idle} \cup Generating \cup Notified]
    BY DEF TypeOK, Generating, Notified
  <1>2. request' = [request EXCEPT ![r] = [request[r] EXCEPT !.at = label]]
    BY DEF Goto
  <1>3. /\ [request[r] EXCEPT !.at = label] \in Notified
        /\ [request[r] EXCEPT !.at = label].at = label
        /\ [request[r] EXCEPT !.at = label].op # "generate"
        /\ [request[r] EXCEPT !.at = label].payment = request[r].payment
        /\ [request[r] EXCEPT !.at = label].paid = request[r].paid
    BY DEF Notified
  <1> QED BY <1>1, <1>2, <1>3

\* A request that ends is idle again.
LEMMA Ends ==
  ASSUME TypeOK, NEW r \in Requests, Finish(r)
  PROVE  /\ request' \in [Requests -> {Idle} \cup Generating \cup Notified]
         /\ request'[r] = Idle
         /\ \A q \in Requests \ {r} : request'[q] = request[q]
  BY DEF TypeOK, Generating, Notified, Finish, Idle

\* The payment of a plan is inserted: no notification knows it yet.
LEMMA CreatePaymentInv ==
  ASSUME CreditsInv, NEW p \in Payments, CreatePayment(p)
  PROVE  CreditsInv'
  <1> USE DEF CreatePayment, CreditsInv, creditVars, historyVars, sessionVars
  <1>1. SessionTypeOK(Documents)' /\ SessionsIsolated'
    BY DEF TypeOK, SessionTypeOK, SessionsIsolated
  <1>2. TypeOK'
    <2>1. [transactionStatus |-> "DRAFT", located |-> TRUE]
            \in [transactionStatus : {"NONE", "DRAFT", "CAPTURED", "ERROR"}, located : BOOLEAN]
      OBVIOUS
    <2> QED BY <1>1, <2>1 DEF TypeOK
  <1>3. \A r \in Requests : HoldsItsPayment(r)'
    <2> SUFFICES ASSUME NEW r \in Requests PROVE HoldsItsPayment(r)'
      OBVIOUS
    <2>1. \A q \in Payments : payment[q].located => payment'[q].located
      BY DEF TypeOK
    <2>2. request[r].at \in {"credit", "commit"} => request[r].payment \in Payments
      BY RequestTypes DEF Notified
    <2> QED BY <2>1, <2>2 DEF HoldsItsPayment
  <1>4. \A q \in Payments : PaymentOK(q)'
    BY DEF PaymentOK, TypeOK
  <1> QED BY <1>1, <1>2, <1>3, <1>4

\* A notification that finds its payment.
LEMMA ReceiveWebhookInv ==
  ASSUME CreditsInv, NEW r \in Requests, NEW p \in Payments, NEW paid \in BOOLEAN,
         ReceiveWebhook(r, p, paid)
  PROVE  CreditsInv'
  <1> DEFINE rec == [op |-> "processWebhook", at |-> "payment", payment |-> p, paid |-> paid]
  <1>1. /\ Start(r, rec) /\ rec \in Notified
        /\ deliveries < MaxDeliveries /\ deliveries' = deliveries + 1
        /\ UNCHANGED <<creditVars, historyVars, payment, generations, failures, sessionVars>>
    BY DEF ReceiveWebhook, Notified
  <1>2. /\ request[r] = Idle /\ request'[r] = rec
        /\ request' \in [Requests -> {Idle} \cup Generating \cup Notified]
        /\ \A q \in Requests \ {r} : request'[q] = request[q]
    BY <1>1, Starts DEF CreditsInv
  <1>3. /\ SessionTypeOK(Documents)' /\ SessionsIsolated'
        /\ \A q \in Requests : HoldsItsPayment(q)'
        /\ \A q \in Payments : PaymentOK(q)'
    BY <1>1, <1>2, PaymentsKept DEF Idle, creditVars
  <1>4. deliveries' \in 0..MaxDeliveries
    BY <1>1, AiCreditsAssumption DEF CreditsInv, TypeOK
  <1>5. TypeOK'
    BY <1>1, <1>2, <1>3, <1>4
       DEF CreditsInv, TypeOK, Generating, Notified, creditVars, historyVars
  <1> QED BY <1>3, <1>5 DEF CreditsInv

\* The payment is held only when it is located, and by nobody else.
LEMMA UpdatePaymentInv ==
  ASSUME CreditsInv, NEW r \in Requests, UpdatePayment(r)
  PROVE  CreditsInv'
  <1> DEFINE p == request[r].payment
             doc == <<"payment", p>>
             next == IF request[r].paid THEN "credit" ELSE "commit"
  <1>0. /\ TypeOK /\ credits \in Int /\ SessionTypeOK(Documents) /\ SessionsIsolated
        /\ request[r] \in Notified /\ request[r] # Idle /\ doc \in Documents
        /\ held[r] = {} /\ next \in {"credit", "commit"}
        /\ next = "commit" => ~request[r].paid
        /\ UNCHANGED <<creditVars, historyVars, payment, generations, deliveries, failures>>
    BY RequestTypes
       DEF CreditsInv, TypeOK, UpdatePayment, HoldsItsPayment, Notified, Idle, Documents
  <1>1. /\ SessionTypeOK(Documents)' /\ SessionsIsolated'
        /\ \A q \in Requests \ {r} : held'[q] = held[q] /\ request'[q] = request[q]
        /\ request' \in [Requests -> {Idle} \cup Generating \cup Notified]
        /\ \/ /\ request'[r] = Idle /\ held'[r] = {}
           \/ /\ request'[r] \in Notified /\ request'[r].at = next /\ request'[r].op # "generate"
              /\ request'[r].payment = p /\ request'[r].paid = request[r].paid
              /\ held'[r] = {} \/ (held'[r] = {doc} /\ payment[p].located)
    <2>1. CASE payment[p].located /\ SessionWrite(r, doc) /\ Goto(r, next)
      <3>1. /\ SessionTypeOK(Documents)' /\ SessionsIsolated'
            /\ held'[r] = held[r] \cup {doc}
            /\ \A q \in Requests \ {r} : held'[q] = held[q]
        BY <1>0, <2>1, SessionWriteIsolated
      <3> HIDE DEF next
      <3> QED BY <1>0, <2>1, <3>1, GoesOn
    <2>2. CASE ~payment[p].located /\ Goto(r, next) /\ UNCHANGED sessionVars
      <3>1. held' = held /\ SessionTypeOK(Documents)' /\ SessionsIsolated'
        BY <1>0, <2>2 DEF sessionVars, SessionTypeOK, SessionsIsolated
      <3> HIDE DEF next
      <3> QED BY <1>0, <2>2, <3>1, GoesOn
    <2>3. CASE payment[p].located /\ WriteConflict(r, doc) /\ AbortTransaction(r) /\ Finish(r)
      BY <1>0, <2>3, AbortIsolated, Ends
    <2> QED BY <2>1, <2>2, <2>3 DEF UpdatePayment
  <1> HIDE DEF next
  <1>2. TypeOK'
    BY <1>0, <1>1 DEF TypeOK, Generating, Notified, creditVars, historyVars
  <1>3. \A q \in Requests : HoldsItsPayment(q)'
    <2>1. HoldsItsPayment(r)'
      <3>1. CASE request'[r] = Idle /\ held'[r] = {}
        BY <3>1 DEF HoldsItsPayment, Idle
      <3>2. CASE request'[r] # Idle
        BY <1>0, <1>1, <3>2 DEF HoldsItsPayment
      <3> QED BY <1>1, <3>1, <3>2 DEF Notified, Idle
    <2>2. \A q \in Requests \ {r} : HoldsItsPayment(q)'
      BY <1>0, <1>1 DEF HoldsItsPayment, CreditsInv, creditVars, historyVars
    <2> QED BY <2>1, <2>2
  <1>4. \A q \in Payments : PaymentOK(q)'
    BY <1>0 DEF PaymentOK, CreditsInv, creditVars, historyVars
  <1> QED BY <1>1, <1>2, <1>3, <1>4 DEF CreditsInv

\* The credits are added before the payment is captured.
LEMMA CreditCustomerInv ==
  ASSUME CreditsInv, NEW r \in Requests, CreditCustomer(r)
  PROVE  CreditsInv'
  <1> DEFINE p == request[r].payment
  <1>0. /\ TypeOK /\ credits \in Int /\ request[r] \in Notified /\ request[r] # Idle
        /\ p \in Payments /\ PlanCredits[p] \in Nat /\ request[r].at = "credit"
        /\ credits' = credits + PlanCredits[p]
        /\ credited' = [credited EXCEPT ![p] = credited[p] + 1]
        /\ UNCHANGED <<historyVars, payment, generations, deliveries, failures, sessionVars>>
    BY RequestTypes, AiCreditsAssumption
       DEF CreditsInv, TypeOK, CreditCustomer, Notified, Idle
  <1>1. /\ request' \in [Requests -> {Idle} \cup Generating \cup Notified]
        /\ request'[r] \in Notified /\ request'[r].at = "commit" /\ request'[r].op # "generate"
        /\ request'[r].payment = p
        /\ \A q \in Requests \ {r} : request'[q] = request[q]
    BY <1>0, GoesOn DEF CreditCustomer
  <1>2. /\ credited' \in [Payments -> Nat] /\ credited'[p] > 0
        /\ \A q \in Payments : credited[q] > 0 => credited'[q] > 0
    BY <1>0 DEF TypeOK
  <1>3. SessionTypeOK(Documents)' /\ SessionsIsolated'
    BY <1>0 DEF CreditsInv, TypeOK, SessionTypeOK, SessionsIsolated, sessionVars
  <1>4. credits' \in Int /\ credits' >= credits
    BY <1>0
  <1>5. TypeOK'
    BY <1>0, <1>1, <1>2, <1>3, <1>4 DEF TypeOK, Generating, Notified, historyVars
  <1>6. \A q \in Requests : HoldsItsPayment(q)'
    <2>1. HoldsItsPayment(r)'
      BY <1>0, <1>1, <1>2 DEF HoldsItsPayment, CreditsInv, sessionVars
    <2>2. ASSUME NEW q \in Requests \ {r} PROVE HoldsItsPayment(q)'
      <3>1. request[q].at = "commit" => request[q].payment \in Payments
        BY <1>0, RequestTypes DEF Notified
      <3> QED BY <1>0, <1>1, <1>2, <3>1 DEF HoldsItsPayment, CreditsInv, sessionVars
    <2> QED BY <2>1, <2>2
  <1>7. \A q \in Payments : PaymentOK(q)'
    BY <1>0, <1>2 DEF PaymentOK, CreditsInv
  <1> QED BY <1>3, <1>5, <1>6, <1>7 DEF CreditsInv

\* A commit writes only the payment its session holds: it is located, so it is not
\* one that has failed, and it was credited by the same request.
LEMMA CommitInv ==
  ASSUME CreditsInv, NEW r \in Requests, Commit(r)
  PROVE  /\ CreditsInv'
         /\ \A p \in Payments : payment[p].transactionStatus = "ERROR" => payment'[p] = payment[p]
  <1> DEFINE p == request[r].payment
             doc == <<"payment", p>>
  <1>0. /\ TypeOK /\ credits \in Int /\ SessionTypeOK(Documents) /\ SessionsIsolated
        /\ request[r] \in Notified /\ request[r] # Idle /\ request[r].at = "commit"
        /\ p \in Payments /\ request[r].paid \in BOOLEAN
        /\ held[r] \subseteq {doc} /\ (held[r] # {} => payment[p].located)
        /\ request[r].paid => credited[p] > 0
        /\ payment' = [q \in Payments |->
             IF <<"payment", q>> \in held[r] THEN Settled(request[r].paid) ELSE payment[q]]
        /\ UNCHANGED <<creditVars, historyVars, generations, deliveries, failures>>
    BY RequestTypes DEF CreditsInv, TypeOK, Commit, HoldsItsPayment, Notified, Idle
  <1>1. /\ SessionTypeOK(Documents)' /\ SessionsIsolated' /\ held'[r] = {}
        /\ \A q \in Requests \ {r} : held'[q] = held[q] /\ request'[q] = request[q]
        /\ request' \in [Requests -> {Idle} \cup Generating \cup Notified]
        /\ request'[r] = Idle
    BY <1>0, CommitIsolated, Ends DEF Commit
  <1>2. /\ Settled(request[r].paid)
             \in [transactionStatus : {"NONE", "DRAFT", "CAPTURED", "ERROR"}, located : BOOLEAN]
        /\ Settled(request[r].paid).transactionStatus = "ERROR" => ~Settled(request[r].paid).located
        /\ Settled(request[r].paid).transactionStatus = "CAPTURED" => request[r].paid
    BY <1>0 DEF Settled
  <1>3. \A q \in Payments : payment'[q] = payment[q] \/
          /\ q = p /\ held[r] = {doc} /\ payment[p].located
          /\ payment'[q] = Settled(request[r].paid)
    BY <1>0
  <1>4. TypeOK'
    <2>1. payment' \in [Payments -> [transactionStatus : {"NONE", "DRAFT", "CAPTURED", "ERROR"},
                                      located : BOOLEAN]]
      BY <1>0, <1>2 DEF TypeOK
    <2> QED BY <1>0, <1>1, <2>1 DEF TypeOK, Generating, Notified, creditVars, historyVars
  <1>5. \A q \in Requests : HoldsItsPayment(q)'
    <2>1. HoldsItsPayment(r)'
      BY <1>1 DEF HoldsItsPayment, Idle
    <2>2. ASSUME NEW q \in Requests \ {r} PROVE HoldsItsPayment(q)'
      <3>1. HoldsItsPayment(q) /\ request'[q] = request[q] /\ held'[q] = held[q]
              /\ credited' = credited
        BY <1>0, <1>1 DEF CreditsInv, creditVars, historyVars
      <3>2. ASSUME request[q].at \in {"credit", "commit"}, held[q] # {}
            PROVE  payment'[request[q].payment].located
        <4>1. <<"payment", request[q].payment>> \in held[q] /\ request[q].payment \in Payments
          BY <1>0, <3>1, <3>2, RequestTypes DEF HoldsItsPayment, Notified
        <4>2. <<"payment", request[q].payment>> \notin held[r]
          BY <1>0, <4>1 DEF SessionsIsolated
        <4>3. payment'[request[q].payment] = payment[request[q].payment]
          BY <1>0, <4>1, <4>2
        <4> QED BY <3>1, <3>2, <4>3 DEF HoldsItsPayment
      <3> QED BY <3>1, <3>2 DEF HoldsItsPayment
    <2> QED BY <2>1, <2>2
  <1>6. \A q \in Payments : PaymentOK(q)'
    BY <1>0, <1>2, <1>3 DEF PaymentOK, CreditsInv, creditVars, historyVars
  <1>8. \A q \in Payments : payment[q].transactionStatus = "ERROR" => payment'[q] = payment[q]
    BY <1>3 DEF PaymentOK, CreditsInv
  <1> QED BY <1>1, <1>4, <1>5, <1>6, <1>8 DEF CreditsInv

\* A request that fails releases its payment.
LEMMA FailInv ==
  ASSUME CreditsInv, NEW r \in Requests, Fail(r)
  PROVE  CreditsInv'
  <1>0. /\ TypeOK /\ credits \in Int /\ SessionTypeOK(Documents) /\ SessionsIsolated
        /\ request[r] # Idle
        /\ failures' = failures + 1 /\ failures < MaxFailures
        /\ UNCHANGED <<creditVars, historyVars, payment, generations, deliveries>>
    BY DEF CreditsInv, TypeOK, Fail, Idle
  <1>1. /\ SessionTypeOK(Documents)' /\ SessionsIsolated' /\ held'[r] = {}
        /\ \A q \in Requests \ {r} : held'[q] = held[q] /\ request'[q] = request[q]
        /\ request' \in [Requests -> {Idle} \cup Generating \cup Notified]
        /\ request'[r] = Idle
    BY <1>0, AbortIsolated, Ends DEF Fail
  <1>2. failures' \in 0..MaxFailures
    BY <1>0, AiCreditsAssumption DEF TypeOK
  <1>3. TypeOK'
    BY <1>0, <1>1, <1>2 DEF TypeOK, Generating, Notified, creditVars, historyVars
  <1>4. \A q \in Requests : HoldsItsPayment(q)'
    <2>1. HoldsItsPayment(r)'
      BY <1>1 DEF HoldsItsPayment, Idle
    <2>2. \A q \in Requests \ {r} : HoldsItsPayment(q)'
      BY <1>0, <1>1 DEF HoldsItsPayment, CreditsInv, creditVars, historyVars
    <2> QED BY <2>1, <2>2
  <1>5. \A q \in Payments : PaymentOK(q)'
    BY <1>0 DEF PaymentOK, CreditsInv, creditVars, historyVars
  <1> QED BY <1>1, <1>3, <1>4, <1>5 DEF CreditsInv

\* Every step keeps the invariant, and leaves a payment that has failed alone.
LEMMA CreditsNextInv ==
  ASSUME CreditsInv, [Next]_vars
  PROVE  /\ CreditsInv'
         /\ \A p \in Payments : payment[p].transactionStatus = "ERROR" => payment'[p] = payment[p]
  <1>1. CASE UNCHANGED vars
    BY <1>1 DEF vars, creditVars, historyVars, sessionVars, CreditsInv, TypeOK, SessionTypeOK,
         SessionsIsolated,
                HoldsItsPayment, PaymentOK
  <1>2. ASSUME NEW r \in Requests, NEW kind \in Kinds, Generate(r, kind)
        PROVE  CreditsInv' /\ UNCHANGED payment
    BY <1>2, GenerateInv DEF Generate
  <1>3. ASSUME NEW r \in Requests,
               \/ ProviderAnswers(r) \/ SaveGeneration(r) \/ Charge(r)
               \/ \E call \in {"save", "charge"} : CallFails(r, call)
        PROVE  CreditsInv' /\ UNCHANGED payment
    BY <1>3, GenerationInv DEF ProviderAnswers, SaveGeneration, Charge, CallFails
  <1>4. ASSUME NEW r \in Requests, NEW p \in Payments, NEW paid \in BOOLEAN,
               ReceiveWebhook(r, p, paid)
        PROVE  CreditsInv' /\ UNCHANGED payment
    BY <1>4, ReceiveWebhookInv DEF ReceiveWebhook
  <1>5. ASSUME NEW r \in Requests, UpdatePayment(r)
        PROVE  CreditsInv' /\ UNCHANGED payment
    BY <1>5, UpdatePaymentInv DEF UpdatePayment
  <1>6. ASSUME NEW r \in Requests, CreditCustomer(r)
        PROVE  CreditsInv' /\ UNCHANGED payment
    BY <1>6, CreditCustomerInv DEF CreditCustomer
  <1>7. ASSUME NEW r \in Requests, Fail(r)
        PROVE  CreditsInv' /\ UNCHANGED payment
    BY <1>7, FailInv DEF Fail
  <1>8. ASSUME NEW p \in Payments, CreatePayment(p)
        PROVE  /\ CreditsInv'
               /\ \A q \in Payments : payment[q].transactionStatus = "ERROR" =>
                    payment'[q] = payment[q]
    <2>1. payment[p].transactionStatus = "NONE"
            /\ \A q \in Payments \ {p} : payment'[q] = payment[q]
      BY <1>8 DEF CreatePayment, NoPayment, CreditsInv, TypeOK
    <2> QED BY <1>8, <2>1, CreatePaymentInv
  <1> QED BY <1>1, <1>2, <1>3, <1>4, <1>4, <1>5, <1>6, <1>7, <1>8, CommitInv DEF Next, vars

\* CreditsInv always holds.
LEMMA CreditsInvariant == Spec => []CreditsInv
  <1>1. Init => CreditsInv
    BY CreditsInitInv
  <1>2. CreditsInv /\ [Next]_vars => CreditsInv'
    BY CreditsNextInv
  <1> QED BY <1>1, <1>2, PTL DEF Spec

\* Requests, payments and sessions keep their types.
THEOREM CreditsTypeCorrect == Spec => []TypeOK
  <1>1. CreditsInv => TypeOK
    BY DEF CreditsInv
  <1> QED BY <1>1, CreditsInvariant, PTL

\* processWebhookAI captures a payment only once its plan was added to the credits.
THEOREM CapturedPaymentsAreCredited == Spec => []CapturedIsCredited
  <1>1. CreditsInv => CapturedIsCredited
    BY DEF CreditsInv, PaymentOK, CapturedIsCredited
  <1> QED BY <1>1, CreditsInvariant, PTL

\* A payment set to ERROR has lost its orderCode: no notification writes it again.
THEOREM FailedPaymentsStayFailed == Spec => FailedIsFinal
  <1>1. CreditsInv /\ [Next]_vars =>
          [\A p \in Payments : payment[p].transactionStatus = "ERROR" =>
            payment'[p] = payment[p]]_vars
    BY CreditsNextInv
  <1> QED BY <1>1, CreditsInvariant, PTL DEF Spec, FailedIsFinal

(* The balance. *)

Worth == SumFunction([k \in Kinds |-> generations[k] * Cost[k]])

\* What the two sides differ by is due to lost calls, and what is to be charged for is
\* covered by the balance but for the price of all but one of those generations.
BalanceInv ==
  /\ \A r \in Requests : request[r].at = "provider" => request[r].todo = {"save", "charge"}
  /\ BalanceIsAccounted
  /\ Cardinality(Unpaid) <= together
  /\ Pending("charge") - credits <= 0 \/ Pending("charge") - credits <= (together - 1) * Dearest

\* There is a dearest generation.
LEMMA DearestIsMax ==
  /\ Dearest \in Nat
  /\ \A k \in Kinds : Cost[k] \in Nat /\ Cost[k] <= Dearest
  <1>1. Cost \in [Kinds -> Int] /\ \A k \in Kinds : Cost[k] \in Nat
    BY AiCreditsAssumption
  <1>2. PICK x \in Kinds : \A k \in Kinds : Cost[k] <= Cost[x]
    BY <1>1, AiCreditsAssumption, HasLargest
  <1>3. Dearest \in {Cost[k] : k \in Kinds} /\ \A k \in Kinds : Cost[k] <= Dearest
    BY <1>2 DEF Dearest
  <1> QED BY <1>1, <1>3

\* The sums are numbers.
LEMMA BalanceTypes ==
  ASSUME TypeOK
  PROVE  /\ \A r \in Requests, call \in {"save", "charge"} : PriceLeft(r, call) \in Nat
         /\ [p \in Payments |-> credited[p] * PlanCredits[p]] \in [Payments -> Int]
         /\ [k \in Kinds |-> generations[k] * Cost[k]] \in [Kinds -> Int]
         /\ Pending("save") \in Nat /\ Pending("charge") \in Nat
         /\ Bought \in Int /\ Worth \in Int
  <1>1. ASSUME NEW r \in Requests, NEW call \in {"save", "charge"}
        PROVE  PriceLeft(r, call) \in Nat
    BY RequestTypes, DearestIsMax DEF PriceLeft, Left, Generating
  <1>2. ASSUME NEW call \in {"save", "charge"} PROVE Pending(call) \in Nat
    <2> DEFINE f == [r \in Requests |-> PriceLeft(r, call)]
    <2>1. f \in [Requests -> Nat]
      BY <1>1
    <2> HIDE DEF f
    <2>2. SumFunction(f) \in Nat
      BY <2>1, SumNat, AiCreditsAssumption
    <2> QED BY <2>2 DEF Pending, f
  <1>3. \A p \in Payments : credited[p] * PlanCredits[p] \in Int
    BY AiCreditsAssumption DEF TypeOK
  <1>4. \A k \in Kinds : generations[k] * Cost[k] \in Int
    BY DearestIsMax DEF TypeOK
  <1> DEFINE b == [p \in Payments |-> credited[p] * PlanCredits[p]]
             w == [k \in Kinds |-> generations[k] * Cost[k]]
  <1>5. b \in [Payments -> Int] /\ w \in [Kinds -> Int]
    BY <1>3, <1>4
  <1> HIDE DEF b, w
  <1>6. SumFunction(b) \in Int /\ SumFunction(w) \in Int
    BY <1>5, SumInt, AiCreditsAssumption
  <1> QED BY <1>1, <1>2, <1>5, <1>6 DEF b, w, Bought, Worth

\* What is left of a generation after a step.
LEMMA LeftTypes ==
  ASSUME TypeOK', NEW r \in Requests, NEW call \in {"save", "charge"}
  PROVE  PriceLeft(r, call)' \in Nat
  <1>1. request'[r] \in {Idle} \cup Generating \cup Notified
    BY DEF TypeOK, Generating, Notified
  <1>2. request'[r].op = "generate" => request'[r].kind \in Kinds
    BY <1>1 DEF Generating, Notified, Idle
  <1> QED BY <1>2, DearestIsMax DEF PriceLeft, Left

\* The step of one request changes what is pending by what it changes for that one.
LEMMA PendingChanges ==
  ASSUME TypeOK, TypeOK', NEW r \in Requests, NEW call \in {"save", "charge"},
         \A q \in Requests \ {r} : request'[q] = request[q]
  PROVE  Pending(call)' = Pending(call) + (PriceLeft(r, call)' - PriceLeft(r, call))
  <1> DEFINE f == [q \in Requests |-> PriceLeft(q, call)]
             g == [q \in Requests |-> PriceLeft(q, call)']
  <1>1. \A q \in Requests : PriceLeft(q, call) \in Nat
    BY BalanceTypes
  <1>2. \A q \in Requests \ {r} : PriceLeft(q, call)' = PriceLeft(q, call)
    BY DEF PriceLeft, Left
  <1>3. PriceLeft(r, call)' \in Nat
    BY LeftTypes
  <1>4. f \in [Requests -> Int] /\ g \in [Requests -> Int] /\ \A q \in Requests \ {r} : g[q] = f[q]
    BY <1>1, <1>2, <1>3
  <1>5. f[r] = PriceLeft(r, call) /\ g[r] = PriceLeft(r, call)'
    OBVIOUS
  <1> HIDE DEF f, g
  <1>6. SumFunction(g) = SumFunction(f) + (g[r] - f[r])
    BY <1>4, SumChange, AiCreditsAssumption
  <1>7. Pending(call) = SumFunction(f) /\ Pending(call)' = SumFunction(g)
    BY DEF Pending, f, g
  <1> QED BY <1>5, <1>6, <1>7

\* A generation to be charged that is added or taken away is counted.
LEMMA UnpaidChanges ==
  ASSUME NEW r \in Requests, \A q \in Requests \ {r} : request'[q] = request[q]
  PROVE  /\ IsFiniteSet(Unpaid) /\ Cardinality(Unpaid) \in Nat
         /\ Left(r, "charge") <=> r \in Unpaid
         /\ ~Left(r, "charge") /\ Left(r, "charge")' => Cardinality(Unpaid') = Cardinality(Unpaid) + 1
         /\ Left(r, "charge") /\ ~Left(r, "charge")' => Cardinality(Unpaid') = Cardinality(Unpaid) - 1
         /\ (Left(r, "charge") <=> Left(r, "charge")') => Unpaid' = Unpaid
  <1>1. \A q \in Requests \ {r} : Left(q, "charge")' <=> Left(q, "charge")
    BY DEF Left
  <1>2. Unpaid' = IF Left(r, "charge")' THEN Unpaid \cup {r} ELSE Unpaid \ {r}
    BY <1>1 DEF Unpaid
  <1>3. Left(r, "charge") <=> r \in Unpaid
    BY DEF Unpaid
  <1>4. IsFiniteSet(Unpaid) /\ Cardinality(Unpaid) \in Nat
    BY UnpaidFinite
  <1>5. ASSUME r \notin Unpaid PROVE Cardinality(Unpaid \cup {r}) = Cardinality(Unpaid) + 1
    BY <1>4, <1>5, FS_AddElement
  <1>6. ASSUME r \in Unpaid PROVE Cardinality(Unpaid \ {r}) = Cardinality(Unpaid) - 1
    BY <1>4, <1>6, FS_RemoveElement
  <1>7. (Left(r, "charge") <=> Left(r, "charge")') => Unpaid' = Unpaid
    BY <1>2, <1>3
  <1> QED BY <1>2, <1>3, <1>4, <1>5, <1>6, <1>7

\* What is to be charged is at most the dearest price for each generation.
LEMMA PendingBounded ==
  ASSUME TypeOK
  PROVE  Pending("charge") <= Cardinality(Unpaid) * Dearest
  <1> DEFINE f == [r \in Requests |-> PriceLeft(r, "charge")]
  <1>1. f \in [Requests -> Nat]
    BY BalanceTypes
  <1>2. Unpaid \in SUBSET Requests /\ \A r \in Requests \ Unpaid : f[r] = 0
    BY DEF Unpaid, PriceLeft
  <1>3. \A r \in Unpaid : f[r] <= Dearest
    BY RequestTypes, DearestIsMax DEF Unpaid, Left, PriceLeft, Generating
  <1> HIDE DEF f
  <1>4. SumFunction(f) <= Cardinality(Unpaid) * Dearest
    BY <1>1, <1>2, <1>3, DearestIsMax, SumAtMost, AiCreditsAssumption
  <1> QED BY <1>4 DEF Pending, f

\* More of the same price cost more.
LEMMA TimesMonotone ==
  ASSUME NEW a \in Nat, NEW b \in Nat, NEW c \in Nat, a <= b
  PROVE  a * c <= b * c
  <1>1. b - a \in Nat /\ b = a + (b - a)
    OBVIOUS
  <1>2. b * c = a * c + (b - a) * c
    BY <1>1
  <1>3. (b - a) * c \in Nat /\ a * c \in Nat
    BY <1>1
  <1> QED BY <1>2, <1>3

\* A step that changes both sides alike, or that loses a call and changes one by a price.
LEMMA AccountedStep ==
  ASSUME TypeOK, TypeOK', BalanceIsAccounted, NEW r \in Requests, NEW d \in Int,
         \A q \in Requests \ {r} : request'[q] = request[q],
         Bought' - credits' + PriceLeft(r, "charge")' - Worth' - PriceLeft(r, "save")'
           = Bought - credits + PriceLeft(r, "charge") - Worth - PriceLeft(r, "save") + d,
         \/ d = 0 /\ lost' = lost
         \/ d <= Dearest /\ -d <= Dearest /\ lost' = lost + 1,
         Bought' \in Int, Worth' \in Int
  PROVE  BalanceIsAccounted'
  <1>1. /\ Pending("charge")' = Pending("charge") + (PriceLeft(r, "charge")' - PriceLeft(r, "charge"))
        /\ Pending("save")' = Pending("save") + (PriceLeft(r, "save")' - PriceLeft(r, "save"))
    BY PendingChanges
  <1>2. /\ PriceLeft(r, "charge") \in Int /\ PriceLeft(r, "save") \in Int
        /\ Pending("charge") \in Int /\ Pending("save") \in Int /\ Bought \in Int /\ Worth \in Int
        /\ credits \in Int /\ credits' \in Int /\ lost \in Nat /\ Dearest \in Nat
        /\ DefaultCredits \in Int
    BY BalanceTypes, DearestIsMax, AiCreditsAssumption DEF TypeOK
  <1>3. PriceLeft(r, "charge")' \in Int /\ PriceLeft(r, "save")' \in Int
    BY LeftTypes
  <1>4. Dearest' = Dearest
    BY DEF Dearest
  <1>5. Spent - Generated = DefaultCredits + Bought - credits + Pending("charge") - Worth - Pending("save")
    BY <1>2 DEF Spent, Generated, Worth
  <1>6. Spent' - Generated' =
          DefaultCredits + Bought' - credits' + Pending("charge")' - Worth' - Pending("save")'
    BY <1>1, <1>2, <1>3 DEF Spent, Generated, Worth
  <1>7. Spent' - Generated' = (Spent - Generated) + d
    BY <1>1, <1>2, <1>3, <1>5, <1>6
  <1>8. /\ Spent - Generated <= lost * Dearest /\ Generated - Spent <= lost * Dearest
        /\ Spent \in Int /\ Generated \in Int /\ Spent' \in Int /\ Generated' \in Int
    BY <1>1, <1>2, <1>3 DEF BalanceIsAccounted, Spent, Generated, Worth
  <1>9. (lost + 1) * Dearest = lost * Dearest + Dearest /\ lost * Dearest \in Nat
    BY <1>2
  <1>10. Spent' - Generated' <= lost' * Dearest /\ Generated' - Spent' <= lost' * Dearest
    BY <1>2, <1>7, <1>8, <1>9
  <1> QED BY <1>4, <1>10 DEF BalanceIsAccounted

\* A generation that starts has been checked against the balance; another step lowers
\* the balance by no more than what it pays.
LEMMA OverdraftStep ==
  ASSUME TypeOK, TypeOK', BalanceInv, NEW r \in Requests,
         \A q \in Requests \ {r} : request'[q] = request[q],
         \/ /\ ~Left(r, "charge") /\ Left(r, "charge")'
            /\ credits' = credits /\ credits >= PriceLeft(r, "charge")'
            /\ together' >= Cardinality(Unpaid) + 1
         \/ /\ Left(r, "charge")' => Left(r, "charge")
            /\ credits' - PriceLeft(r, "charge")' >= credits - PriceLeft(r, "charge")
            /\ together' = together
  PROVE  /\ Cardinality(Unpaid)' <= together'
         /\ \/ (Pending("charge") - credits <= 0)'
            \/ (Pending("charge") - credits <= (together - 1) * Dearest)'
  <1> DEFINE p == PriceLeft(r, "charge")
  <1>0. /\ p \in Nat /\ p' \in Nat /\ credits \in Int /\ credits' \in Int
        /\ Pending("charge") \in Nat /\ Dearest \in Nat /\ together \in Nat /\ together' \in Nat
        /\ Dearest' = Dearest
    BY BalanceTypes, LeftTypes, DearestIsMax DEF TypeOK, Dearest
  <1>1. Pending("charge")' = Pending("charge") + (p' - p)
    BY PendingChanges
  <1>2. /\ Cardinality(Unpaid) \in Nat /\ Cardinality(Unpaid) <= together
        /\ Pending("charge") - credits <= 0 \/ Pending("charge") - credits <= (together - 1) * Dearest
    BY UnpaidFinite DEF BalanceInv
  <1>3. CASE /\ ~Left(r, "charge") /\ Left(r, "charge")'
             /\ credits' = credits /\ credits >= p'
             /\ together' >= Cardinality(Unpaid) + 1
    <2>1. Cardinality(Unpaid') = Cardinality(Unpaid) + 1
      BY <1>3, UnpaidChanges
    <2>2. p = 0
      BY <1>3 DEF PriceLeft
    <2>3. Pending("charge")' - credits' <= Cardinality(Unpaid) * Dearest
      <3>1. Pending("charge") <= Cardinality(Unpaid) * Dearest /\ Cardinality(Unpaid) * Dearest \in Nat
        BY <1>0, <1>2, PendingBounded
      <3> QED BY <1>0, <1>1, <1>3, <2>2, <3>1
    <2>4. Cardinality(Unpaid) \in Nat /\ together' \in Nat /\ together' >= Cardinality(Unpaid) + 1
      BY <1>0, <1>2, <1>3
    <2>5. PICK m \in Nat : m = together' - 1 /\ Cardinality(Unpaid) <= m
      BY <2>4
    <2>6. /\ Cardinality(Unpaid) * Dearest <= m * Dearest
          /\ Cardinality(Unpaid) * Dearest \in Nat /\ m * Dearest \in Nat
      <3>1. Cardinality(Unpaid) * Dearest <= m * Dearest
        BY <1>0, <2>4, <2>5, TimesMonotone
      <3>2. \A a, b \in Nat : a * b \in Nat
        OBVIOUS
      <3> QED BY <1>0, <2>4, <3>1, <3>2
    <2>7. Pending("charge")' - credits' <= m * Dearest
      BY <1>0, <1>1, <2>3, <2>6
    <2>8. Pending("charge")' - credits' <= (together' - 1) * Dearest
      BY <2>5, <2>7
    <2> QED BY <1>0, <2>1, <2>4, <2>8
  <1>4. CASE /\ Left(r, "charge")' => Left(r, "charge")
             /\ credits' - p' >= credits - p
             /\ together' = together
    <2>1. Cardinality(Unpaid)' <= Cardinality(Unpaid) /\ Cardinality(Unpaid)' \in Int
      BY <1>2, <1>4, UnpaidChanges
    <2>2. Pending("charge")' - credits' <= Pending("charge") - credits
      BY <1>0, <1>1, <1>4
    <2>3. (together - 1) * Dearest \in Int
      BY <1>0
    <2>4. \/ Pending("charge")' - credits' <= 0
          \/ Pending("charge")' - credits' <= (together - 1) * Dearest
      BY <1>0, <1>1, <1>2, <2>2, <2>3
    <2> QED BY <1>0, <1>2, <1>4, <2>1, <2>4
  <1> QED BY <1>3, <1>4

\* Nothing is bought or saved when no payment is credited and no document inserted.
LEMMA SumsKept ==
  /\ UNCHANGED credited => Bought' = Bought
  /\ UNCHANGED generations => Worth' = Worth
  BY DEF Bought, Worth

\* One more of the same price costs one price more.
LEMMA OneMore ==
  ASSUME NEW n \in Nat, NEW c \in Nat
  PROVE  (n + 1) * c = n * c + c /\ n * c \in Nat
  <1>1. n * c \in Nat
    OBVIOUS
  <1>2. (n + 1) * c = n * c + 1 * c
    OBVIOUS
  <1> QED BY <1>1, <1>2

\* A document more is worth its price.
LEMMA WorthGrows ==
  ASSUME TypeOK, TypeOK', NEW k \in Kinds,
         generations' = [generations EXCEPT ![k] = generations[k] + 1]
  PROVE  Worth' = Worth + Cost[k]
  <1> DEFINE f == [j \in Kinds |-> generations[j] * Cost[j]]
             g == [j \in Kinds |-> generations'[j] * Cost[j]]
  <1>1. f \in [Kinds -> Int] /\ g \in [Kinds -> Int]
    <2>1. \A j \in Kinds : generations[j] \in Nat /\ generations'[j] \in Nat /\ Cost[j] \in Nat
      BY DearestIsMax DEF TypeOK
    <2> QED BY <2>1
  <1>2. \A j \in Kinds \ {k} : g[j] = f[j]
    BY DEF TypeOK
  <1>3. g[k] - f[k] = Cost[k]
    <2>1. generations[k] \in Nat /\ Cost[k] \in Nat /\ generations'[k] = generations[k] + 1
      BY DearestIsMax DEF TypeOK
    <2>2. (generations[k] + 1) * Cost[k] = generations[k] * Cost[k] + Cost[k]
            /\ generations[k] * Cost[k] \in Nat
      BY <2>1, OneMore
    <2> QED BY <2>1, <2>2
  <1> HIDE DEF f, g
  <1>4. SumFunction(g) = SumFunction(f) + (g[k] - f[k])
    BY <1>1, <1>2, SumChange, AiCreditsAssumption
  <1> QED BY <1>3, <1>4 DEF Worth, f, g

\* A payment credited once more has bought its plan's credits once more.
LEMMA BoughtGrows ==
  ASSUME TypeOK, TypeOK', NEW p \in Payments,
         credited' = [credited EXCEPT ![p] = credited[p] + 1]
  PROVE  Bought' = Bought + PlanCredits[p]
  <1> DEFINE f == [q \in Payments |-> credited[q] * PlanCredits[q]]
             g == [q \in Payments |-> credited'[q] * PlanCredits[q]]
  <1>0. \A q \in Payments : credited[q] \in Nat /\ credited'[q] \in Nat /\ PlanCredits[q] \in Nat
    BY AiCreditsAssumption DEF TypeOK
  <1>1. f \in [Payments -> Int] /\ g \in [Payments -> Int]
    BY <1>0
  <1>2. \A q \in Payments \ {p} : g[q] = f[q]
    BY DEF TypeOK
  <1>3. g[p] - f[p] = PlanCredits[p]
    <2>1. credited[p] \in Nat /\ PlanCredits[p] \in Nat /\ credited'[p] = credited[p] + 1
      BY <1>0 DEF TypeOK
    <2>2. (credited[p] + 1) * PlanCredits[p] = credited[p] * PlanCredits[p] + PlanCredits[p]
            /\ credited[p] * PlanCredits[p] \in Nat
      BY <2>1, OneMore
    <2> QED BY <2>1, <2>2
  <1> HIDE DEF f, g
  <1>4. SumFunction(g) = SumFunction(f) + (g[p] - f[p])
    BY <1>1, <1>2, SumChange, AiCreditsAssumption
  <1> QED BY <1>3, <1>4 DEF Bought, f, g

\* The three facts together.
LEMMA BalanceStep ==
  ASSUME TypeOK, TypeOK', BalanceInv, NEW r \in Requests, NEW d \in Int,
         \A q \in Requests \ {r} : request'[q] = request[q],
         request'[r].at = "provider" => request'[r].todo = {"save", "charge"},
         Bought' - credits' + PriceLeft(r, "charge")' - Worth' - PriceLeft(r, "save")'
           = Bought - credits + PriceLeft(r, "charge") - Worth - PriceLeft(r, "save") + d,
         \/ d = 0 /\ lost' = lost
         \/ d <= Dearest /\ -d <= Dearest /\ lost' = lost + 1,
         Bought' \in Int, Worth' \in Int,
         \/ /\ ~Left(r, "charge") /\ Left(r, "charge")'
            /\ credits' = credits /\ credits >= PriceLeft(r, "charge")'
            /\ together' >= Cardinality(Unpaid) + 1
         \/ /\ Left(r, "charge")' => Left(r, "charge")
            /\ credits' - PriceLeft(r, "charge")' >= credits - PriceLeft(r, "charge")
            /\ together' = together
  PROVE  BalanceInv'
  <1>1. BalanceIsAccounted'
    BY AccountedStep DEF BalanceInv
  <1>2. /\ Cardinality(Unpaid)' <= together'
        /\ \/ (Pending("charge") - credits <= 0)'
           \/ (Pending("charge") - credits <= (together - 1) * Dearest)'
    BY OverdraftStep
  <1>3. \A q \in Requests : request'[q].at = "provider" => request'[q].todo = {"save", "charge"}
    BY DEF BalanceInv
  <1> QED BY <1>1, <1>2, <1>3 DEF BalanceInv

\* A generation starts: it is to be charged, and to be saved, at the price the balance
\* was checked for.
LEMMA GenerateBalance ==
  ASSUME TypeOK, TypeOK', BalanceInv, NEW r \in Requests, NEW kind \in Kinds, Generate(r, kind)
  PROVE  BalanceInv'
  <1>1. /\ request[r] = Idle /\ request'[r].op = "generate" /\ request'[r].kind = kind
        /\ request'[r].todo = {"save", "charge"}
        /\ \A q \in Requests \ {r} : request'[q] = request[q]
        /\ UNCHANGED <<credits, credited, lost, generations>>
        /\ credits >= Cost[kind] /\ Cost[kind] \in Nat /\ credits \in Int
    <2> DEFINE rec == [op |-> "generate", at |-> "provider", kind |-> kind,
               todo |-> {"save", "charge"}]
    <2>1. Start(r, rec) /\ rec \in Generating
      BY DEF Generate, Generating
    <2>2. request[r] = Idle /\ request'[r] = rec
          /\ \A q \in Requests \ {r} : request'[q] = request[q]
      BY <2>1, Starts
    <2> QED BY <2>2, DearestIsMax DEF Generate, EnoughCredits, creditVars, TypeOK
  <1>2. /\ ~Left(r, "charge") /\ Left(r, "charge")'
        /\ PriceLeft(r, "charge") = 0 /\ PriceLeft(r, "save") = 0
        /\ PriceLeft(r, "charge")' = Cost[kind] /\ PriceLeft(r, "save")' = Cost[kind]
    BY <1>1 DEF Left, PriceLeft, Idle
  <1>3. together' >= Cardinality(Unpaid) + 1
    BY UnpaidFinite DEF Generate, TypeOK
  <1>4. Bought' = Bought /\ Worth' = Worth /\ Bought \in Int /\ Worth \in Int
    BY <1>1, SumsKept, BalanceTypes
  <1> QED BY <1>1, <1>2, <1>3, <1>4, BalanceStep

\* The provider's answer changes neither side.
LEMMA ProviderAnswersBalance ==
  ASSUME TypeOK, TypeOK', BalanceInv, NEW r \in Requests, ProviderAnswers(r)
  PROVE  BalanceInv'
  <1>1. /\ request'[r].op = request[r].op /\ request'[r].at # "provider"
        /\ request'[r].kind = request[r].kind /\ request'[r].todo = request[r].todo
        /\ \A q \in Requests \ {r} : request'[q] = request[q]
        /\ UNCHANGED <<credits, credited, lost, together, generations>>
    BY ProviderAnswersFields DEF ProviderAnswers, creditVars, historyVars, Generating
  <1>2. /\ Left(r, "charge")' = Left(r, "charge")
        /\ PriceLeft(r, "charge")' = PriceLeft(r, "charge")
        /\ PriceLeft(r, "save")' = PriceLeft(r, "save")
    BY <1>1 DEF Left, PriceLeft
  <1>3. /\ Bought' = Bought /\ Worth' = Worth /\ Bought \in Int /\ Worth \in Int /\ credits \in Int
        /\ PriceLeft(r, "charge") \in Int /\ PriceLeft(r, "save") \in Int
    BY <1>1, SumsKept, BalanceTypes DEF TypeOK
  <1> QED BY <1>1, <1>2, <1>3, BalanceStep

\* A call that is done has nothing left, and the other call has what it had.
LEMMA CallDonePrice ==
  ASSUME TypeOK, NEW r \in Requests, NEW call \in {"save", "charge"}, CallDone(r, call)
  PROVE  /\ request[r].kind \in Kinds /\ Cost[request[r].kind] \in Nat
         /\ Cost[request[r].kind] <= Dearest
         /\ request'[r].at # "provider" /\ \A q \in Requests \ {r} : request'[q] = request[q]
         /\ Left(r, call) /\ ~Left(r, call)'
         /\ PriceLeft(r, call) = Cost[request[r].kind] /\ PriceLeft(r, call)' = 0
         /\ \A other \in {"save", "charge"} \ {call} :
              /\ Left(r, other)' <=> Left(r, other)
              /\ PriceLeft(r, other)' = PriceLeft(r, other)
  <1>1. /\ request[r] \in Generating /\ call \in request[r].todo
        /\ \A q \in Requests \ {r} : request'[q] = request[q]
        /\ \/ request'[r] = Idle /\ request[r].todo = {call}
           \/ /\ request'[r] \in Generating /\ request'[r].at = "save"
              /\ request'[r].kind = request[r].kind
              /\ request'[r].todo = request[r].todo \ {call}
    BY CallDoneFields
  <1>2. request[r].kind \in Kinds /\ request[r].op = "generate"
    BY <1>1 DEF Generating
  <1>3. Left(r, call) /\ PriceLeft(r, call) = Cost[request[r].kind]
    BY <1>1, <1>2 DEF Left, PriceLeft
  <1>4. CASE request'[r] = Idle /\ request[r].todo = {call}
    <2>1. request'[r].op # "generate" /\ request'[r].at # "provider"
      BY <1>4 DEF Idle
    <2> QED BY <1>1, <1>2, <1>3, <1>4, <2>1, DearestIsMax DEF Left, PriceLeft
  <1>5. CASE /\ request'[r] \in Generating /\ request'[r].at = "save"
             /\ request'[r].kind = request[r].kind
             /\ request'[r].todo = request[r].todo \ {call}
    <2>1. request'[r].op = "generate"
      BY <1>5 DEF Generating
    <2> QED BY <1>1, <1>2, <1>3, <1>5, <2>1, DearestIsMax DEF Left, PriceLeft
  <1> QED BY <1>1, <1>4, <1>5

\* A document is saved: what was to be saved is worth as much.
LEMMA SaveBalance ==
  ASSUME TypeOK, TypeOK', BalanceInv, NEW r \in Requests, SaveGeneration(r)
  PROVE  BalanceInv'
  <1> DEFINE c == Cost[request[r].kind]
  <1>1. /\ CallDone(r, "save") /\ UNCHANGED <<credits, credited, lost, together>>
        /\ generations' = [generations EXCEPT ![request[r].kind] = generations[request[r].kind] + 1]
    BY DEF SaveGeneration, creditVars, historyVars
  <1>2. /\ request[r].kind \in Kinds /\ c \in Nat
        /\ request'[r].at # "provider" /\ \A q \in Requests \ {r} : request'[q] = request[q]
        /\ PriceLeft(r, "save") = c /\ PriceLeft(r, "save")' = 0
        /\ Left(r, "charge")' <=> Left(r, "charge")
        /\ PriceLeft(r, "charge")' = PriceLeft(r, "charge")
    BY <1>1, CallDonePrice
  <1>3. Worth' = Worth + c
    BY <1>1, <1>2, WorthGrows
  <1>4. /\ Bought' = Bought /\ Bought \in Int /\ Worth \in Int /\ credits \in Int
        /\ PriceLeft(r, "charge") \in Int
    BY <1>1, SumsKept, BalanceTypes DEF TypeOK
  <1> HIDE DEF c
  <1>5. /\ Bought' \in Int /\ Worth' \in Int
        /\ Bought' - credits' + PriceLeft(r, "charge")' - Worth' - PriceLeft(r, "save")'
             = Bought - credits + PriceLeft(r, "charge") - Worth - PriceLeft(r, "save") + 0
    BY <1>1, <1>2, <1>3, <1>4
  <1>6. /\ Left(r, "charge")' => Left(r, "charge")
        /\ credits' - PriceLeft(r, "charge")' >= credits - PriceLeft(r, "charge")
    BY <1>1, <1>2, <1>4
  <1> QED BY <1>1, <1>2, <1>5, <1>6, BalanceStep

\* The balance is charged what was to be charged.
LEMMA ChargeBalance ==
  ASSUME TypeOK, TypeOK', BalanceInv, NEW r \in Requests, Charge(r)
  PROVE  BalanceInv'
  <1> DEFINE c == Cost[request[r].kind]
  <1>1. /\ CallDone(r, "charge") /\ UNCHANGED <<credited, lost, together, generations>>
        /\ credits' = credits - c
    BY DEF Charge, historyVars
  <1>2. /\ c \in Nat
        /\ request'[r].at # "provider" /\ \A q \in Requests \ {r} : request'[q] = request[q]
        /\ ~Left(r, "charge")'
        /\ PriceLeft(r, "charge") = c /\ PriceLeft(r, "charge")' = 0
        /\ PriceLeft(r, "save")' = PriceLeft(r, "save")
    BY <1>1, CallDonePrice
  <1>3. /\ Bought' = Bought /\ Worth' = Worth /\ Bought \in Int /\ Worth \in Int /\ credits \in Int
        /\ PriceLeft(r, "save") \in Int
    BY <1>1, SumsKept, BalanceTypes DEF TypeOK
  <1> HIDE DEF c
  <1> QED BY <1>1, <1>2, <1>3, BalanceStep

\* A call that fails leaves the two sides a price further apart at most.
LEMMA CallFailsBalance ==
  ASSUME TypeOK, TypeOK', BalanceInv, NEW r \in Requests, NEW call \in {"save", "charge"},
         CallFails(r, call)
  PROVE  BalanceInv'
  <1> DEFINE c == Cost[request[r].kind]
  <1>1. /\ CallDone(r, call) /\ UNCHANGED <<credits, credited, together, generations>>
        /\ lost' = lost + 1
    BY DEF CallFails, creditVars
  <1>2. /\ c \in Nat /\ c <= Dearest /\ Dearest \in Nat
        /\ request'[r].at # "provider" /\ \A q \in Requests \ {r} : request'[q] = request[q]
        /\ PriceLeft(r, call) = c /\ PriceLeft(r, call)' = 0 /\ ~Left(r, call)'
    BY <1>1, CallDonePrice, DearestIsMax
  <1>3. /\ Bought' = Bought /\ Worth' = Worth /\ Bought \in Int /\ Worth \in Int /\ credits \in Int
        /\ PriceLeft(r, "save") \in Int /\ PriceLeft(r, "charge") \in Int
    BY <1>1, SumsKept, BalanceTypes DEF TypeOK
  <1>4. CASE call = "save"
    <2>1. /\ Left(r, "charge")' <=> Left(r, "charge")
          /\ PriceLeft(r, "charge")' = PriceLeft(r, "charge")
      BY <1>1, <1>4, CallDonePrice
    <2> HIDE DEF c
    <2>2. c \in Int /\ c <= Dearest /\ -c <= Dearest
      BY <1>2
    <2> QED BY <1>1, <1>2, <1>3, <1>4, <2>1, <2>2, BalanceStep
  <1>5. CASE call = "charge"
    <2>1. PriceLeft(r, "save")' = PriceLeft(r, "save")
      BY <1>1, <1>5, CallDonePrice
    <2> HIDE DEF c
    <2>2. -c \in Int /\ -c <= Dearest /\ -(-c) <= Dearest
      BY <1>2
    <2> QED BY <1>1, <1>2, <1>3, <1>5, <2>1, <2>2, BalanceStep
  <1> QED BY <1>4, <1>5

\* A request that is not generating, before or after its step, has nothing left to do.
LEMMA NothingLeft ==
  ASSUME NEW r \in Requests, NEW call
  PROVE  /\ request[r].op # "generate" => ~Left(r, call) /\ PriceLeft(r, call) = 0
         /\ request'[r].op # "generate" => ~Left(r, call)' /\ PriceLeft(r, call)' = 0
  BY DEF Left, PriceLeft

\* A notification changes the balance only by what is bought.
LEMMA NotificationBalance ==
  ASSUME TypeOK, TypeOK', BalanceInv, NEW r \in Requests,
         \/ \E p \in Payments, paid \in BOOLEAN : ReceiveWebhook(r, p, paid)
         \/ UpdatePayment(r) \/ CreditCustomer(r) \/ Commit(r)
  PROVE  BalanceInv'
  <1>1. UNCHANGED <<generations, lost, together>>
    BY DEF ReceiveWebhook, UpdatePayment, CreditCustomer, Commit, historyVars
  <1>2. /\ request[r].op # "generate"
        /\ request'[r].op # "generate" /\ request'[r].at # "provider"
        /\ \A q \in Requests \ {r} : request'[q] = request[q]
    <2>1. ASSUME NEW p \in Payments, NEW paid \in BOOLEAN, ReceiveWebhook(r, p, paid)
          PROVE  <1>2!1 /\ <1>2!2 /\ <1>2!3
      <3> DEFINE rec == [op |-> "processWebhook", at |-> "payment", payment |-> p, paid |-> paid]
      <3>1. Start(r, rec) /\ rec \in Notified
        BY <2>1 DEF ReceiveWebhook, Notified
      <3> QED BY <3>1, Starts DEF Idle
    <2>2. CASE UpdatePayment(r) \/ CreditCustomer(r) \/ Commit(r)
      <3>1. request[r] \in Notified /\ request[r].op # "generate"
        BY <2>2, RequestTypes DEF UpdatePayment, CreditCustomer, Commit, Notified
      <3>2. Finish(r) \/ \E at \in {"credit", "commit"} : Goto(r, at)
        BY <2>2 DEF UpdatePayment, CreditCustomer, Commit
      <3>3. ASSUME NEW at \in {"credit", "commit"}, Goto(r, at) PROVE <1>2!2 /\ <1>2!3
        BY <3>1, <3>3, GoesOn
      <3>4. CASE Finish(r)
        <4>1. request'[r] = Idle /\ \A q \in Requests \ {r} : request'[q] = request[q]
          BY <3>4, Ends
        <4> QED BY <3>1, <4>1 DEF Idle
      <3> QED BY <3>1, <3>2, <3>3, <3>4
    <2> QED BY <2>1, <2>2
  <1>3. /\ PriceLeft(r, "charge") = 0 /\ PriceLeft(r, "save") = 0
        /\ PriceLeft(r, "charge")' = 0 /\ PriceLeft(r, "save")' = 0
        /\ ~Left(r, "charge")'
    BY <1>2, NothingLeft
  <1>4. Worth' = Worth /\ Worth \in Int /\ Bought \in Int /\ credits \in Int
    BY <1>1, SumsKept, BalanceTypes DEF TypeOK
  <1>5. \E plan \in Nat : Bought' = Bought + plan /\ credits' = credits + plan
    <2>1. CASE CreditCustomer(r)
      <3> DEFINE p == request[r].payment
      <3>1. /\ p \in Payments /\ credited' = [credited EXCEPT ![p] = credited[p] + 1]
            /\ credits' = credits + PlanCredits[p]
        BY <2>1, RequestTypes DEF CreditCustomer, Notified
      <3> QED BY <3>1, BoughtGrows, AiCreditsAssumption
    <2>2. CASE ~CreditCustomer(r)
      <3>1. UNCHANGED <<credits, credited>>
        BY <2>2 DEF ReceiveWebhook, UpdatePayment, Commit, creditVars
      <3> QED BY <1>4, <3>1, SumsKept
    <2> QED BY <2>1, <2>2
  <1> QED BY <1>1, <1>2, <1>3, <1>4, <1>5, BalanceStep

\* A request that fails before its two calls has neither saved nor charged.
LEMMA FailBalance ==
  ASSUME TypeOK, TypeOK', BalanceInv, NEW r \in Requests, Fail(r)
  PROVE  BalanceInv'
  <1>1. /\ UNCHANGED <<credits, credited, generations, lost, together>>
        /\ request'[r] = Idle /\ \A q \in Requests \ {r} : request'[q] = request[q]
        /\ request[r] \in Generating => request[r].todo = {"save", "charge"}
    BY Ends DEF Fail, creditVars, historyVars, Generating, BalanceInv
  <1>2. PriceLeft(r, "charge") = PriceLeft(r, "save")
    <2>1. request[r].op = "generate" => request[r].todo = {"save", "charge"}
      BY <1>1, RequestTypes
    <2> QED BY <2>1 DEF PriceLeft, Left
  <1>3. /\ request'[r].at # "provider" /\ ~Left(r, "charge")'
        /\ PriceLeft(r, "charge")' = 0 /\ PriceLeft(r, "save")' = 0
    <2>1. request'[r].op # "generate" /\ request'[r].at # "provider"
      BY <1>1 DEF Idle
    <2> QED BY <2>1, NothingLeft
  <1>4. /\ Bought' = Bought /\ Worth' = Worth /\ Bought \in Int /\ Worth \in Int /\ credits \in Int
        /\ PriceLeft(r, "charge") \in Nat
    BY <1>1, SumsKept, BalanceTypes DEF TypeOK
  <1> QED BY <1>1, <1>2, <1>3, <1>4, BalanceStep

\* Nothing was bought, generated or charged.
LEMMA BalanceInit == Init => BalanceInv
  <1> SUFFICES ASSUME Init PROVE BalanceInv
    OBVIOUS
  <1>1. TypeOK
    BY CreditsInitInv DEF CreditsInv
  <1>2. \A r \in Requests : request[r].at # "provider" /\ ~Left(r, "charge") /\ ~Left(r, "save")
    BY DEF Init, Left, Idle
  <1> DEFINE b == [p \in Payments |-> credited[p] * PlanCredits[p]]
             w == [k \in Kinds |-> generations[k] * Cost[k]]
             pc == [r \in Requests |-> PriceLeft(r, "charge")]
             ps == [r \in Requests |-> PriceLeft(r, "save")]
  <1>3. \A p \in Payments : b[p] = 0
    BY AiCreditsAssumption DEF Init
  <1>4. \A k \in Kinds : w[k] = 0
    BY DearestIsMax DEF Init
  <1>5. \A r \in Requests : pc[r] = 0 /\ ps[r] = 0
    BY <1>2 DEF PriceLeft
  <1>6. DOMAIN b = Payments /\ DOMAIN w = Kinds /\ DOMAIN pc = Requests /\ DOMAIN ps = Requests
    OBVIOUS
  <1> HIDE DEF b, w, pc, ps
  <1>7. SumFunction(b) = 0 /\ SumFunction(w) = 0 /\ SumFunction(pc) = 0 /\ SumFunction(ps) = 0
    BY <1>3, <1>4, <1>5, <1>6, SumZero, AiCreditsAssumption
  <1>8. Bought = 0 /\ Worth = 0 /\ Pending("charge") = 0 /\ Pending("save") = 0
    BY <1>7 DEF Bought, Worth, Pending, b, w, pc, ps
  <1>9. credits = DefaultCredits /\ DefaultCredits \in Nat /\ lost = 0 /\ together = 0 /\ Dearest \in Nat
    BY DearestIsMax, AiCreditsAssumption DEF Init
  <1>10. BalanceIsAccounted
    <2>1. Spent = 0 /\ Generated = 0 /\ lost * Dearest = 0
      BY <1>8, <1>9 DEF Spent, Generated, Worth
    <2> QED BY <2>1 DEF BalanceIsAccounted
  <1>11. Cardinality(Unpaid) = 0
    <2>1. Unpaid = {}
      BY <1>2 DEF Unpaid
    <2> QED BY <2>1, FS_EmptySet
  <1> QED BY <1>2, <1>8, <1>9, <1>10, <1>11 DEF BalanceInv

\* Every step keeps the balance accounted for.
LEMMA BalanceNext ==
  ASSUME CreditsInv, CreditsInv', BalanceInv, [Next]_vars
  PROVE  BalanceInv'
  <1>1. TypeOK /\ TypeOK'
    BY DEF CreditsInv
  <1>2. CASE UNCHANGED vars \/ \E p \in Payments : CreatePayment(p)
    <2>1. UNCHANGED <<request, credits, credited, generations, lost, together>>
      BY <1>2 DEF vars, creditVars, historyVars, CreatePayment
    <2> QED BY <2>1 DEF BalanceInv, BalanceIsAccounted, Spent, Generated, Bought, Pending,
                        PriceLeft, Left, Unpaid, Dearest
  <1> QED BY <1>1, <1>2, GenerateBalance, ProviderAnswersBalance, SaveBalance, ChargeBalance,
             CallFailsBalance, NotificationBalance, FailBalance DEF Next

\* BalanceInv always holds.
LEMMA BalanceInvariant == Spec => []BalanceInv
  <1>1. Init => BalanceInv
    BY BalanceInit
  <1>2. CreditsInv /\ CreditsInv' /\ BalanceInv /\ [Next]_vars => BalanceInv'
    BY BalanceNext
  <1> QED BY <1>1, <1>2, CreditsInvariant, PTL DEF Spec

\* For any number of generations and notifications at once, what was bought and not
\* spent is what the generations saved are worth, but for a price for each of the two calls
\* of a Promise.all that failed.
THEOREM CreditsAreAccounted == Spec => []BalanceIsAccounted
  <1>1. BalanceInv => BalanceIsAccounted
    BY DEF BalanceInv
  <1> QED BY <1>1, BalanceInvariant, PTL

\* Generations that pass the check on the same balance overdraw it by no more than all
\* but one of them cost; so those that come one at a time do not overdraw it.
THEOREM OverdraftsAreBounded == Spec => []OverdraftIsBounded
  <1>1. CreditsInv /\ BalanceInv => OverdraftIsBounded
    <2> SUFFICES ASSUME TypeOK, BalanceInv, credits < 0
                 PROVE  -credits <= (together - 1) * Dearest
      BY DEF CreditsInv, OverdraftIsBounded
    <2>1. Pending("charge") \in Nat /\ credits \in Int /\ (together - 1) * Dearest \in Int
      BY BalanceTypes, DearestIsMax DEF TypeOK
    <2>2. \/ Pending("charge") - credits <= 0
          \/ Pending("charge") - credits <= (together - 1) * Dearest
      BY DEF BalanceInv
    <2> QED BY <2>1, <2>2
  <1> QED BY <1>1, CreditsInvariant, BalanceInvariant, PTL
-----------------------------------------------------------------------------
(* The strategy field. *)

Busy(r) == request[r].at # "idle"

\* What a request that is under way carries, up to the payment it will store.
RequestOK(r) ==
  Busy(r) =>
    /\ request[r].code <= begun
    /\ \A p \in payments : p.code # request[r].code
    /\ \A l \in links : l[1] # request[r].code
    /\ \A q \in Requests \ {r} : Busy(q) => request[q].code # request[r].code
    /\ request[r].type = "AI" => request[r].method = "PAY_OS"
    /\ request[r].at = "created" => request[r].method # "MOMO"
    /\ ~crossed =>
         /\ request[r].at = "created" => strategy = "payos"
         /\ request[r].at = "queried" => request[r].asked = "payos"
         /\ request[r].at = "answered" /\ request[r].method # "MOMO" => request[r].orderCode = TRUE

RoutingPaymentOK(p) ==
  /\ p.code <= begun
  /\ p.type = "AI" => p.method = "PAY_OS"
  /\ ~crossed /\ p.method # "MOMO" => p.orderCode = TRUE

LinkOK(l) ==
  /\ l[1] <= begun
  /\ \E p \in payments : p.code = l[1]
  /\ \A p \in payments : p.code = l[1] => l[2] = ProviderFor(p.method)

RoutingInv ==
  /\ RoutingTypeOK
  /\ \A r \in Requests : RequestOK(r)
  /\ \A p \in payments : RoutingPaymentOK(p)
  /\ \A l \in links : LinkOK(l)
  /\ CallsFollowTheirChoice
  /\ FirstNotificationFinds

\* What is known of a request that is under way.
LEMMA BusyTypes ==
  ASSUME RoutingTypeOK, NEW r \in Requests, Busy(r)
  PROVE  request[r] \in [at : {"begun", "created", "queried", "answered"}, method : Methods,
                         type : Types, code : Codes,
                           asked : Providers \cup {None}, orderCode : BOOLEAN]
  BY DEF RoutingTypeOK, RequestRecord, Busy, NotPaying

\* Nothing has happened yet.
LEMMA RoutingInitInv ==
  ASSUME RoutingInit
  PROVE  RoutingInv
  <1>1. RoutingTypeOK
    <2>1. request \in [Requests -> RequestRecord]
      BY DEF RoutingInit, RequestRecord
    <2>2. begun \in 0..MaxPayments
      BY RoutingAssumption DEF RoutingInit
    <2> QED BY <2>1, <2>2 DEF RoutingInit, RoutingTypeOK
  <1>2. \A r \in Requests : ~Busy(r)
    BY DEF RoutingInit, Busy, NotPaying
  <1>3. payments = {} /\ links = {} /\ calls = {} /\ missed = {}
    BY DEF RoutingInit
  <1> QED BY <1>1, <1>2, <1>3
       DEF RoutingInv, RequestOK, CallsFollowTheirChoice, FirstNotificationFinds

\* The provider of a method is one of the two.
LEMMA ProviderTypes ==
  \A method \in Methods : ProviderFor(method) \in Providers
  BY DEF ProviderFor, Methods, Providers

\* A request that goes on without storing anything keeps the invariant, if it keeps its
\* code, method and type and what it has learnt by then is right.
LEMMA RoutingGoesOn ==
  ASSUME RoutingInv, NEW r \in Requests, RoutingTypeOK',
         UNCHANGED <<payments, begun, links>>, Busy(r),
         \A q \in Requests \ {r} : request'[q] = request[q],
         Busy(r)', request'[r].code = request[r].code, request'[r].type = request[r].type,
         request'[r].method = request[r].method,
         request'[r].at = "created" => request[r].method # "MOMO",
         crossed => crossed',
         ~crossed' => \A q \in Requests : request'[q].at = "created" => strategy' = "payos",
         ~crossed' /\ request'[r].at = "queried" => request'[r].asked = "payos",
         ~crossed' /\ request'[r].at = "answered" /\ request'[r].method # "MOMO" =>
           request'[r].orderCode = TRUE,
         CallsFollowTheirChoice', FirstNotificationFinds'
  PROVE  RoutingInv'
  <1>1. \A q \in Requests : Busy(q)' <=> Busy(q)
    BY DEF Busy
  <1>2. \A q \in Requests : request'[q].code = request[q].code
    OBVIOUS
  <1>3. ASSUME NEW q \in Requests PROVE RequestOK(q)'
    BY <1>1, <1>2 DEF RoutingInv, RequestOK
  <1>4. \A p \in payments : RoutingPaymentOK(p)'
    BY DEF RoutingInv, RoutingPaymentOK
  <1>5. \A l \in links : LinkOK(l)'
    BY DEF RoutingInv, LinkOK
  <1> QED BY <1>3, <1>4, <1>5 DEF RoutingInv

\* The field is set by r, or by a notification.
LEMMA SetStrategyKeeps ==
  ASSUME RoutingInv, NEW provider \in Providers, SetStrategy(provider)
  PROVE  /\ strategy' \in Providers /\ crossed' \in BOOLEAN
         /\ strategy' = provider
         /\ crossed => crossed'
         /\ ~crossed' => \A q \in Requests : request[q].at = "created" => strategy' = "payos"
  BY DEF RoutingInv, RoutingTypeOK, SetStrategy

\* A request draws a code that nothing has.
LEMMA BeginStep ==
  ASSUME RoutingInv, NEW r \in Requests,
         NEW method \in Methods, NEW type \in Types,
         BeginPayment(r, method, type)
  PROVE  RoutingInv'
  <1> DEFINE req == [at |-> "begun", method |-> method, type |-> type, code |-> begun + 1,
                     asked |-> None, orderCode |-> FALSE]
  <1>t. RoutingTypeOK
    BY DEF RoutingInv
  <1>1. /\ begun < MaxPayments /\ begun' = begun + 1
        /\ request' = [request EXCEPT ![r] = req]
        /\ type = "AI" => method = "PAY_OS"
        /\ UNCHANGED <<strategy, payments, links, notified, missed, calls, crossed>>
    BY DEF BeginPayment
  <1>2. req \in RequestRecord /\ begun \in Nat /\ begun' \in 0..MaxPayments
    BY <1>1, <1>t, RoutingAssumption
         DEF RequestRecord, Codes, RoutingTypeOK
  <1>3. /\ req.at = "begun" /\ req.code = begun + 1 /\ req.type = type /\ req.method = method
    OBVIOUS
  <1> HIDE DEF req
  <1>4. RoutingTypeOK'
    BY <1>1, <1>2, <1>t DEF RoutingTypeOK
  <1>5. request'[r] = req /\ \A q \in Requests \ {r} : request'[q] = request[q]
          /\ (Busy(q)' <=> Busy(q))
    BY <1>1, <1>t DEF RoutingTypeOK, Busy
  <1>6. /\ \A q \in Requests : Busy(q) => request[q].code \in Nat /\ request[q].code <= begun
        /\ \A p \in payments : p.code \in Nat /\ p.code <= begun
        /\ \A l \in links : l[1] \in Nat /\ l[1] <= begun
    BY <1>t, BusyTypes DEF RoutingInv, RequestOK, RoutingPaymentOK, LinkOK,
         RoutingTypeOK, PaymentRecord, Codes
  <1>7. RequestOK(r)'
    BY <1>1, <1>2, <1>3, <1>5, <1>6 DEF RequestOK
  <1>8. ASSUME NEW q \in Requests \ {r} PROVE RequestOK(q)'
    BY <1>1, <1>2, <1>3, <1>5, <1>6 DEF RoutingInv, RequestOK
  <1>9. \A p \in payments' : RoutingPaymentOK(p)'
    BY <1>1, <1>2, <1>6 DEF RoutingInv, RoutingPaymentOK
  <1>10. \A l \in links' : LinkOK(l)'
    BY <1>1, <1>2, <1>6 DEF RoutingInv, LinkOK
  <1>11. CallsFollowTheirChoice' /\ FirstNotificationFinds'
    BY <1>1 DEF RoutingInv, CallsFollowTheirChoice, FirstNotificationFinds
  <1> QED BY <1>4, <1>7, <1>8, <1>9, <1>10, <1>11 DEF RoutingInv

\* The provider that is called is the one the field was just set to.
LEMMA CreateStep ==
  ASSUME RoutingInv, NEW r \in Requests, CreateTransaction(r)
  PROVE  RoutingInv'
  <1> DEFINE req == request[r]
             next == [req EXCEPT !.asked = strategy',
                                 !.at = IF req.method = "MOMO" THEN "answered" ELSE "created"]
  <1>t. RoutingTypeOK
    BY DEF RoutingInv
  <1>1. /\ req.at = "begun" /\ SetStrategy(ProviderFor(req.method))
        /\ calls' = calls \cup {<<req.method, strategy'>>}
        /\ request' = [request EXCEPT ![r] = next]
        /\ UNCHANGED <<payments, begun, links, notified, missed>>
    BY DEF CreateTransaction
  <1>2. Busy(r) /\ req.method \in Methods
    BY <1>1, <1>t, BusyTypes DEF Busy
  <1>3. /\ strategy' \in Providers /\ crossed' \in BOOLEAN
             /\ strategy' = ProviderFor(req.method)
        /\ crossed => crossed'
        /\ ~crossed' => \A q \in Requests : request[q].at = "created" => strategy' = "payos"
    BY <1>1, <1>2, ProviderTypes, SetStrategyKeeps
  <1>4. /\ next \in RequestRecord /\ next.code = req.code /\ next.type = req.type
        /\ next.method = req.method
        /\ next.at = IF req.method = "MOMO" THEN "answered" ELSE "created"
    BY <1>2, <1>3, <1>t, BusyTypes DEF RequestRecord
  <1> HIDE DEF next
  <1>5. request'[r] = next /\ \A q \in Requests \ {r} : request'[q] = request[q]
    BY <1>1, <1>t DEF RoutingTypeOK
  <1>6. RoutingTypeOK'
    BY <1>1, <1>2, <1>3, <1>4, <1>t DEF RoutingTypeOK
  <1>7. CallsFollowTheirChoice' /\ FirstNotificationFinds'
    BY <1>1, <1>3 DEF RoutingInv, CallsFollowTheirChoice, FirstNotificationFinds
  <1>8. ~crossed' => \A q \in Requests : request'[q].at = "created" => strategy' = "payos"
    BY <1>3, <1>4, <1>5 DEF ProviderFor
  <1> QED BY <1>1, <1>2, <1>3, <1>4, <1>5, <1>6, <1>7, <1>8, RoutingGoesOn DEF Busy

\* The query and its answer.
LEMMA QueryStep ==
  ASSUME RoutingInv, NEW r \in Requests, GetTransaction(r) \/ QueryAnswered(r)
  PROVE  RoutingInv'
  <1>t. RoutingTypeOK
    BY DEF RoutingInv
  <1>0. Busy(r)
    BY DEF GetTransaction, QueryAnswered, Busy
  <1>1. request[r] \in [at : {"begun", "created", "queried", "answered"}, method : Methods,
                        type : Types, code : Codes,
                          asked : Providers \cup {None}, orderCode : BOOLEAN]
    BY <1>0, <1>t, BusyTypes
  <1>2. PICK next \in RequestRecord :
          /\ request' = [request EXCEPT ![r] = next]
          /\ next.code = request[r].code /\ next.type = request[r].type
               /\ next.method = request[r].method
          /\ next.at \in {"queried", "answered"}
          /\ ~crossed /\ next.at = "queried" => next.asked = "payos"
          /\ ~crossed /\ next.at = "answered" => next.orderCode = TRUE
    <2>1. CASE GetTransaction(r)
      <3> DEFINE next == [request[r] EXCEPT !.at = "queried", !.asked = strategy]
      <3>1. strategy \in Providers \cup {None} /\ request' = [request EXCEPT ![r] = next]
            /\ (~crossed => strategy = "payos")
        BY <2>1, <1>0, <1>t DEF GetTransaction, RoutingTypeOK, RoutingInv, RequestOK
      <3>2. /\ next \in RequestRecord /\ next.at = "queried" /\ next.asked = strategy
            /\ next.code = request[r].code /\ next.type = request[r].type
                 /\ next.method = request[r].method
        BY <1>1, <3>1 DEF RequestRecord
      <3> QED BY <3>1, <3>2
    <2>2. CASE QueryAnswered(r)
      <3>1. PICK answer \in QueryAnswers(request[r].asked) :
              request' = [request EXCEPT ![r]
                = [request[r] EXCEPT !.at = "answered", !.orderCode = answer.orderCode]]
        BY <2>2 DEF QueryAnswered
      <3> DEFINE next == [request[r] EXCEPT !.at = "answered", !.orderCode = answer.orderCode]
      <3>2. answer.orderCode \in BOOLEAN /\ (request[r].asked = "payos" => answer.orderCode = TRUE)
        <4>1. ASSUME request[r].asked = "payos" PROVE answer = [ok |-> TRUE, orderCode |-> TRUE]
          BY <4>1 DEF QueryAnswers
        <4>2. ASSUME request[r].asked # "payos"
              PROVE  answer \in {[ok |-> TRUE, orderCode |-> FALSE],
                     [ok |-> FALSE, orderCode |-> FALSE]}
          BY <4>2 DEF QueryAnswers
        <4>3. [ok |-> TRUE, orderCode |-> TRUE].orderCode = TRUE
          OBVIOUS
        <4>4. \A b \in BOOLEAN : [ok |-> b, orderCode |-> FALSE].orderCode = FALSE
          OBVIOUS
        <4> QED BY <4>1, <4>2, <4>3, <4>4
      <3>3. /\ next \in RequestRecord /\ next.at = "answered"
                 /\ next.orderCode = answer.orderCode
            /\ next.code = request[r].code /\ next.type = request[r].type
                 /\ next.method = request[r].method
        BY <1>1, <3>2 DEF RequestRecord
      <3>4. ~crossed => request[r].asked = "payos"
        BY <2>2, <1>0 DEF QueryAnswered, RoutingInv, RequestOK
      <3> QED BY <3>1, <3>2, <3>3, <3>4
    <2> QED BY <2>1, <2>2
  <1>3. UNCHANGED <<strategy, payments, begun, links, notified, missed, calls, crossed>>
    BY DEF GetTransaction, QueryAnswered
  <1>4. request'[r] = next /\ \A q \in Requests \ {r} : request'[q] = request[q]
    BY <1>2, <1>t DEF RoutingTypeOK
  <1>5. RoutingTypeOK'
    BY <1>2, <1>3, <1>t DEF RoutingTypeOK
  <1>6. ~crossed' => \A q \in Requests : request'[q].at = "created" => strategy' = "payos"
    BY <1>2, <1>3, <1>4 DEF RoutingInv, RequestOK, Busy
  <1>7. CallsFollowTheirChoice' /\ FirstNotificationFinds'
    BY <1>3 DEF RoutingInv, CallsFollowTheirChoice, FirstNotificationFinds
  <1> QED BY <1>0, <1>2, <1>3, <1>4, <1>5, <1>6, <1>7, RoutingGoesOn DEF Busy

\* The code of the request becomes that of a payment and of its link.
LEMMA StoreStep ==
  ASSUME RoutingInv, NEW r \in Requests, StorePayment(r)
  PROVE  RoutingInv'
  <1> DEFINE req == request[r]
             new == [code |-> req.code, method |-> req.method, type |-> req.type,
               orderCode |-> req.orderCode]
             link == <<req.code, ProviderFor(req.method)>>
  <1>t. RoutingTypeOK
    BY DEF RoutingInv
  <1>1. /\ req.at = "answered" /\ payments' = payments \cup {new} /\ links' = links \cup {link}
        /\ request' = [request EXCEPT ![r] = NotPaying]
        /\ UNCHANGED <<strategy, begun, notified, missed, calls, crossed>>
    BY DEF StorePayment
  <1>2. /\ Busy(r) /\ new \in PaymentRecord /\ link \in Codes \X Providers
        /\ new.code = req.code /\ new.method = req.method /\ new.type = req.type
        /\ new.orderCode = req.orderCode /\ link[1] = req.code
             /\ link[2] = ProviderFor(req.method)
    BY <1>1, <1>t, BusyTypes, ProviderTypes DEF Busy, PaymentRecord
  <1> HIDE DEF new, link
  <1>3. request'[r] = NotPaying /\ \A q \in Requests \ {r} : request'[q] = request[q]
          /\ (Busy(q)' <=> Busy(q))
    BY <1>1, <1>t DEF RoutingTypeOK, Busy
  <1>4. request' \in [Requests -> RequestRecord]
    BY <1>1, <1>t DEF RoutingTypeOK, RequestRecord
  <1>5. RoutingTypeOK'
    BY <1>1, <1>2, <1>4, <1>t DEF RoutingTypeOK
  <1>6. ~Busy(r)'
    BY <1>3 DEF Busy, NotPaying
  <1>7. ASSUME NEW q \in Requests \ {r} PROVE RequestOK(q)'
    <2>1. RequestOK(q) /\ RequestOK(r)
      BY DEF RoutingInv
    <2> QED BY <2>1, <1>1, <1>2, <1>3, <1>6 DEF RequestOK
  <1>8. ASSUME NEW p \in payments' PROVE RoutingPaymentOK(p)'
    <2>1. CASE p \in payments
      BY <2>1, <1>1 DEF RoutingInv, RoutingPaymentOK
    <2>2. CASE p = new
      BY <2>2, <1>1, <1>2 DEF RoutingInv, RequestOK, RoutingPaymentOK
    <2> QED BY <2>1, <2>2, <1>1
  <1>9. ASSUME NEW l \in links' PROVE LinkOK(l)'
    <2>0. RequestOK(r)
      BY DEF RoutingInv
    <2>1. CASE l \in links
      <3>1. l[1] # req.code
        BY <2>0, <2>1, <1>2 DEF RequestOK
      <3> QED BY <2>1, <3>1, <1>1, <1>2 DEF RoutingInv, LinkOK
    <2>2. CASE l = link
      <3>1. \A p \in payments : p.code # req.code
        BY <2>0, <1>2 DEF RequestOK
      <3> QED BY <2>0, <2>2, <3>1, <1>1, <1>2 DEF LinkOK, RequestOK
    <2> QED BY <2>1, <2>2, <1>1
  <1>10. CallsFollowTheirChoice' /\ FirstNotificationFinds'
    BY <1>1 DEF RoutingInv, CallsFollowTheirChoice, FirstNotificationFinds
  <1>11. RequestOK(r)'
    BY <1>6 DEF RequestOK
  <1> QED BY <1>5, <1>7, <1>8, <1>9, <1>10, <1>11 DEF RoutingInv

\* A request that fails leaves its code unused.
LEMMA FailStep ==
  ASSUME RoutingInv, NEW r \in Requests, PaymentFails(r)
  PROVE  RoutingInv'
  <1>t. RoutingTypeOK
    BY DEF RoutingInv
  <1>1. /\ request' = [request EXCEPT ![r] = NotPaying]
        /\ UNCHANGED <<strategy, payments, begun, links, notified, missed, calls, crossed>>
    BY DEF PaymentFails
  <1>2. RoutingTypeOK'
    BY <1>1, <1>t DEF RoutingTypeOK, RequestRecord
  <1>3. request'[r] = NotPaying /\ \A q \in Requests \ {r} : request'[q] = request[q]
          /\ (Busy(q)' <=> Busy(q))
    BY <1>1, <1>t DEF RoutingTypeOK, Busy
  <1>4. ~Busy(r)'
    BY <1>3 DEF Busy, NotPaying
  <1>5. \A q \in Requests : RequestOK(q)'
    BY <1>1, <1>3, <1>4 DEF RoutingInv, RequestOK
  <1>6. (\A p \in payments' : RoutingPaymentOK(p)') /\ (\A l \in links' : LinkOK(l)')
    BY <1>1 DEF RoutingInv, RoutingPaymentOK, LinkOK
  <1>7. CallsFollowTheirChoice' /\ FirstNotificationFinds'
    BY <1>1 DEF RoutingInv, CallsFollowTheirChoice, FirstNotificationFinds
  <1> QED BY <1>2, <1>5, <1>6, <1>7 DEF RoutingInv

\* Setting the field does not concern what is stored.
LEMMA FieldStep ==
  ASSUME RoutingInv, NEW provider \in Providers, SetStrategy(provider),
         UNCHANGED <<payments, request, begun, links>>,
         RoutingTypeOK', CallsFollowTheirChoice', FirstNotificationFinds'
  PROVE  RoutingInv'
  <1>1. /\ crossed => crossed'
        /\ ~crossed' => \A q \in Requests : request[q].at = "created" => strategy' = "payos"
    BY SetStrategyKeeps
  <1>2. \A q \in Requests : RequestOK(q)'
    BY <1>1 DEF RoutingInv, RequestOK, Busy
  <1>3. (\A p \in payments' : RoutingPaymentOK(p)') /\ (\A l \in links' : LinkOK(l)')
    BY <1>1 DEF RoutingInv, RoutingPaymentOK, LinkOK
  <1> QED BY <1>2, <1>3 DEF RoutingInv

\* A notification comes from the provider its payment was created at, and finds it.
LEMMA WebhookStep ==
  ASSUME RoutingInv, NEW code \in Codes, NEW provider \in Providers,
         FirstWebhook(code, provider)
  PROVE  RoutingInv'
  <1>t. RoutingTypeOK
    BY DEF RoutingInv
  <1>1. /\ <<code, provider>> \in links /\ SetStrategy(provider)
        /\ notified' = notified \cup {code}
        /\ calls' = calls \cup {<<p.method, strategy'>> : p \in {q \in payments : q.code = code}}
        /\ missed' = IF Finds(strategy', code) THEN missed ELSE missed \cup {code}
        /\ UNCHANGED <<payments, request, begun, links>>
    BY DEF FirstWebhook
  <1>2. strategy' = provider /\ strategy' \in Providers /\ crossed' \in BOOLEAN
          /\ (crossed => crossed')
    BY <1>1, SetStrategyKeeps
  <1>3. PICK p \in payments : p.code = code
    BY <1>1 DEF RoutingInv, LinkOK
  <1>4. \A q \in payments : q.code = code => provider = ProviderFor(q.method)
          /\ q.method \in Methods
    BY <1>1, <1>t DEF RoutingInv, LinkOK, RoutingTypeOK, PaymentRecord
  <1>5. ~crossed => Finds(provider, code)
    <2>1. CASE p.method = "MOMO"
      BY <2>1, <1>3, <1>4, <1>t
         DEF RoutingInv, RoutingPaymentOK, Finds, ProviderFor,
           RoutingTypeOK, PaymentRecord, Types
    <2>2. CASE p.method # "MOMO"
      BY <2>2, <1>3, <1>4 DEF RoutingInv, RoutingPaymentOK, Finds, ProviderFor
    <2> QED BY <2>1, <2>2
  <1>6. RoutingTypeOK'
    BY <1>1, <1>2, <1>4, <1>t DEF RoutingTypeOK
  <1>7. CallsFollowTheirChoice'
    BY <1>1, <1>2, <1>4 DEF RoutingInv, CallsFollowTheirChoice
  <1>8. FirstNotificationFinds'
    BY <1>1, <1>2, <1>5 DEF RoutingInv, FirstNotificationFinds
  <1> QED BY <1>1, <1>6, <1>7, <1>8, FieldStep

\* A refused notification sets the field all the same.
LEMMA RefuseStep ==
  ASSUME RoutingInv, NEW provider \in Providers, RefuseWebhook(provider)
  PROVE  RoutingInv'
  <1>1. SetStrategy(provider)
          /\ UNCHANGED <<payments, request, begun, links, notified, missed, calls>>
    BY DEF RefuseWebhook
  <1>2. strategy' \in Providers /\ crossed' \in BOOLEAN /\ (crossed => crossed')
    BY <1>1, SetStrategyKeeps
  <1>3. RoutingTypeOK' /\ CallsFollowTheirChoice' /\ FirstNotificationFinds'
    BY <1>1, <1>2 DEF RoutingInv, RoutingTypeOK, CallsFollowTheirChoice,
         FirstNotificationFinds
  <1> QED BY <1>1, <1>3, FieldStep

\* Each step keeps the invariant.
LEMMA RoutingStep ==
  ASSUME RoutingInv, [RoutingNext]_routingVars
  PROVE  RoutingInv'
  <1>1. CASE UNCHANGED routingVars
    BY <1>1 DEF routingVars, RoutingInv, RoutingTypeOK, RequestOK, Busy,
         RoutingPaymentOK, LinkOK,
       CallsFollowTheirChoice, FirstNotificationFinds
  <1>2. CASE RoutingNext
    BY <1>2, BeginStep, CreateStep, QueryStep, StoreStep, FailStep, WebhookStep, RefuseStep
         DEF RoutingNext
  <1> QED BY <1>1, <1>2

\* The invariant holds throughout.
LEMMA RoutingInvariant == RoutingSpec => []RoutingInv
  <1>1. RoutingInit => RoutingInv
    BY RoutingInitInv
  <1>2. RoutingInv /\ [RoutingNext]_routingVars => RoutingInv'
    BY RoutingStep
  <1> QED BY <1>1, <1>2, PTL DEF RoutingSpec

\* The variables keep their types.
THEOREM RoutingTypeCorrect == RoutingSpec => []RoutingTypeOK
  <1>1. RoutingInv => RoutingTypeOK
    BY DEF RoutingInv
  <1> QED BY <1>1, RoutingInvariant, PTL

\* However many requests share the strategy field, a payment is created at and
\* notified by the provider of its method.
THEOREM CallsReachTheirProvider == RoutingSpec => []CallsFollowTheirChoice
  <1>1. RoutingInv => CallsFollowTheirChoice
    BY DEF RoutingInv
  <1> QED BY <1>1, RoutingInvariant, PTL

\* As long as the field is not switched under a request that waits to query PayOS, the
\* first notification of every checkout finds its payment.
THEOREM NotificationsFindTheirPayment == RoutingSpec => []FirstNotificationFinds
  <1>1. RoutingInv => FirstNotificationFinds
    BY DEF RoutingInv
  <1> QED BY <1>1, RoutingInvariant, PTL
=============================================================================
