----------------------------- MODULE AiCredits -----------------------------
(***************************************************************************)
(* The AI credits of one customer: bought through                          *)
(* AIGenerationPricingService.createPayment and a PayOS notification       *)
(* (processWebhook, processWebhookAI), spent by generateTextToImage and    *)
(* generateTextToDraftModel.                                               *)
(*                                                                         *)
(* Only the payment is written in the session of the notification; every   *)
(* change of credits is a $inc outside any session.                        *)
(***************************************************************************)
EXTENDS Integers, FiniteSets, Functions, MongoSession

CONSTANTS Payments,        \* payments of type AI, each for one plan
          PlanCredits,     \* AIPricingPlanCredits of the plan paid for
          Kinds,           \* TEXT_TO_IMAGE, TEXT_TO_MODEL
          Cost,            \* AIGenerationPricing
          DefaultCredits,
          MaxDeliveries,   \* bound: notifications processed in a behaviour
          MaxFailures      \* bound: calls that fail in a behaviour

ASSUME AiCreditsAssumption ==
  /\ IsFiniteSet(Requests) /\ IsFiniteSet(Payments) /\ IsFiniteSet(Kinds)
  /\ Kinds # {}
  /\ PlanCredits \in [Payments -> Nat]
  /\ Cost \in [Kinds -> Nat \ {0}]
  /\ {DefaultCredits, MaxDeliveries, MaxFailures} \subseteq Nat

VARIABLES credits, payment,
          generations,  \* AIGeneration documents of each type
          deliveries, failures,
          credited,     \* history: how often a payment was turned into credits
          lost,         \* history: calls that failed after the provider had answered
          together      \* history: most generations that were to be charged at once

creditVars == <<credits, credited>>
historyVars == <<lost, together>>
vars == <<creditVars, historyVars, payment, generations, request, deliveries, failures, sessionVars>>

NoPayment == [transactionStatus |-> "NONE", located |-> FALSE]
Idle == [op |-> "none", at |-> "idle"]
Documents == {"payment"} \X Payments

Init ==
  /\ credits = DefaultCredits
  /\ payment = [p \in Payments |-> NoPayment]
  /\ generations = [k \in Kinds |-> 0]
  /\ request = [r \in Requests |-> Idle]
  /\ deliveries = 0 /\ failures = 0
  /\ credited = [p \in Payments |-> 0]
  /\ lost = 0 /\ together = 0
  /\ SessionInit

Start(r, rec) ==
  /\ request[r] = Idle
  /\ request' = [request EXCEPT ![r] = rec]
Goto(r, label) == request' = [request EXCEPT ![r].at = label]
Finish(r) == request' = [request EXCEPT ![r] = Idle]
-----------------------------------------------------------------------------
\* generateTextToImage and generateTextToDraftModel, which differ in the cost.

\* Mutant: any credit will do.
SomeCredits(kind) == credits > 0

EnoughCredits(kind) == credits >= Cost[kind]

\* The generations under way that still have to do call, and the price of what r has.
Left(r, call) == request[r].op = "generate" /\ call \in request[r].todo
Unpaid == {r \in Requests : Left(r, "charge")}
PriceLeft(r, call) == IF Left(r, call) THEN Cost[request[r].kind] ELSE 0

Generate(r, kind) ==
  /\ EnoughCredits(kind)                 \* else NOT_ENOUGH_CREDITS_ERROR
  /\ Start(r, [op |-> "generate", at |-> "provider", kind |-> kind, todo |-> {"save", "charge"}])
  /\ together' = IF Cardinality(Unpaid) < together THEN together ELSE Cardinality(Unpaid) + 1
  /\ UNCHANGED <<creditVars, lost, payment, generations, deliveries, failures, sessionVars>>

\* The provider, an external service, has produced the image or the model.
ProviderAnswers(r) ==
  /\ request[r].at = "provider"
  /\ Goto(r, "save")
  /\ UNCHANGED <<creditVars, historyVars, payment, generations, deliveries, failures, sessionVars>>

\* Promise.all of the two calls: they run in either order, and a failure of one
\* does not stop the other.
CallDone(r, call) ==
  /\ request[r].at = "save"
  /\ call \in request[r].todo
  /\ request' = [request EXCEPT ![r] =
       IF request[r].todo = {call} THEN Idle
       ELSE [request[r] EXCEPT !.todo = request[r].todo \ {call}]]

\* The document's cost is what the provider takes (20, or what it reports), not the
\* price in credits, and nothing reads it: the documents are only counted.
SaveGeneration(r) ==
  /\ CallDone(r, "save")
  /\ generations' = [generations EXCEPT ![request[r].kind] = @ + 1]
  /\ UNCHANGED <<creditVars, historyVars, payment, deliveries, failures, sessionVars>>

Charge(r) ==
  /\ CallDone(r, "charge")
  /\ credits' = credits - Cost[request[r].kind]
  /\ UNCHANGED <<credited, historyVars, payment, generations, deliveries, failures, sessionVars>>

CallFails(r, call) ==
  /\ failures < MaxFailures
  /\ failures' = failures + 1
  /\ lost' = lost + 1
  /\ CallDone(r, call)
  /\ UNCHANGED <<creditVars, together, payment, generations, deliveries, sessionVars>>
-----------------------------------------------------------------------------
\* createPayment: the payment is inserted, without a session, once PayOS has
\* answered; the answer holds the orderCode.
CreatePayment(p) ==
  /\ payment[p] = NoPayment
  /\ payment' = [payment EXCEPT ![p] = [transactionStatus |-> "DRAFT", located |-> TRUE]]
  /\ UNCHANGED <<creditVars, historyVars, generations, request, deliveries, failures, sessionVars>>

\* processWebhook.  A payment that is not found is answered with true.
ReceiveWebhook(r, p, paid) ==
  /\ deliveries < MaxDeliveries
  /\ deliveries' = deliveries + 1
  /\ payment[p].located
  /\ Start(r, [op |-> "processWebhook", at |-> "payment", payment |-> p, paid |-> paid])
  /\ UNCHANGED <<creditVars, historyVars, payment, generations, failures, sessionVars>>

\* Mutants: the payment found by the first query is written, whatever has become
\* of it; the credits are forgotten.
UpdateById(r) ==
  /\ request[r].at = "payment"
  /\ LET doc == <<"payment", request[r].payment>>
         next == IF request[r].paid THEN "credit" ELSE "commit"
     IN \/ SessionWrite(r, doc) /\ Goto(r, next)
        \/ WriteConflict(r, doc) /\ AbortTransaction(r) /\ Finish(r)
  /\ UNCHANGED <<creditVars, historyVars, payment, generations, deliveries, failures>>

UpdatePaymentOnly(r) ==
  /\ request[r].at = "payment"
  /\ LET p == request[r].payment
         doc == <<"payment", p>>
     IN \/ payment[p].located /\ SessionWrite(r, doc) /\ Goto(r, "commit")
        \/ ~payment[p].located /\ Goto(r, "commit") /\ UNCHANGED sessionVars
        \/ payment[p].located /\ WriteConflict(r, doc) /\ AbortTransaction(r) /\ Finish(r)
  /\ UNCHANGED <<creditVars, historyVars, payment, generations, deliveries, failures>>

\* The payment is matched again by its orderCode, which a notification of failure
\* has removed in the meantime or not; nothing looks at the outcome.
UpdatePayment(r) ==
  /\ request[r].at = "payment"
  /\ LET p == request[r].payment
         doc == <<"payment", p>>
         next == IF request[r].paid THEN "credit" ELSE "commit"
     IN \/ payment[p].located /\ SessionWrite(r, doc) /\ Goto(r, next)
        \/ ~payment[p].located /\ Goto(r, next) /\ UNCHANGED sessionVars
        \/ payment[p].located /\ WriteConflict(r, doc) /\ AbortTransaction(r) /\ Finish(r)
  /\ UNCHANGED <<creditVars, historyVars, payment, generations, deliveries, failures>>

\* Mutant: $set in place of $inc.
SetCredits(r) ==
  /\ request[r].at = "credit"
  /\ LET p == request[r].payment
     IN /\ credits' = PlanCredits[p]
        /\ credited' = [credited EXCEPT ![p] = @ + 1]
  /\ Goto(r, "commit")
  /\ UNCHANGED <<historyVars, payment, generations, deliveries, failures, sessionVars>>

CreditCustomer(r) ==
  /\ request[r].at = "credit"
  /\ LET p == request[r].payment
     IN /\ credits' = credits + PlanCredits[p]
        /\ credited' = [credited EXCEPT ![p] = @ + 1]
  /\ Goto(r, "commit")
  /\ UNCHANGED <<historyVars, payment, generations, deliveries, failures, sessionVars>>

\* Mutant: the status of a canceled order.
SettledCanceled(paid) ==
  [transactionStatus |-> IF paid THEN "CAPTURED" ELSE "CANCELED", located |-> paid]

\* The transaction stored on success is PayOS's own, with an orderCode; on failure
\* it is the notification, which has none.
Settled(paid) ==
  [transactionStatus |-> IF paid THEN "CAPTURED" ELSE "ERROR", located |-> paid]

Commit(r) ==
  /\ request[r].at = "commit"
  /\ payment' = [p \in Payments |->
       IF <<"payment", p>> \in held[r] THEN Settled(request[r].paid) ELSE payment[p]]
  /\ CommitTransaction(r)
  /\ Finish(r)
  /\ UNCHANGED <<creditVars, historyVars, generations, deliveries, failures>>

\* A failing await before Promise.all, or anywhere in a notification.
Fail(r) ==
  /\ request[r].at \in {"provider", "payment", "credit", "commit"}
  /\ failures < MaxFailures
  /\ failures' = failures + 1
  /\ AbortTransaction(r)
  /\ Finish(r)
  /\ UNCHANGED <<creditVars, historyVars, payment, generations, deliveries>>
-----------------------------------------------------------------------------
Next ==
  \/ \E r \in Requests :
       \/ \E kind \in Kinds : Generate(r, kind)
       \/ ProviderAnswers(r) \/ SaveGeneration(r) \/ Charge(r)
       \/ \E call \in {"save", "charge"} : CallFails(r, call)
       \/ \E p \in Payments, paid \in BOOLEAN : ReceiveWebhook(r, p, paid)
       \/ UpdatePayment(r) \/ CreditCustomer(r) \/ Commit(r) \/ Fail(r)
  \/ \E p \in Payments : CreatePayment(p)

Spec == Init /\ [][Next]_vars
-----------------------------------------------------------------------------
\* Properties.

TypeOK ==
  /\ credits \in Int
  /\ payment \in [Payments -> [transactionStatus : {"NONE", "DRAFT", "CAPTURED", "ERROR"},
                               located : BOOLEAN]]
  /\ generations \in [Kinds -> Nat]
  /\ credited \in [Payments -> Nat]
  /\ lost \in Nat /\ together \in Nat
  /\ request \in [Requests ->
       {Idle} \cup [op : {"generate"}, at : {"provider", "save"}, kind : Kinds,
                    todo : (SUBSET {"save", "charge"}) \ {{}}]
              \cup [op : {"processWebhook"}, at : {"payment", "credit", "commit"},
                    payment : Payments, paid : BOOLEAN]]
  /\ deliveries \in 0..MaxDeliveries /\ failures \in 0..MaxFailures
  /\ SessionTypeOK(Documents)

\* A payment is CAPTURED only after its plan was credited, although the credits
\* are written outside the transaction that captures it.
CapturedIsCredited ==
  \A p \in Payments : payment[p].transactionStatus = "CAPTURED" => credited[p] > 0

\* A payment that has failed stays failed, whatever notifications arrive later or
\* were already under way.
FailedIsFinal ==
  [][\A p \in Payments : payment[p].transactionStatus = "ERROR" => payment'[p] = payment[p]]_vars

\* The price of the dearest generation.
Dearest == CHOOSE c \in {Cost[k] : k \in Kinds} : \A k \in Kinds : Cost[k] <= c

\* What was bought and not spent, by the balance and what is to be charged; and what
\* was generated, by the documents and what is to be saved; all in credits.
Bought == SumFunction([p \in Payments |-> credited[p] * PlanCredits[p]])
Pending(call) == SumFunction([r \in Requests |-> PriceLeft(r, call)])
Spent == DefaultCredits + Bought - credits + Pending("charge")
Generated == SumFunction([k \in Kinds |-> generations[k] * Cost[k]]) + Pending("save")

\* "Save GenAI data, update credits" are two calls, of which one may fail alone, for
\* any number of generations and notifications at once: each call that fails makes
\* the balance and the documents differ by at most the price of one generation,
\* and nothing else makes them differ.
BalanceIsAccounted ==
  /\ Spent - Generated <= lost * Dearest
  /\ Generated - Spent <= lost * Dearest

\* The balance is checked before the provider is called and charged after: it goes
\* below the schema's min: 0 (customer.schema.ts:81), but never by more than the price of
\* all but one of the generations that were to be charged at once.  So for a
\* customer whose generations come one at a time it stays at 0 or above.
OverdraftIsBounded == credits < 0 => -credits <= (together - 1) * Dearest
=============================================================================
