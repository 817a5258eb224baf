------------------------------- MODULE Review -------------------------------
(***************************************************************************)
(* ReviewService.createReview: a review is inserted, the product's rating  *)
(* is computed from the reviews there are, and the review is linked from   *)
(* the order item.  What it relies on (the order with its items, whether   *)
(* there is a review already) is read before the session is opened, and    *)
(* the aggregate is not given the session: it sees committed reviews only. *)
(*                                                                         *)
(* Products are not deleted here, and an order has one item per product    *)
(* (of several, createReview would always take the first).                 *)
(***************************************************************************)
EXTENDS Integers, FiniteSets, MongoSession

CONSTANTS Orders,         \* orders of one customer
          Products,       \* each order has one item of each
          Rates,
          NoReview,       \* an order item without a review
          MaxReviews      \* bound: reviews inserted in a behaviour

ASSUME ReviewAssumption ==
  /\ Rates \subseteq 1..5
  /\ MaxReviews \in Nat
  /\ NoReview \notin 0..MaxReviews

VARIABLES reviews,        \* committed review documents
          ratingCount,    \* product.ratingCount; product.rate is its average
          link,           \* order.items[].review
          inserted,       \* used up of MaxReviews; numbers the review documents
          overlapped      \* history: two requests have been in flight at once

documentVars == <<reviews, ratingCount, link>>
vars == <<documentVars, inserted, request, overlapped, sessionVars>>

Items == Orders \X Products
Documents == ({"order"} \X Orders) \cup ({"product"} \X Products) \cup ({"review"} \X (1..MaxReviews))
NoCounts == [n \in Rates |-> 0]
Idle == [at |-> "idle"]

Of(product) == {v \in reviews : v.item[2] = product}

\* The aggregate: how many of the reviews have each rate.
Counts(of) == [n \in Rates |-> Cardinality({v \in of : v.rate = n})]

Init ==
  /\ reviews = {}
  /\ ratingCount = [p \in Products |-> NoCounts]
  /\ link = [i \in Items |-> NoReview]
  /\ inserted = 0
  /\ overlapped = FALSE
  /\ request = [r \in Requests |-> Idle]
  /\ SessionInit

Goto(r, label) == request' = [request EXCEPT ![r].at = label]
Finish(r) == request' = [request EXCEPT ![r] = Idle]

\* The order is read with its items; its status is not looked at.
ReadOrder(r, i, rate) ==
  /\ request[r] = Idle
  /\ request' = [request EXCEPT ![r] =
       [at |-> "findReview", item |-> i, rate |-> rate, id |-> 0, counts |-> NoCounts,
        links |-> [p \in Products |-> link[<<i[1], p>>]]]]
  /\ overlapped' = (overlapped \/ \E q \in Requests \ {r} : request[q] # Idle)
  /\ UNCHANGED <<documentVars, inserted, sessionVars>>

\* Mutant: a review that is found is not held against the new one.
FindAnyReview(r) ==
  /\ request[r].at = "findReview"
  /\ Goto(r, "create")
  /\ UNCHANGED <<documentVars, overlapped, inserted, sessionVars>>

FindReview(r) ==
  /\ request[r].at = "findReview"
  /\ \/ (\E v \in reviews : v.item = request[r].item) /\ Finish(r)  \* REVIEW_ALREADY_EXIST
     \/ (\A v \in reviews : v.item # request[r].item) /\ Goto(r, "create")
  /\ UNCHANGED <<documentVars, overlapped, inserted, sessionVars>>

\* The session's first call.
CreateReview(r) ==
  /\ request[r].at = "create"
  /\ inserted < MaxReviews
  /\ inserted' = inserted + 1
  /\ SessionWrite(r, <<"review", inserted'>>)
  /\ request' = [request EXCEPT ![r].at = "aggregate", ![r].id = inserted']
  /\ UNCHANGED <<documentVars, overlapped>>

Aggregate(r) ==
  /\ request[r].at = "aggregate"
  /\ LET of == Of(request[r].item[2])
     IN request' = [request EXCEPT ![r].counts = Counts(of),
                                   ![r].at = IF of = {} THEN "order" ELSE "product"]
  /\ UNCHANGED <<documentVars, overlapped, inserted, sessionVars>>

WriteOrThrow(r, doc, next) ==
  /\ \/ SessionWrite(r, doc) /\ Goto(r, next)
     \/ WriteConflict(r, doc) /\ AbortTransaction(r) /\ Finish(r)
  /\ UNCHANGED <<documentVars, overlapped, inserted>>

\* Mutant: the new review counted, and the product written without the session.
UpdateProductDirectly(r) ==
  LET req == request[r]
  IN /\ req.at = "product"
     /\ ratingCount' = [ratingCount EXCEPT ![req.item[2]] = [req.counts EXCEPT ![req.rate] = @ + 1]]
     /\ Goto(r, "order")
     /\ UNCHANGED <<reviews, link, overlapped, inserted, sessionVars>>

UpdateProduct(r) ==
  /\ request[r].at = "product"
  /\ WriteOrThrow(r, <<"product", request[r].item[2]>>, "order")

UpdateOrder(r) ==
  /\ request[r].at = "order"
  /\ WriteOrThrow(r, <<"order", request[r].item[1]>>, "commit")

\* Mutants: the items are stored without the new review; with its rate.
CommitUnlinked(r) ==
  /\ request[r].at = "commit"
  /\ LET req == request[r]
     IN /\ reviews' = reviews \cup {[id |-> req.id, item |-> req.item, rate |-> req.rate]}
        /\ ratingCount' = IF <<"product", req.item[2]>> \in held[r]
                          THEN [ratingCount EXCEPT ![req.item[2]] = req.counts] ELSE ratingCount
        /\ link' = [i \in Items |-> IF i[1] = req.item[1] THEN req.links[i[2]] ELSE link[i]]
  /\ CommitTransaction(r)
  /\ Finish(r)
  /\ UNCHANGED <<overlapped, inserted>>

CommitRateAsLink(r) ==
  /\ request[r].at = "commit"
  /\ LET req == request[r]
     IN /\ reviews' = reviews \cup {[id |-> req.id, item |-> req.item, rate |-> req.rate]}
        /\ link' = [link EXCEPT ![req.item] = req.rate]
  /\ CommitTransaction(r)
  /\ Finish(r)
  /\ UNCHANGED <<ratingCount, overlapped, inserted>>

\* The order's items are stored as they were read, with one review set.
CommitReview(r) ==
  /\ request[r].at = "commit"
  /\ LET req == request[r]
         product == req.item[2]
     IN /\ reviews' = reviews \cup {[id |-> req.id, item |-> req.item, rate |-> req.rate]}
        /\ ratingCount' = IF <<"product", product>> \in held[r]
                          THEN [ratingCount EXCEPT ![product] = req.counts] ELSE ratingCount
        /\ link' = [i \in Items |->
             IF i = req.item THEN req.id
             ELSE IF i[1] = req.item[1] THEN req.links[i[2]] ELSE link[i]]
  /\ CommitTransaction(r)
  /\ Finish(r)
  /\ UNCHANGED <<overlapped, inserted>>

\* A failing await.
Fail(r) ==
  /\ request[r] # Idle
  /\ AbortTransaction(r)
  /\ Finish(r)
  /\ UNCHANGED <<documentVars, overlapped, inserted>>

Next ==
  \E r \in Requests :
    \/ \E i \in Items, rate \in Rates : ReadOrder(r, i, rate)
    \/ FindReview(r) \/ CreateReview(r) \/ Aggregate(r)
    \/ UpdateProduct(r) \/ UpdateOrder(r) \/ CommitReview(r) \/ Fail(r)

Spec == Init /\ [][Next]_vars
-----------------------------------------------------------------------------
\* Properties.

Ids == 0..MaxReviews

TypeOK ==
  /\ reviews \subseteq [id : Ids, item : Items, rate : Rates]
  /\ ratingCount \in [Products -> [Rates -> Nat]]
  /\ link \in [Items -> Ids \cup {NoReview}]
  /\ overlapped \in BOOLEAN
  /\ inserted \in Ids
  /\ request \in [Requests -> {Idle} \cup
       [at : {"findReview", "create", "aggregate", "product", "order", "commit"},
        item : Items, rate : Rates, id : Ids, counts : [Rates -> Nat],
        links : [Products -> Ids \cup {NoReview}]]]
  /\ SessionTypeOK(Documents)

\* Whatever races or aborts, a product's rating counts no review that was not
\* committed.
RatingCountsReviews ==
  \A p \in Products, n \in Rates : ratingCount[p][n] <= Counts(Of(p))[n]

\* As long as requests came one at a time, an order item is reviewed once ("Check
\* already review", review.service.ts:86).
OneReviewPerItem == ~overlapped => \A v, w \in reviews : v.item = w.item => v = w

\* A link from an order item leads to a committed review of that item, whatever races;
\* as long as requests came one at a time, every review is linked ("Save reviewId to
\* orderItem", review.service.ts:146): no link is lost to a review of another item.
LinksMatchReviews ==
  /\ \A i \in Items : link[i] # NoReview => \E v \in reviews : v.id = link[i] /\ v.item = i
  /\ ~overlapped => \A v \in reviews : link[v.item] # NoReview
=============================================================================
