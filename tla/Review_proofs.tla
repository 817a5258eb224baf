---------------------------- MODULE Review_proofs ----------------------------
(***************************************************************************)
(* Theorems about Review, for any number of requests, orders, products and *)
(* reviews.  Committed reviews are never taken back, so what a request has *)
(* read of them (the links, the counts) stays true of the reviews there    *)
(* are, however long it keeps it; what it has not seen is another matter,  *)
(* and needs the requests to come one at a time.                           *)
(***************************************************************************)
EXTENDS Review, SharedLemmas, FiniteSetTheorems

Reviewing == [at : {"findReview", "create", "aggregate", "product", "order", "commit"},
              item : Items, rate : Rates, id : Ids, counts : [Rates -> Nat],
              links : [Products -> Ids \cup {NoReview}]]

\* The item i may be linked to id.
Backed(i, id) == id # NoReview => \E v \in reviews : v.id = id /\ v.item = i

\* What a request holds has been read from reviews that are committed.
ReadsCommitted(r) ==
  request[r] # Idle =>
    /\ \A p \in Products : Backed(<<request[r].item[1], p>>, request[r].links[p])
    /\ \A n \in Rates : request[r].counts[n] <= Counts(Of(request[r].item[2]))[n]

\* A request on its own still finds what it has read.
OneAtATime ==
  /\ \A r, q \in Requests : r # q => request[r] = Idle \/ request[q] = Idle
  /\ \A r \in Requests : request[r] # Idle =>
       /\ \A p \in Products : request[r].links[p] = link[<<request[r].item[1], p>>]
       /\ request[r].at # "findReview" => \A v \in reviews : v.item # request[r].item

ReviewInv ==
  /\ TypeOK
  /\ SessionsIsolated
  /\ IsFiniteSet(reviews)
  /\ \A r \in Requests : ReadsCommitted(r)
  /\ RatingCountsReviews
  /\ \A i \in Items : Backed(i, link[i])
  /\ OneReviewPerItem
  /\ LinksMatchReviews
  /\ ~overlapped => OneAtATime

\* What a request looks like while it is handled.
LEMMA RequestFields ==
  ASSUME TypeOK, NEW r \in Requests
  PROVE  /\ request[r] # Idle => request[r] \in Reviewing
         /\ request[r].at # "idle" => request[r] # Idle
         /\ Idle.at = "idle" /\ Idle \notin Reviewing
  <1>1. Idle.at = "idle"
    BY DEF Idle
  <1>2. Idle \notin Reviewing
    BY <1>1 DEF Reviewing
  <1>3. request[r] \in {Idle} \cup Reviewing
    BY DEF TypeOK, Reviewing
  <1> QED BY <1>1, <1>2, <1>3

\* More reviews are not counted as fewer.
LEMMA CountsGrow ==
  ASSUME NEW S, IsFiniteSet(S), NEW T \in SUBSET S, NEW n \in Rates
  PROVE  Counts(T)[n] \in Nat /\ Counts(S)[n] \in Nat /\ Counts(T)[n] <= Counts(S)[n]
  <1> DEFINE SN == {v \in S : v.rate = n}
             TN == {v \in T : v.rate = n}
  <1>1. Counts(S)[n] = Cardinality(SN) /\ Counts(T)[n] = Cardinality(TN)
    BY DEF Counts
  <1>2. SN \in SUBSET S /\ TN \in SUBSET SN
    OBVIOUS
  <1>3. IsFiniteSet(SN)
    BY <1>2, FS_Subset
  <1>4. IsFiniteSet(TN) /\ Cardinality(TN) <= Cardinality(SN)
    BY <1>2, <1>3, FS_Subset
  <1>5. Cardinality(SN) \in Nat /\ Cardinality(TN) \in Nat
    BY <1>3, <1>4, FS_CardinalityType
  <1> QED BY <1>1, <1>4, <1>5

\* Nothing has been reviewed.
LEMMA ReviewInitInv == Init => ReviewInv
  <1> SUFFICES ASSUME Init PROVE ReviewInv
    OBVIOUS
  <1>1. SessionTypeOK(Documents) /\ SessionsIsolated
    BY SessionInitIsolated DEF Init
  <1>2. NoCounts \in [Rates -> Nat] /\ 0 \in Ids
    BY ReviewAssumption DEF NoCounts, Ids
  <1>3. TypeOK
    BY <1>1, <1>2 DEF Init, TypeOK
  <1>4. IsFiniteSet(reviews)
    BY FS_EmptySet DEF Init
  <1>5. RatingCountsReviews
    <2> SUFFICES ASSUME NEW p \in Products, NEW n \in Rates
                 PROVE  ratingCount[p][n] <= Counts(Of(p))[n]
      BY DEF RatingCountsReviews
    <2>1. ratingCount[p][n] = 0
      BY DEF Init, NoCounts
    <2>2. Of(p) \in SUBSET reviews
      BY DEF Of
    <2>3. Counts(Of(p))[n] \in Nat
      BY <1>4, <2>2, CountsGrow
    <2> QED BY <2>1, <2>3
  <1>6. \A i \in Items : Backed(i, link[i])
    BY DEF Init, Backed
  <1>7. OneReviewPerItem /\ LinksMatchReviews
    BY DEF Init, OneReviewPerItem, LinksMatchReviews
  <1>8. \A r \in Requests : request[r] = Idle
    BY DEF Init
  <1>9. (\A r \in Requests : ReadsCommitted(r)) /\ OneAtATime
    BY <1>8 DEF ReadsCommitted, OneAtATime
  <1> QED BY <1>1, <1>3, <1>4, <1>5, <1>6, <1>7, <1>9 DEF ReviewInv

\* A step of r that changes no document preserves the invariant if r ends, or goes
\* on with what it has read.
LEMMA Continues ==
  ASSUME ReviewInv, NEW r \in Requests, NEW req \in {Idle} \cup Reviewing,
         request' = [request EXCEPT ![r] = req], UNCHANGED <<documentVars, overlapped>>,
         inserted' \in Ids, SessionTypeOK(Documents)', SessionsIsolated',
         req # Idle =>
           /\ request[r] # Idle
           /\ req.item = request[r].item /\ req.links = request[r].links
           /\ \A n \in Rates : req.counts[n] <= Counts(Of(req.item[2]))[n]
           /\ ~overlapped /\ req.at # "findReview" => \A v \in reviews : v.item # req.item
  PROVE  ReviewInv'
  <1> USE DEF documentVars
  <1>1. request'[r] = req /\ \A q \in Requests \ {r} : request'[q] = request[q]
    BY DEF ReviewInv, TypeOK
  <1>2. TypeOK'
    BY DEF ReviewInv, TypeOK, Reviewing
  <1>3. \A q \in Requests : ReadsCommitted(q)'
    <2> SUFFICES ASSUME NEW q \in Requests PROVE ReadsCommitted(q)'
      OBVIOUS
    <2>1. \A i, id : Backed(i, id)' <=> Backed(i, id)
      BY DEF Backed
    <2>2. \A p : Of(p)' = Of(p)
      BY DEF Of
    <2>3. CASE q = r
      BY <1>1, <2>1, <2>2, <2>3 DEF ReviewInv, ReadsCommitted, Counts
    <2>4. CASE q # r
      BY <1>1, <2>1, <2>2, <2>4 DEF ReviewInv, ReadsCommitted, Counts
    <2> QED BY <2>3, <2>4
  <1>4. /\ IsFiniteSet(reviews)' /\ RatingCountsReviews' /\ (\A i \in Items : Backed(i, link[i]))'
        /\ OneReviewPerItem' /\ LinksMatchReviews'
    BY DEF ReviewInv, RatingCountsReviews, Of, Counts, Backed, OneReviewPerItem, LinksMatchReviews
  <1>5. ~overlapped => OneAtATime'
    BY <1>1 DEF ReviewInv, OneAtATime
  <1> QED BY <1>2, <1>3, <1>4, <1>5 DEF ReviewInv

\* Aborting keeps the sessions apart, and its request is over.
LEMMA FailInv ==
  ASSUME ReviewInv, NEW r \in Requests, AbortTransaction(r), Finish(r),
         UNCHANGED <<documentVars, overlapped, inserted>>
  PROVE  ReviewInv'
  <1>1. SessionTypeOK(Documents)' /\ SessionsIsolated'
    BY AbortIsolated DEF ReviewInv, TypeOK
  <1>2. inserted' \in Ids
    BY DEF ReviewInv, TypeOK
  <1> QED BY <1>1, <1>2, Continues DEF Finish

\* A request that starts on its own reads what there is; one that does not is noted.
LEMMA ReadOrderInv ==
  ASSUME ReviewInv, NEW r \in Requests, NEW i \in Items, NEW rate \in Rates,
         ReadOrder(r, i, rate)
  PROVE  ReviewInv'
  <1> USE DEF documentVars, sessionVars
  <1> DEFINE req == [at |-> "findReview", item |-> i, rate |-> rate, id |-> 0, counts |-> NoCounts,
                     links |-> [p \in Products |-> link[<<i[1], p>>]]]
  <1>1. i[1] \in Orders /\ i[2] \in Products /\ \A p \in Products : <<i[1], p>> \in Items
    BY DEF Items
  <1>2. req \in Reviewing
    <2>1. 0 \in Ids /\ NoCounts \in [Rates -> Nat]
      BY ReviewAssumption DEF Ids, NoCounts
    <2>2. req.links \in [Products -> Ids \cup {NoReview}]
      BY <1>1 DEF ReviewInv, TypeOK
    <2> QED BY <2>1, <2>2 DEF Reviewing
  <1>3. request'[r] = req /\ \A q \in Requests \ {r} : request'[q] = request[q]
    BY DEF ReviewInv, TypeOK, ReadOrder
  <1>4. TypeOK'
    BY <1>2 DEF ReviewInv, TypeOK, ReadOrder, Reviewing, SessionTypeOK
  <1>5. /\ \A j, id : Backed(j, id)' <=> Backed(j, id)
        /\ \A p : Of(p)' = Of(p)
    BY DEF Backed, Of, ReadOrder
  <1>6. \A q \in Requests : ReadsCommitted(q)'
    <2> SUFFICES ASSUME NEW q \in Requests PROVE ReadsCommitted(q)'
      OBVIOUS
    <2>1. CASE q = r
      <3>1. \A p \in Products : Backed(<<i[1], p>>, req.links[p])
        BY <1>1 DEF ReviewInv
      <3>2. \A n \in Rates : req.counts[n] <= Counts(Of(i[2]))[n]
        <4> SUFFICES ASSUME NEW n \in Rates PROVE 0 <= Counts(Of(i[2]))[n]
          BY DEF NoCounts
        <4>1. Of(i[2]) \in SUBSET reviews
          BY DEF Of
        <4>2. Counts(Of(i[2]))[n] \in Nat
          BY <4>1, CountsGrow DEF ReviewInv
        <4> QED BY <4>2
      <3>3. req.item = i
        OBVIOUS
      <3> HIDE DEF req
      <3> QED BY <1>3, <1>5, <2>1, <3>1, <3>2, <3>3 DEF ReadsCommitted, Counts
    <2>2. CASE q # r
      BY <1>3, <1>5, <2>2 DEF ReviewInv, ReadsCommitted, Counts
    <2> QED BY <2>1, <2>2
  <1>7. /\ IsFiniteSet(reviews)' /\ RatingCountsReviews' /\ (\A j \in Items : Backed(j, link[j]))'
        /\ OneReviewPerItem' /\ LinksMatchReviews' /\ SessionsIsolated'
    BY DEF ReviewInv, RatingCountsReviews, Of, Counts, Backed, OneReviewPerItem, LinksMatchReviews,
           ReadOrder, SessionsIsolated
  <1>8. ~overlapped' => OneAtATime'
    <2> SUFFICES ASSUME ~overlapped' PROVE OneAtATime'
      OBVIOUS
    <2>1. \A q \in Requests \ {r} : request[q] = Idle
      BY DEF ReadOrder
    <2>2. /\ \A p \in Products : req.links[p] = link'[<<req.item[1], p>>]
          /\ req.at = "findReview"
      BY DEF ReadOrder
    <2> HIDE DEF req
    <2> QED BY <1>3, <2>1, <2>2 DEF OneAtATime
  <1> QED BY <1>4, <1>6, <1>7, <1>8 DEF ReviewInv

\* A request goes on past the review it looked for only when there is none.
LEMMA FindReviewInv ==
  ASSUME ReviewInv, NEW r \in Requests, FindReview(r)
  PROVE  ReviewInv'
  <1> USE DEF sessionVars
  <1>1. request[r] # Idle /\ request[r] \in Reviewing
    BY RequestFields DEF ReviewInv, FindReview
  <1>2. SessionTypeOK(Documents)' /\ SessionsIsolated' /\ inserted' \in Ids
    BY DEF ReviewInv, TypeOK, FindReview, SessionTypeOK, SessionsIsolated
  <1>3. CASE Finish(r)
    BY <1>2, <1>3, Continues DEF FindReview, Finish
  <1>4. CASE Goto(r, "create") /\ \A v \in reviews : v.item # request[r].item
    <2> DEFINE req == [request[r] EXCEPT !.at = "create"]
    <2>1. request' = [request EXCEPT ![r] = req]
      BY <1>4 DEF Goto
    <2>2. /\ req \in Reviewing /\ req.item = request[r].item /\ req.links = request[r].links
          /\ req.counts = request[r].counts
      BY <1>1 DEF Reviewing
    <2>3. \A n \in Rates : req.counts[n] <= Counts(Of(req.item[2]))[n]
      BY <1>1, <2>2 DEF ReviewInv, ReadsCommitted
    <2> HIDE DEF req
    <2> QED BY <1>1, <1>2, <1>4, <2>1, <2>2, <2>3, Continues DEF FindReview
  <1> QED BY <1>3, <1>4 DEF FindReview

\* What a request that goes on past the look for a review may change.
LEMMA GoesOn ==
  ASSUME ReviewInv, NEW r \in Requests, NEW req \in Reviewing,
         request[r] # Idle, request[r].at # "findReview",
         request' = [request EXCEPT ![r] = req], UNCHANGED <<documentVars, overlapped>>,
         inserted' \in Ids, SessionTypeOK(Documents)', SessionsIsolated',
         req.item = request[r].item, req.links = request[r].links,
         \A n \in Rates : req.counts[n] <= Counts(Of(req.item[2]))[n]
  PROVE  ReviewInv'
  <1>1. ~overlapped => \A v \in reviews : v.item # req.item
    BY DEF ReviewInv, OneAtATime
  <1> QED BY <1>1, Continues

\* The review is inserted: the first document the session holds.
LEMMA CreateReviewInv ==
  ASSUME ReviewInv, NEW r \in Requests, CreateReview(r)
  PROVE  ReviewInv'
  <1> DEFINE req == [request[r] EXCEPT !.at = "aggregate", !.id = inserted']
  <1>1. request[r] # Idle /\ request[r] \in Reviewing
    BY RequestFields DEF ReviewInv, CreateReview
  <1>2. inserted' \in 1..MaxReviews /\ inserted' \in Ids
    BY ReviewAssumption DEF ReviewInv, TypeOK, CreateReview, Ids
  <1>3. SessionTypeOK(Documents)' /\ SessionsIsolated'
    <2>1. <<"review", inserted'>> \in Documents
      BY <1>2 DEF Documents
    <2> QED BY <2>1, SessionWriteIsolated DEF ReviewInv, TypeOK, CreateReview
  <1>4. request' = [request EXCEPT ![r] = req]
    BY DEF CreateReview
  <1>5. /\ req \in Reviewing /\ req.item = request[r].item /\ req.links = request[r].links
        /\ req.counts = request[r].counts
    BY <1>1, <1>2 DEF Reviewing
  <1>6. \A n \in Rates : req.counts[n] <= Counts(Of(req.item[2]))[n]
    BY <1>1, <1>5 DEF ReviewInv, ReadsCommitted
  <1> HIDE DEF req
  <1> QED BY <1>1, <1>2, <1>3, <1>4, <1>5, <1>6, GoesOn DEF CreateReview

\* The aggregate counts committed reviews.
LEMMA AggregateInv ==
  ASSUME ReviewInv, NEW r \in Requests, Aggregate(r)
  PROVE  ReviewInv'
  <1> USE DEF sessionVars
  <1> DEFINE counts == Counts(Of(request[r].item[2]))
             req == [request[r] EXCEPT !.counts = counts,
                                       !.at = IF Of(request[r].item[2]) = {} THEN "order" ELSE "product"]
  <1>1. request[r] # Idle /\ request[r] \in Reviewing
    BY RequestFields DEF ReviewInv, Aggregate
  <1>2. SessionTypeOK(Documents)' /\ SessionsIsolated' /\ inserted' \in Ids
    BY DEF ReviewInv, TypeOK, Aggregate, SessionTypeOK, SessionsIsolated
  <1>3. counts \in [Rates -> Nat]
    <2>1. Of(request[r].item[2]) \in SUBSET reviews
      BY DEF Of
    <2>2. \A n \in Rates : counts[n] \in Nat
      BY <2>1, CountsGrow DEF ReviewInv
    <2> QED BY <2>2 DEF Counts
  <1>4. request' = [request EXCEPT ![r] = req]
    BY DEF Aggregate
  <1> HIDE DEF counts
  <1>5. /\ req \in Reviewing /\ req.item = request[r].item /\ req.links = request[r].links
        /\ req.counts = counts
    BY <1>1, <1>3 DEF Reviewing
  <1> HIDE DEF req
  <1>6. \A n \in Rates : req.counts[n] <= Counts(Of(req.item[2]))[n]
    BY <1>3, <1>5 DEF counts
  <1> QED BY <1>1, <1>2, <1>4, <1>5, <1>6, GoesOn DEF Aggregate

\* A further session write, or the conflict that ends the request.
LEMMA WriteOrThrowInv ==
  ASSUME ReviewInv, NEW r \in Requests, NEW doc \in Documents, NEW next \in {"order", "commit"},
         request[r].at \in {"product", "order"}, WriteOrThrow(r, doc, next)
  PROVE  ReviewInv'
  <1>1. CASE AbortTransaction(r) /\ Finish(r)
    BY <1>1, FailInv DEF WriteOrThrow
  <1>2. CASE SessionWrite(r, doc) /\ Goto(r, next)
    <2> DEFINE req == [request[r] EXCEPT !.at = next]
    <2>1. request[r] # Idle /\ request[r] \in Reviewing
      BY RequestFields DEF ReviewInv
    <2>2. SessionTypeOK(Documents)' /\ SessionsIsolated'
      BY <1>2, SessionWriteIsolated DEF ReviewInv, TypeOK
    <2>3. inserted' \in Ids
      BY DEF ReviewInv, TypeOK, WriteOrThrow
    <2>4. request' = [request EXCEPT ![r] = req]
      BY <1>2 DEF Goto
    <2>5. /\ req \in Reviewing /\ req.item = request[r].item /\ req.links = request[r].links
          /\ req.counts = request[r].counts
      BY <2>1 DEF Reviewing
    <2>6. \A n \in Rates : req.counts[n] <= Counts(Of(req.item[2]))[n]
      BY <2>1, <2>5 DEF ReviewInv, ReadsCommitted
    <2> HIDE DEF req
    <2> QED BY <2>1, <2>2, <2>3, <2>4, <2>5, <2>6, GoesOn DEF WriteOrThrow
  <1> QED BY <1>1, <1>2 DEF WriteOrThrow

\* The commit adds the review, counts nothing it has not seen, and stores the order's
\* items as they were read: their links are backed by reviews that are still there.
LEMMA CommitReviewInv ==
  ASSUME ReviewInv, NEW r \in Requests, CommitReview(r)
  PROVE  ReviewInv'
  <1>1. PICK req \in Reviewing : req = request[r] /\ req # Idle /\ req.at = "commit"
    BY RequestFields DEF ReviewInv, CommitReview
  <1>2. PICK new : new = [id |-> req.id, item |-> req.item, rate |-> req.rate]
    OBVIOUS
  <1>3. /\ req.item \in Items /\ req.id \in Ids /\ req.rate \in Rates
        /\ req.item[1] \in Orders /\ req.item[2] \in Products
        /\ req.item = <<req.item[1], req.item[2]>>
        /\ \A p \in Products : <<req.item[1], p>> \in Items /\ req.links[p] \in Ids \cup {NoReview}
    BY DEF Reviewing, Items
  <1>4. /\ new.id = req.id /\ new.item = req.item /\ new \in [id : Ids, item : Items, rate : Rates]
    BY <1>2, <1>3
  <1>5. /\ reviews' = reviews \cup {new}
        /\ \A p \in Products : (p = req.item[2] /\ ratingCount'[p] = req.counts) \/ ratingCount'[p] = ratingCount[p]
        /\ ratingCount' \in [Products -> [Rates -> Nat]]
    <2>1. /\ reviews' = reviews \cup {new}
          /\ ratingCount' = IF <<"product", req.item[2]>> \in held[r]
                            THEN [ratingCount EXCEPT ![req.item[2]] = req.counts] ELSE ratingCount
      BY <1>1, <1>2 DEF CommitReview
    <2>2. ratingCount \in [Products -> [Rates -> Nat]] /\ req.counts \in [Rates -> Nat]
      BY DEF ReviewInv, TypeOK, Reviewing
    <2> QED BY <2>1, <2>2
  <1>6. /\ DOMAIN link' = Items /\ link' = [i \in Items |-> link'[i]]
        /\ link'[req.item] = req.id
        /\ \A i \in Items \ {req.item} :
             link'[i] = IF i[1] = req.item[1] THEN req.links[i[2]] ELSE link[i]
    BY <1>1, <1>3 DEF CommitReview
  <1>7. /\ request'[r] = Idle /\ \A q \in Requests \ {r} : request'[q] = request[q]
        /\ request' = [request EXCEPT ![r] = Idle]
        /\ overlapped' = overlapped /\ inserted' = inserted
    BY DEF ReviewInv, TypeOK, CommitReview, Finish
  <1>8. SessionTypeOK(Documents)' /\ SessionsIsolated'
    BY CommitIsolated DEF ReviewInv, TypeOK, CommitReview
  <1>9. IsFiniteSet(reviews') /\ reviews \in SUBSET reviews'
    BY <1>5, FS_AddElement DEF ReviewInv
  <1>10. \A i, id : Backed(i, id) => Backed(i, id)'
    BY <1>5 DEF Backed
  <1>11. \A p \in Products, n \in Rates : /\ Counts(Of(p))[n] \in Nat /\ Counts(Of(p))'[n] \in Nat
                                          /\ Counts(Of(p))[n] <= Counts(Of(p))'[n]
    <2> SUFFICES ASSUME NEW p \in Products, NEW n \in Rates
                 PROVE  /\ Counts(Of(p))[n] \in Nat /\ Counts(Of(p))'[n] \in Nat
                        /\ Counts(Of(p))[n] <= Counts(Of(p))'[n]
      OBVIOUS
    <2>1. PICK S : S = {v \in reviews' : v.item[2] = p}
      OBVIOUS
    <2>2. S \in SUBSET reviews' /\ Of(p) \in SUBSET S
      BY <1>9, <2>1 DEF Of
    <2>3. IsFiniteSet(S)
      BY <1>9, <2>2, FS_Subset
    <2>4. Counts(S)[n] \in Nat /\ Counts(Of(p))[n] \in Nat /\ Counts(Of(p))[n] <= Counts(S)[n]
      BY <2>2, <2>3, CountsGrow
    <2>5. Counts(Of(p))' = Counts(S)
      BY <2>1 DEF Counts, Of
    <2> QED BY <2>4, <2>5
  <1>12. \A i \in Items : Backed(i, link[i])'
    <2> SUFFICES ASSUME NEW i \in Items PROVE Backed(i, link[i])'
      OBVIOUS
    <2>1. CASE i = req.item
      BY <1>4, <1>5, <1>6, <2>1 DEF Backed
    <2>2. CASE i # req.item /\ i[1] = req.item[1]
      <3>1. i[2] \in Products /\ i = <<req.item[1], i[2]>>
        BY <2>2 DEF Items
      <3>2. Backed(i, req.links[i[2]])
        BY <1>1, <3>1 DEF ReviewInv, ReadsCommitted
      <3>3. link'[i] = req.links[i[2]]
        BY <1>6, <2>2
      <3> QED BY <1>10, <3>2, <3>3 DEF Backed
    <2>3. CASE i # req.item /\ i[1] # req.item[1]
      <3>1. link'[i] = link[i] /\ Backed(i, link[i])
        BY <1>6, <2>3 DEF ReviewInv
      <3> QED BY <1>10, <3>1 DEF Backed
    <2> QED BY <2>1, <2>2, <2>3
  <1>13. TypeOK'
    <2>1. reviews' \subseteq [id : Ids, item : Items, rate : Rates]
      BY <1>4, <1>5 DEF ReviewInv, TypeOK
    <2>2. link' \in [Items -> Ids \cup {NoReview}]
      <3>1. \A i \in Items : link'[i] \in Ids \cup {NoReview}
        <4> SUFFICES ASSUME NEW i \in Items PROVE link'[i] \in Ids \cup {NoReview}
          OBVIOUS
        <4>1. i[2] \in Products /\ link[i] \in Ids \cup {NoReview}
          BY DEF Items, ReviewInv, TypeOK
        <4> QED BY <1>3, <1>6, <4>1
      <3> QED BY <1>6, <3>1
    <2>3. request' \in [Requests -> {Idle} \cup Reviewing]
      BY <1>7 DEF ReviewInv, TypeOK, Reviewing
    <2> QED BY <1>5, <1>7, <1>8, <2>1, <2>2, <2>3 DEF ReviewInv, TypeOK, Reviewing
  <1>14. \A q \in Requests : ReadsCommitted(q)'
    <2> SUFFICES ASSUME NEW q \in Requests, request[q] # Idle, q # r PROVE ReadsCommitted(q)'
      BY <1>7 DEF ReadsCommitted
    <2>1. PICK req2 \in Reviewing : req2 = request[q] /\ req2 = request'[q] /\ req2.item[2] \in Products
      BY <1>7, RequestFields DEF ReviewInv, Reviewing, Items
    <2>2. \A p \in Products : Backed(<<req2.item[1], p>>, req2.links[p])
      BY <2>1 DEF ReviewInv, ReadsCommitted
    <2>3. \A n \in Rates : req2.counts[n] \in Nat /\ req2.counts[n] <= Counts(Of(req2.item[2]))[n]
      BY <2>1 DEF ReviewInv, ReadsCommitted, Reviewing
    <2>4. \A n \in Rates : req2.counts[n] <= Counts(Of(req2.item[2]))'[n]
      BY <1>11, <2>1, <2>3
    <2>5. \A p \in Products : Backed(<<req2.item[1], p>>, req2.links[p])'
      BY <1>10, <2>2
    <2> QED BY <2>1, <2>4, <2>5 DEF ReadsCommitted, Backed, Of, Counts
  <1>15. RatingCountsReviews'
    <2> SUFFICES ASSUME NEW p \in Products, NEW n \in Rates
                 PROVE  ratingCount'[p][n] <= Counts(Of(p))'[n]
      BY DEF RatingCountsReviews
    <2>1. ratingCount[p][n] \in Nat /\ ratingCount[p][n] <= Counts(Of(p))[n]
      BY DEF ReviewInv, TypeOK, RatingCountsReviews
    <2>2. p = req.item[2] => req.counts[n] \in Nat /\ req.counts[n] <= Counts(Of(p))[n]
      BY <1>1 DEF ReviewInv, ReadsCommitted, Reviewing
    <2> QED BY <1>5, <1>11, <2>1, <2>2
  <1>16. ~overlapped => \A v \in reviews : v.item # req.item
    BY <1>1 DEF ReviewInv, OneAtATime
  <1>17. OneReviewPerItem'
    BY <1>4, <1>5, <1>7, <1>16 DEF ReviewInv, OneReviewPerItem
  <1>18. LinksMatchReviews'
    <2>1. \A i \in Items : link'[i] # NoReview => \E v \in reviews' : v.id = link'[i] /\ v.item = i
      BY <1>12 DEF Backed
    <2>2. ASSUME ~overlapped, NEW v \in reviews' PROVE link'[v.item] # NoReview
      <3>1. CASE v = new
        BY <1>3, <1>4, <1>6, <3>1, ReviewAssumption DEF Ids
      <3>2. CASE v # new
        <4>1. v \in reviews /\ v.item \in Items /\ link[v.item] # NoReview /\ v.item # req.item
          BY <1>5, <1>16, <2>2, <3>2 DEF ReviewInv, TypeOK, LinksMatchReviews
        <4>2. v.item[1] = req.item[1] => req.links[v.item[2]] = link[v.item]
          <5>1. v.item[2] \in Products /\ v.item = <<v.item[1], v.item[2]>>
            BY <4>1 DEF Items
          <5>2. \A p \in Products : req.links[p] = link[<<req.item[1], p>>]
            BY <1>1, <2>2 DEF ReviewInv, OneAtATime
          <5> QED BY <5>1, <5>2
        <4> QED BY <1>6, <4>1, <4>2
      <3> QED BY <3>1, <3>2
    <2> QED BY <1>7, <2>1, <2>2 DEF LinksMatchReviews
  <1>19. ~overlapped' => OneAtATime'
    BY <1>1, <1>7 DEF ReviewInv, OneAtATime
  <1> QED BY <1>8, <1>9, <1>12, <1>13, <1>14, <1>15, <1>17, <1>18, <1>19 DEF ReviewInv

\* Every step keeps the invariant.
LEMMA ReviewNextInv == ReviewInv /\ [Next]_vars => ReviewInv'
  <1> SUFFICES ASSUME ReviewInv, [Next]_vars PROVE ReviewInv'
    OBVIOUS
  <1>1. CASE UNCHANGED vars
    <2> USE <1>1 DEF vars, documentVars, sessionVars
    <2>1. TypeOK' /\ SessionsIsolated'
      BY DEF ReviewInv, TypeOK, SessionTypeOK, SessionsIsolated
    <2>2. (\A r \in Requests : ReadsCommitted(r))' /\ (\A i \in Items : Backed(i, link[i]))'
      BY DEF ReviewInv, ReadsCommitted, Backed, Counts, Of
    <2>3. /\ IsFiniteSet(reviews)' /\ RatingCountsReviews' /\ OneReviewPerItem' /\ LinksMatchReviews'
          /\ (~overlapped => OneAtATime)'
      BY DEF ReviewInv, RatingCountsReviews, Counts, Of, OneReviewPerItem, LinksMatchReviews, OneAtATime
    <2> QED BY <2>1, <2>2, <2>3 DEF ReviewInv
  <1>2. CASE Next
    <2>1. PICK r \in Requests :
            \/ \E i \in Items, rate \in Rates : ReadOrder(r, i, rate)
            \/ FindReview(r) \/ CreateReview(r) \/ Aggregate(r)
            \/ UpdateProduct(r) \/ UpdateOrder(r) \/ CommitReview(r) \/ Fail(r)
      BY <1>2 DEF Next
    <2>2. CASE \E i \in Items, rate \in Rates : ReadOrder(r, i, rate)
      BY <2>2, ReadOrderInv
    <2>3. CASE FindReview(r)
      BY <2>3, FindReviewInv
    <2>4. CASE CreateReview(r)
      BY <2>4, CreateReviewInv
    <2>5. CASE Aggregate(r)
      BY <2>5, AggregateInv
    <2>6. CASE UpdateProduct(r) \/ UpdateOrder(r)
      <3>1. request[r].at \in {"product", "order"}
        BY <2>6 DEF UpdateProduct, UpdateOrder
      <3>2. request[r] \in Reviewing
        BY <3>1, RequestFields DEF ReviewInv
      <3>3. <<"product", request[r].item[2]>> \in Documents /\ <<"order", request[r].item[1]>> \in Documents
        BY <3>2 DEF Documents, Reviewing, Items
      <3> QED BY <2>6, <3>1, <3>3, WriteOrThrowInv DEF UpdateProduct, UpdateOrder
    <2>7. CASE CommitReview(r)
      BY <2>7, CommitReviewInv
    <2>8. CASE Fail(r)
      BY <2>8, FailInv DEF Fail
    <2> QED BY <2>1, <2>2, <2>3, <2>4, <2>5, <2>6, <2>7, <2>8
  <1> QED BY <1>1, <1>2

\* ReviewInv holds in every reachable state.
LEMMA ReviewAlways == Spec => []ReviewInv
  BY ReviewInitInv, ReviewNextInv, PTL DEF Spec

\* Reviews, ratings, links and requests keep their types.
THEOREM ReviewTypeCorrect == Spec => []TypeOK
  <1>1. ReviewInv => TypeOK
    BY DEF ReviewInv
  <1> QED BY <1>1, ReviewAlways, PTL

\* However many reviews of a product race and abort, its rating counts only committed
\* ones: the aggregate of createReview sees no other, and none is taken back.
THEOREM RatingsCountCommitted == Spec => []RatingCountsReviews
  <1>1. ReviewInv => RatingCountsReviews
    BY DEF ReviewInv
  <1> QED BY <1>1, ReviewAlways, PTL

\* As long as requests come one at a time, the look for an earlier review keeps an
\* order item from being reviewed twice.
THEOREM ItemsReviewedOnce == Spec => []OneReviewPerItem
  <1>1. ReviewInv => OneReviewPerItem
    BY DEF ReviewInv
  <1> QED BY <1>1, ReviewAlways, PTL

\* Storing the items as they were read leaves no link to a review of another item or
\* to none at all, whatever races; and it loses no link when requests come one at a time.
THEOREM LinksLeadToTheirReviews == Spec => []LinksMatchReviews
  <1>1. ReviewInv => LinksMatchReviews
    BY DEF ReviewInv
  <1> QED BY <1>1, ReviewAlways, PTL
==============================================================================
