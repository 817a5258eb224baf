---------------------------- MODULE SharedLemmas ----------------------------
(***************************************************************************)
(* What the proofs of several components rest on, for any constants: what  *)
(* each operation of a MongoDB session preserves; and what SumFunction     *)
(* gives for a function on a finite set, from its definition by recursion. *)
(***************************************************************************)
EXTENDS Integers, Functions, MongoSession, FiniteSetTheorems, TLAPS
-----------------------------------------------------------------------------
(* Sessions. *)

\* Before any call no session holds anything.
LEMMA SessionInitIsolated ==
  ASSUME NEW Documents, SessionInit
  PROVE  SessionTypeOK(Documents) /\ SessionsIsolated
  BY DEF SessionInit, SessionTypeOK, SessionsIsolated

\* A session write adds the document to its own session, and keeps the sessions
\* apart because it is refused for a document another one holds.
LEMMA SessionWriteIsolated ==
  ASSUME NEW Documents, SessionTypeOK(Documents), SessionsIsolated,
         NEW r \in Requests, NEW doc \in Documents, SessionWrite(r, doc)
  PROVE  /\ SessionTypeOK(Documents)' /\ SessionsIsolated'
         /\ held'[r] = held[r] \cup {doc}
         /\ \A q \in Requests : doc \in held[q] => q = r
         /\ \A q \in Requests \ {r} : held'[q] = held[q]
  <1>1. \A q \in Requests \ {r} : doc \notin held[q]
    BY DEF SessionWrite, WriteConflict
  <1>2. /\ held'[r] = held[r] \cup {doc}
        /\ \A q \in Requests \ {r} : held'[q] = held[q]
    BY DEF SessionWrite, SessionTypeOK
  <1>3. SessionTypeOK(Documents)'
    BY DEF SessionWrite, SessionTypeOK
  <1>4. SessionsIsolated'
    BY <1>1, <1>2 DEF SessionsIsolated
  <1> QED BY <1>1, <1>2, <1>3, <1>4

\* A commit releases what the session held and touches no other session's hold.
LEMMA CommitIsolated ==
  ASSUME NEW Documents, SessionTypeOK(Documents), SessionsIsolated,
         NEW r \in Requests, CommitTransaction(r)
  PROVE  /\ SessionTypeOK(Documents)' /\ SessionsIsolated'
         /\ held'[r] = {}
         /\ \A q \in Requests \ {r} : held'[q] = held[q]
  <1>1. /\ held'[r] = {}
        /\ \A q \in Requests \ {r} : held'[q] = held[q]
    BY DEF CommitTransaction, SessionTypeOK
  <1>2. SessionTypeOK(Documents)'
    BY DEF CommitTransaction, SessionTypeOK, Outdated
  <1> QED BY <1>1, <1>2 DEF SessionsIsolated

\* So does an abort.
LEMMA AbortIsolated ==
  ASSUME NEW Documents, SessionTypeOK(Documents), SessionsIsolated,
         NEW r \in Requests, AbortTransaction(r)
  PROVE  /\ SessionTypeOK(Documents)' /\ SessionsIsolated'
         /\ held'[r] = {}
         /\ \A q \in Requests \ {r} : held'[q] = held[q]
  <1>1. /\ held'[r] = {}
        /\ \A q \in Requests \ {r} : held'[q] = held[q]
    BY DEF AbortTransaction, SessionTypeOK
  <1>2. SessionTypeOK(Documents)'
    BY DEF AbortTransaction, SessionTypeOK
  <1> QED BY <1>1, <1>2 DEF SessionsIsolated

\* A write outside any session waits for the sessions that hold the document.
LEMMA DirectWriteIsolated ==
  ASSUME NEW Documents, SessionTypeOK(Documents), SessionsIsolated,
         NEW doc \in Documents, DirectWrite(doc)
  PROVE  /\ SessionTypeOK(Documents)' /\ SessionsIsolated'
         /\ held' = held
         /\ \A q \in Requests : doc \notin held[q]
  BY DEF DirectWrite, SessionTypeOK, SessionsIsolated
-----------------------------------------------------------------------------
(* Sums.  The library's induction theorems take the property to be proved as
   an operator; LeastNatural and SubsetInduction state it as a set instead. *)

\* Every set of naturals that has a member has a least one.
LEMMA LeastNatural ==
  ASSUME NEW S \in SUBSET Nat, S # {}
  PROVE  \E m \in S : \A n \in S : m <= n
  <1> DEFINE R == OpToRel(<, Nat)
  <1>1. IsWellFoundedOn(R, Nat)
    BY NatLessThanWellFounded
  <1>2. \A m, n \in Nat : <<m, n>> \in R <=> m < n
    BY DEF OpToRel
  <1> HIDE DEF R
  <1>3. PICK m \in S : \A n \in S : <<n, m>> \notin R
    BY <1>1, WFMin
  <1>4. ASSUME NEW n \in S PROVE m <= n
    <2>1. m \in Nat /\ n \in Nat /\ ~(n < m)
      BY <1>2, <1>3
    <2> QED BY <2>1
  <1> QED BY <1>4

\* SumFunction adds the values one by one: of what is left, Pick(s) is the next, and
\* AddUp(f)[s] is the sum over s.
Pick(s) == CHOOSE x \in s : TRUE
NextSum(f, sum, s) == IF s = {} THEN 0 ELSE f[Pick(s)] + sum[s \ {Pick(s)}]
AddUp(f) == CHOOSE sum : sum = [s \in SUBSET DOMAIN f |-> NextSum(f, sum, s)]

\* The sum of the community modules is AddUp over the whole domain.
LEMMA SumIsAddUp ==
  ASSUME NEW f
  PROVE  SumFunction(f) = AddUp(f)[DOMAIN f]
  BY DEF SumFunction, SumFunctionOnSet, FoldFunction, FoldFunctionOnSet, MapThenFoldSet,
         Pick, NextSum, AddUp

\* A set shrinks when its next member is taken.
LEMMA PickShrinks ==
  ASSUME NEW s, IsFiniteSet(s), s # {}
  PROVE  /\ Pick(s) \in s
         /\ IsFiniteSet(s \ {Pick(s)})
         /\ Cardinality(s) \in Nat /\ Cardinality(s \ {Pick(s)}) \in Nat
         /\ Cardinality(s) > 0
         /\ Cardinality(s \ {Pick(s)}) = Cardinality(s) - 1
  <1>1. Pick(s) \in s
    BY DEF Pick
  <1>2. IsFiniteSet(s \ {Pick(s)}) /\ Cardinality(s \ {Pick(s)}) = Cardinality(s) - 1
    BY <1>1, FS_RemoveElement
  <1>3. Cardinality(s) \in Nat /\ Cardinality(s \ {Pick(s)}) \in Nat
    BY <1>2, FS_CardinalityType
  <1> QED BY <1>1, <1>2, <1>3

\* The sums over the sets of up to n members, for a larger n each time.
LEMMA AddUpTo ==
  ASSUME NEW f, IsFiniteSet(DOMAIN f), NEW n \in Nat
  PROVE  \E sum : sum = [s \in {t \in SUBSET DOMAIN f : Cardinality(t) <= n} |-> NextSum(f, sum, s)]
  <1> DEFINE UpTo(m) == {t \in SUBSET DOMAIN f : Cardinality(t) <= m}
             Solves(sum, m) == sum = [s \in UpTo(m) |-> NextSum(f, sum, s)]
             Bad == {m \in Nat : \A sum : ~Solves(sum, m)}
  <1>1. SUFFICES ASSUME Bad # {} PROVE FALSE
    OBVIOUS
  <1>2. PICK m \in Bad : \A k \in Bad : m <= k
    <2> HIDE DEF Bad
    <2>1. Bad \in SUBSET Nat
      BY DEF Bad
    <2> QED BY <1>1, <2>1, LeastNatural
  <1>3. \A s \in SUBSET DOMAIN f : IsFiniteSet(s) /\ Cardinality(s) \in Nat
    BY FS_Subset, FS_CardinalityType
  <1>4. CASE m = 0
    <2> DEFINE sum == [s \in UpTo(0) |-> 0]
    <2>1. ASSUME NEW s \in UpTo(0) PROVE s = {}
      <3>1. IsFiniteSet(s) /\ Cardinality(s) \in Nat /\ Cardinality(s) <= 0
        BY <1>3
      <3>2. Cardinality(s) = 0
        BY <3>1
      <3> QED BY <3>1, <3>2, FS_EmptySet
    <2>2. \A s \in UpTo(0) : NextSum(f, sum, s) = 0
      BY <2>1 DEF NextSum
    <2>3. Solves(sum, 0)
      BY <2>2
    <2> QED BY <1>4, <2>3
  <1>5. CASE m > 0
    <2>1. m \in Nat /\ m - 1 \in Nat /\ m - 1 \notin Bad
      BY <1>2, <1>5
    <2>2. PICK sum : Solves(sum, m - 1)
      BY <2>1
    <2> DEFINE longer == [s \in UpTo(m) |-> NextSum(f, sum, s)]
    <2>3. ASSUME NEW s \in UpTo(m) PROVE NextSum(f, longer, s) = NextSum(f, sum, s)
      <3>1. CASE s = {}
        BY <3>1 DEF NextSum
      <3>2. CASE s # {}
        <4> DEFINE t == s \ {Pick(s)}
        <4>1. t \in SUBSET DOMAIN f /\ Cardinality(t) \in Nat /\ Cardinality(s) \in Nat
              /\ Cardinality(t) = Cardinality(s) - 1 /\ Cardinality(s) <= m
          BY <1>3, <3>2, PickShrinks
        <4>2. t \in UpTo(m) /\ t \in UpTo(m - 1)
          BY <2>1, <4>1
        <4>3. longer[t] = NextSum(f, sum, t) /\ sum[t] = NextSum(f, sum, t)
          BY <2>2, <4>2
        <4> QED BY <3>2, <4>3 DEF NextSum
      <3> QED BY <3>1, <3>2
    <2>4. Solves(longer, m)
      BY <2>3
    <2> QED BY <2>4
  <1> QED BY <1>2, <1>4, <1>5

\* So there is a sum over every set of arguments.
LEMMA AddUpStep ==
  ASSUME NEW f, IsFiniteSet(DOMAIN f), NEW s \in SUBSET DOMAIN f
  PROVE  AddUp(f)[s] = NextSum(f, AddUp(f), s)
  <1>1. PICK n \in Nat : n = Cardinality(DOMAIN f)
    BY FS_CardinalityType
  <1>2. {t \in SUBSET DOMAIN f : Cardinality(t) <= n} = SUBSET DOMAIN f
    <2>1. \A t \in SUBSET DOMAIN f : Cardinality(t) <= Cardinality(DOMAIN f)
      BY FS_Subset
    <2> QED BY <1>1, <2>1
  <1>3. \E sum : sum = [t \in SUBSET DOMAIN f |-> NextSum(f, sum, t)]
    <2>1. \E sum : sum = [t \in {u \in SUBSET DOMAIN f : Cardinality(u) <= n} |-> NextSum(f, sum, t)]
      BY AddUpTo
    <2> QED BY <1>2, <2>1
  <1>4. AddUp(f) = [t \in SUBSET DOMAIN f |-> NextSum(f, AddUp(f), t)]
    BY <1>3 DEF AddUp
  <1> QED BY <1>4

\* The sum over nothing is 0.
LEMMA AddUpNone ==
  ASSUME NEW f, IsFiniteSet(DOMAIN f)
  PROVE  AddUp(f)[{}] = 0
  BY AddUpStep DEF NextSum

\* What holds of the empty set, and of a set whenever it holds of all but its next
\* member, holds of every subset of a finite set.
LEMMA SubsetInduction ==
  ASSUME NEW D, IsFiniteSet(D), NEW G, {} \in G,
         \A s \in SUBSET D : s # {} /\ s \ {Pick(s)} \in G => s \in G
  PROVE  SUBSET D \subseteq G
  <1> DEFINE Bad == {n \in Nat : \E s \in SUBSET D : s \notin G /\ Cardinality(s) = n}
  <1>1. \A s \in SUBSET D : IsFiniteSet(s) /\ Cardinality(s) \in Nat
    BY FS_Subset, FS_CardinalityType
  <1>2. SUFFICES ASSUME Bad # {} PROVE FALSE
    BY <1>1
  <1>3. PICK n \in Bad : \A m \in Bad : n <= m
    <2> HIDE DEF Bad
    <2>1. Bad \in SUBSET Nat
      BY DEF Bad
    <2> QED BY <1>2, <2>1, LeastNatural
  <1>4. PICK s \in SUBSET D : s \notin G /\ Cardinality(s) = n
    OBVIOUS
  <1>5. s # {} /\ s \ {Pick(s)} \in SUBSET D /\ s \ {Pick(s)} \notin G
    BY <1>4
  <1>6. n \in Nat /\ Cardinality(s \ {Pick(s)}) \in Nat /\ Cardinality(s \ {Pick(s)}) < n
    BY <1>1, <1>4, <1>5, PickShrinks
  <1>7. Cardinality(s \ {Pick(s)}) \in Bad
    BY <1>5, <1>6
  <1>8. n <= Cardinality(s \ {Pick(s)})
    BY <1>3, <1>7
  <1> QED BY <1>6, <1>8

\* A sum of integers is an integer.
LEMMA SumInt ==
  ASSUME NEW D, IsFiniteSet(D), NEW f \in [D -> Int]
  PROVE  SumFunction(f) \in Int
  <1> DEFINE G == {s \in SUBSET D : AddUp(f)[s] \in Int}
  <1>1. DOMAIN f = D
    OBVIOUS
  <1>2. {} \in G
    BY <1>1, AddUpNone
  <1>3. ASSUME NEW s \in SUBSET D, s # {}, s \ {Pick(s)} \in G PROVE s \in G
    <2>1. AddUp(f)[s] = f[Pick(s)] + AddUp(f)[s \ {Pick(s)}]
      BY <1>1, <1>3, AddUpStep DEF NextSum
    <2>2. f[Pick(s)] \in Int
      BY <1>3 DEF Pick
    <2> QED BY <1>3, <2>1, <2>2
  <1> HIDE DEF G
  <1>4. D \in G
    BY <1>2, <1>3, SubsetInduction
  <1> QED BY <1>1, <1>4, SumIsAddUp DEF G

\* A sum of naturals is a natural.
LEMMA SumNat ==
  ASSUME NEW D, IsFiniteSet(D), NEW f \in [D -> Nat]
  PROVE  SumFunction(f) \in Nat
  <1> DEFINE G == {s \in SUBSET D : AddUp(f)[s] \in Nat}
  <1>1. DOMAIN f = D
    OBVIOUS
  <1>2. {} \in G
    BY <1>1, AddUpNone
  <1>3. ASSUME NEW s \in SUBSET D, s # {}, s \ {Pick(s)} \in G PROVE s \in G
    <2>1. AddUp(f)[s] = f[Pick(s)] + AddUp(f)[s \ {Pick(s)}]
      BY <1>1, <1>3, AddUpStep DEF NextSum
    <2>2. f[Pick(s)] \in Nat
      BY <1>3 DEF Pick
    <2> QED BY <1>3, <2>1, <2>2
  <1> HIDE DEF G
  <1>4. D \in G
    BY <1>2, <1>3, SubsetInduction
  <1> QED BY <1>1, <1>4, SumIsAddUp DEF G

\* A sum of naturals up to c, of which only those in U may be more than zero.
LEMMA SumAtMost ==
  ASSUME NEW D, IsFiniteSet(D), NEW f \in [D -> Nat], NEW c \in Nat, NEW U \in SUBSET D,
         \A x \in U : f[x] <= c, \A x \in D \ U : f[x] = 0
  PROVE  SumFunction(f) <= Cardinality(U) * c
  <1> DEFINE G == {s \in SUBSET D : /\ AddUp(f)[s] \in Nat
                                    /\ AddUp(f)[s] <= Cardinality(U \cap s) * c}
  <1>1. DOMAIN f = D
    OBVIOUS
  <1>2. {} \in G
    <2>1. U \cap {} = {}
      OBVIOUS
    <2>2. Cardinality(U \cap {}) = 0
      BY <2>1, FS_EmptySet
    <2> QED BY <1>1, <2>2, AddUpNone
  <1>3. ASSUME NEW s \in SUBSET D, s # {}, s \ {Pick(s)} \in G PROVE s \in G
    <2> DEFINE x == Pick(s)
               k == Cardinality(U \cap (s \ {x}))
    <2>1. AddUp(f)[s] = f[x] + AddUp(f)[s \ {x}]
      BY <1>1, <1>3, AddUpStep DEF NextSum
    <2>2. x \in s /\ f[x] \in Nat
      BY <1>3 DEF Pick
    <2>3. IsFiniteSet(U \cap (s \ {x})) /\ k \in Nat
      BY FS_Subset, FS_CardinalityType
    <2>4. AddUp(f)[s \ {x}] \in Nat /\ AddUp(f)[s \ {x}] <= k * c
      BY <1>3
    <2>5. CASE x \in U
      <3>1. U \cap s = (U \cap (s \ {x})) \cup {x}
        BY <2>2, <2>5
      <3>2. Cardinality(U \cap s) = k + 1
        BY <2>3, <3>1, FS_AddElement
      <3>3. f[x] <= c /\ (k + 1) * c = k * c + c /\ k * c \in Nat
        BY <2>3, <2>5
      <3> QED BY <2>1, <2>2, <2>4, <3>2, <3>3
    <2>6. CASE x \notin U
      <3>1. U \cap s = U \cap (s \ {x}) /\ f[x] = 0
        BY <2>2, <2>6
      <3>2. AddUp(f)[s] = AddUp(f)[s \ {x}]
        BY <2>1, <2>4, <3>1
      <3> HIDE DEF x
      <3> QED BY <2>4, <3>1, <3>2
    <2> QED BY <2>5, <2>6
  <1> HIDE DEF G
  <1>4. D \in G
    BY <1>2, <1>3, SubsetInduction
  <1>5. U \cap D = U
    OBVIOUS
  <1> QED BY <1>1, <1>4, <1>5, SumIsAddUp DEF G

\* A finite set that is not empty has a member with the largest value.
LEMMA HasLargest ==
  ASSUME NEW D, IsFiniteSet(D), D # {}, NEW f \in [D -> Int]
  PROVE  \E x \in D : \A y \in D : f[y] <= f[x]
  <1> DEFINE G == {s \in SUBSET D : s # {} => \E x \in s : \A y \in s : f[y] <= f[x]}
  <1>1. {} \in G
    OBVIOUS
  <1>2. ASSUME NEW s \in SUBSET D, s # {}, s \ {Pick(s)} \in G PROVE s \in G
    <2>1. Pick(s) \in s /\ \A y \in s : f[y] \in Int
      BY <1>2 DEF Pick
    <2>2. CASE s = {Pick(s)}
      <3>1. \A y \in s : f[y] <= f[Pick(s)]
        BY <2>1, <2>2
      <3> QED BY <2>1, <3>1
    <2>3. CASE s # {Pick(s)}
      <3>1. PICK x \in s \ {Pick(s)} : \A y \in s \ {Pick(s)} : f[y] <= f[x]
        BY <1>2, <2>1, <2>3
      <3>2. CASE f[Pick(s)] <= f[x]
        BY <2>1, <3>1, <3>2
      <3>3. CASE ~(f[Pick(s)] <= f[x])
        <4>1. \A y \in s : f[y] <= f[Pick(s)]
          BY <2>1, <3>1, <3>3
        <4> QED BY <2>1, <4>1
      <3> QED BY <3>2, <3>3
    <2> QED BY <2>2, <2>3
  <1> HIDE DEF G
  <1>3. D \in G
    BY <1>1, <1>2, SubsetInduction
  <1> QED BY <1>3 DEF G

\* The sum of zeros is zero.
LEMMA SumZero ==
  ASSUME NEW D, IsFiniteSet(D), NEW f, DOMAIN f = D, \A x \in D : f[x] = 0
  PROVE  SumFunction(f) = 0
  <1> DEFINE G == {s \in SUBSET D : AddUp(f)[s] = 0}
  <1>1. {} \in G
    BY AddUpNone
  <1>2. ASSUME NEW s \in SUBSET D, s # {}, s \ {Pick(s)} \in G PROVE s \in G
    <2>1. AddUp(f)[s] = f[Pick(s)] + AddUp(f)[s \ {Pick(s)}]
      BY <1>2, AddUpStep DEF NextSum
    <2>2. f[Pick(s)] = 0
      BY <1>2 DEF Pick
    <2> QED BY <1>2, <2>1, <2>2
  <1> HIDE DEF G
  <1>3. D \in G
    BY <1>1, <1>2, SubsetInduction
  <1> QED BY <1>3, SumIsAddUp DEF G

\* A value that changes by d changes the sum by d.
LEMMA SumChange ==
  ASSUME NEW D, IsFiniteSet(D), NEW f \in [D -> Int], NEW g \in [D -> Int],
         NEW x \in D, \A y \in D \ {x} : g[y] = f[y]
  PROVE  SumFunction(g) = SumFunction(f) + (g[x] - f[x])
  <1> DEFINE d == g[x] - f[x]
             G == {s \in SUBSET D : /\ AddUp(f)[s] \in Int
                                    /\ AddUp(g)[s] = AddUp(f)[s] + (IF x \in s THEN d ELSE 0)}
  <1>1. DOMAIN f = D /\ DOMAIN g = D
    OBVIOUS
  <1>2. {} \in G
    BY <1>1, AddUpNone
  <1>3. ASSUME NEW s \in SUBSET D, s # {}, s \ {Pick(s)} \in G PROVE s \in G
    <2>1. /\ AddUp(f)[s] = f[Pick(s)] + AddUp(f)[s \ {Pick(s)}]
          /\ AddUp(g)[s] = g[Pick(s)] + AddUp(g)[s \ {Pick(s)}]
      BY <1>1, <1>3, AddUpStep DEF NextSum
    <2>2. Pick(s) \in s /\ f[Pick(s)] \in Int /\ g[Pick(s)] \in Int /\ f[x] \in Int /\ g[x] \in Int
      BY <1>3 DEF Pick
    <2>3. CASE Pick(s) = x
      BY <1>3, <2>1, <2>2, <2>3
    <2>4. CASE Pick(s) # x
      <3>1. g[Pick(s)] = f[Pick(s)] /\ (x \in s <=> x \in s \ {Pick(s)})
        BY <2>2, <2>4
      <3> QED BY <1>3, <2>1, <2>2, <3>1
    <2> QED BY <2>3, <2>4
  <1> HIDE DEF G
  <1>4. D \in G
    BY <1>2, <1>3, SubsetInduction
  <1> QED BY <1>1, <1>4, SumIsAddUp DEF G

\* The sum of two functions is the sum of their sums.
LEMMA SumPlus ==
  ASSUME NEW D, IsFiniteSet(D), NEW f \in [D -> Int], NEW g \in [D -> Int], NEW h,
         DOMAIN h = D, \A x \in D : h[x] = f[x] + g[x]
  PROVE  SumFunction(h) = SumFunction(f) + SumFunction(g)
  <1> DEFINE G == {s \in SUBSET D : /\ AddUp(f)[s] \in Int /\ AddUp(g)[s] \in Int
                                    /\ AddUp(h)[s] = AddUp(f)[s] + AddUp(g)[s]}
  <1>1. DOMAIN f = D /\ DOMAIN g = D
    OBVIOUS
  <1>2. {} \in G
    BY <1>1, AddUpNone
  <1>3. ASSUME NEW s \in SUBSET D, s # {}, s \ {Pick(s)} \in G PROVE s \in G
    <2>1. /\ AddUp(f)[s] = f[Pick(s)] + AddUp(f)[s \ {Pick(s)}]
          /\ AddUp(g)[s] = g[Pick(s)] + AddUp(g)[s \ {Pick(s)}]
          /\ AddUp(h)[s] = h[Pick(s)] + AddUp(h)[s \ {Pick(s)}]
      BY <1>1, <1>3, AddUpStep DEF NextSum
    <2>2. f[Pick(s)] \in Int /\ g[Pick(s)] \in Int /\ h[Pick(s)] = f[Pick(s)] + g[Pick(s)]
      BY <1>3 DEF Pick
    <2> QED BY <1>3, <2>1, <2>2
  <1> HIDE DEF G
  <1>4. D \in G
    BY <1>2, <1>3, SubsetInduction
  <1> QED BY <1>1, <1>4, SumIsAddUp DEF G
=============================================================================
