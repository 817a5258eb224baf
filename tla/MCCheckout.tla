----------------------------- MODULE MCCheckout -----------------------------
(* Small instances of Checkout for TLC. *)
EXTENDS Checkout, TLC

CONSTANTS r1, r2, c1, c2, s1, s2, o1, o2

OneOwner == [o \in Orders |-> c1]
TwoOwners == o1 :> c1 @@ o2 :> c2
BothMethods == o1 :> "MOMO" @@ o2 :> "PAY_OS"
OnlyPayOS == [o \in Orders |-> "PAY_OS"]
TwoOfEach == [s \in Skus |-> 2]
OneOfEach == [s \in Skus |-> 1]

\* Handlers are interchangeable, and so are skus of the same stock.
Symmetry == Permutations(Requests) \cup Permutations(Skus)
=============================================================================
