------------------------------- MODULE MCCart -------------------------------
(* Small instances of Cart for TLC. *)
EXTENDS Cart, TLC

CONSTANTS s1, s2

Offers == s1 :> [price |-> 2, quantity |-> 2] @@ s2 :> [price |-> 3, quantity |-> 1]
OneOffer == {[price |-> 1, quantity |-> 1]}

\* Handlers are interchangeable.
Symmetry == Permutations(Requests)
=============================================================================
