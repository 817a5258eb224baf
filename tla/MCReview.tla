------------------------------ MODULE MCReview ------------------------------
(* Small instances of Review for TLC. *)
EXTENDS Review, TLC

\* Handlers, orders and products are interchangeable.
Symmetry == Permutations(Requests) \cup Permutations(Orders) \cup Permutations(Products)
=============================================================================
