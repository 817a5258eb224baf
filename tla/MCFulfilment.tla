---------------------------- MODULE MCFulfilment ----------------------------
(* Small instances of Fulfilment for TLC. *)
EXTENDS Fulfilment, TLC

\* Handlers, orders and delivery staff are interchangeable.
Symmetry == Permutations(Requests) \cup Permutations(Orders) \cup Permutations(DeliveryStaff)
=============================================================================
