--------------------------- MODULE MCPaymentRouting ---------------------------
(* Small instances of PaymentRouting for TLC. *)
EXTENDS PaymentRouting, TLC

\* Handlers are interchangeable.
Symmetry == Permutations(Requests)
=============================================================================
