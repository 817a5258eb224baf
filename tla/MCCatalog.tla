------------------------------ MODULE MCCatalog ------------------------------
(* Small instances of Catalog for TLC. *)
EXTENDS Catalog, TLC

\* Handlers, skus and names are interchangeable.
Symmetry == Permutations(Requests) \cup Permutations(Skus) \cup Permutations(Names)
=============================================================================
