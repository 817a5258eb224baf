-------------------------------- MODULE MCAuth --------------------------------
(* Small instances of Auth for TLC. *)
EXTENDS Auth, TLC

\* Handlers, and all that a customer types, are interchangeable.
Symmetry == UNION {Permutations(S) : S \in {Requests, Emails, Passwords, Codes}}
=============================================================================
