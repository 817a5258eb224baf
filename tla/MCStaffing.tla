------------------------------ MODULE MCStaffing ------------------------------
(* Small instances of Staffing for TLC. *)
EXTENDS Staffing, TLC

\* Handlers, and the keys of staff, are interchangeable.
Symmetry == UNION {Permutations(S) : S \in {Requests, Emails, StaffCodes}}
=============================================================================
