---------------------------- MODULE MCAiCredits ----------------------------
(* Small instances of AiCredits for TLC. *)
EXTENDS AiCredits, TLC

Pricing == "TEXT_TO_IMAGE" :> 10 @@ "TEXT_TO_MODEL" :> 15
Personal == [p \in Payments |-> 60]

\* Handlers are interchangeable, and so are payments of the same plan.
Symmetry == Permutations(Requests) \cup Permutations(Payments)
=============================================================================
