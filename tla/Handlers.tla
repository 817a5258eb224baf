------------------------------- MODULE Handlers -------------------------------
(***************************************************************************)
(* The requests that the one Node process is handling.  They interleave at *)
(* their awaits: request[r] is where handler r is suspended, with the      *)
(* local variables it still needs, or an idle record.                      *)
(***************************************************************************)
CONSTANTS Requests      \* requests being handled (HTTP handlers)

VARIABLES request       \* what each handler is doing
=============================================================================
