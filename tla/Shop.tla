--------------------------------- MODULE Shop ---------------------------------
(***************************************************************************)
(* What Catalog and Cart have in common: the skus of the variants, and     *)
(* requests that may overlap.                                              *)
(***************************************************************************)
EXTENDS Handlers

CONSTANTS Skus,
          MaxQuantity     \* bound: units of one sku in a form, a request or an order

VARIABLES overlapped      \* history: two requests have been in flight at once
=============================================================================
