--------------------------- MODULE OrderLifecycle ---------------------------
(***************************************************************************)
(* What the API promises about an order, whatever handlers race on it: the *)
(* two status fields of the order document as one state machine.  It has   *)
(* no sessions, stock, carts, tasks or retries; Checkout and Fulfilment    *)
(* implement it.                                                           *)
(*                                                                         *)
(* orderStatus moves forward only, and only while the money is CAPTURED.   *)
(* transactionStatus is not monotone: a notification of the payment        *)
(* provider overwrites it in any state of the order.                       *)
(***************************************************************************)
CONSTANT Orders

VARIABLES orderStatus, transactionStatus

lifecycleVars == <<orderStatus, transactionStatus>>

OrderStatuses == {"NONE", "PENDING", "CONFIRMED", "DELIVERING", "COMPLETED", "CANCELED"}
TransactionStatuses == {"NONE", "DRAFT", "CAPTURED", "ERROR", "CANCELED"}

LifecycleTypeOK ==
  /\ orderStatus \in [Orders -> OrderStatuses]
  /\ transactionStatus \in [Orders -> TransactionStatuses]

LifecycleInit ==
  /\ orderStatus = [o \in Orders |-> "NONE"]
  /\ transactionStatus = [o \in Orders |-> "NONE"]

Place(o) ==
  /\ orderStatus[o] = "NONE"
  /\ orderStatus' = [orderStatus EXCEPT ![o] = "PENDING"]
  /\ transactionStatus' = [transactionStatus EXCEPT ![o] = "DRAFT"]

\* The provider's notification: the order's own status is left alone.
Notify(o, status) ==
  /\ orderStatus[o] # "NONE"
  /\ status \in {"CAPTURED", "ERROR"}
  /\ transactionStatus' = [transactionStatus EXCEPT ![o] = status]
  /\ UNCHANGED orderStatus

Advance(o, from, to) ==
  /\ <<from, to>> \in {<<"PENDING", "CONFIRMED">>, <<"CONFIRMED", "DELIVERING">>,
                       <<"DELIVERING", "COMPLETED">>}
  /\ orderStatus[o] = from
  /\ transactionStatus[o] = "CAPTURED"
  /\ orderStatus' = [orderStatus EXCEPT ![o] = to]
  /\ UNCHANGED transactionStatus

Cancel(o) ==
  /\ orderStatus[o] \in {"PENDING", "CONFIRMED"}
  /\ transactionStatus[o] = "CAPTURED"
  /\ orderStatus' = [orderStatus EXCEPT ![o] = "CANCELED"]
  /\ transactionStatus' = [transactionStatus EXCEPT ![o] = "CANCELED"]

LifecycleNext ==
  \E o \in Orders :
    \/ Place(o)
    \/ \E status \in {"CAPTURED", "ERROR"} : Notify(o, status)
    \/ \E from, to \in OrderStatuses : Advance(o, from, to)
    \/ Cancel(o)

LifecycleSpec == LifecycleInit /\ [][LifecycleNext]_lifecycleVars
=============================================================================
