----------------------------- MODULE Fulfilment -----------------------------
(***************************************************************************)
(* What staff do with a paid order: OrderService.confirmOrder and          *)
(* cancelOrder, TaskService.createShippingTask, progressShippingTask and   *)
(* completeShippingTask, StaffService.deactivateStaff, racing with each    *)
(* other and with the notifications of the payment provider.               *)
(*                                                                         *)
(* The order documents are those of Checkout, reduced to their two status  *)
(* fields (the variables of OrderLifecycle) and isDeliveryAssigned; stock, *)
(* cart and payment documents are left to Checkout.                        *)
(***************************************************************************)
EXTENDS Integers, Sequences, OrderLifecycle, MongoSession

CONSTANTS DeliveryStaff,  \* delivery staff of the reporter's provider
          Nobody          \* in place of an assignee, for the other requests

ASSUME FulfilmentAssumption == Nobody \notin DeliveryStaff

VARIABLES isDeliveryAssigned,
          tasks,      \* shipping tasks of an order, in the order of insertion
          active      \* delivery staff whose status is ACTIVE

statusVars == <<orderStatus, transactionStatus, isDeliveryAssigned>>
fulfilmentVars == <<statusVars, tasks, active, request, sessionVars>>

Documents == ({"order", "task"} \X Orders) \cup ({"newTask"} \X Requests)

Ops == {"createShippingTask", "progressShippingTask", "completeShippingTask",
        "cancelOrder", "paid", "failed"}
TaskRecord == [status : {"PENDING", "IN_PROGRESS", "COMPLETED"}, assignee : DeliveryStaff]
RequestRecord ==
  [op : Ops, at : {"findTask", "insert", "order", "commit"},
   order : Orders, staff : DeliveryStaff \cup {Nobody}]
Idle == [op |-> "none", at |-> "idle"]

FulfilmentInit ==
  /\ LifecycleInit
  /\ isDeliveryAssigned = [o \in Orders |-> FALSE]
  /\ tasks = [o \in Orders |-> <<>>]
  /\ active = DeliveryStaff
  /\ request = [r \in Requests |-> Idle]
  /\ SessionInit

-----------------------------------------------------------------------------
Start(r, op, at, o, a) ==
  /\ request[r] = Idle
  /\ request' = [request EXCEPT ![r] = [op |-> op, at |-> at, order |-> o, staff |-> a]]

Finish(r) == request' = [request EXCEPT ![r] = Idle]

Throw(r) == /\ Finish(r)
            /\ AbortTransaction(r)
            /\ UNCHANGED <<statusVars, tasks, active>>

\* OrderService.createOrder, of which only the new order matters here.
CreateOrder(o) ==
  /\ Place(o)
  /\ UNCHANGED <<isDeliveryAssigned, tasks, active, request, sessionVars>>

\* OrderService.confirmOrder: one findOneAndUpdate without a session.
ConfirmOrder(o) ==
  /\ DirectWrite(<<"order", o>>)
  /\ Advance(o, "PENDING", "CONFIRMED")
  /\ UNCHANGED <<isDeliveryAssigned, tasks, active, request>>

\* StaffService.deactivateStaff
DeactivateStaff(a) ==
  /\ a \in active
  /\ active' = active \ {a}
  /\ UNCHANGED <<statusVars, tasks, request, sessionVars>>
-----------------------------------------------------------------------------
\* TaskService.createShippingTask.  Reporter and assignee, then the tasks of
\* the order, are read without the session, each in an await of its own.

BeginShippingTask(r, o, a) ==
  /\ a \in active
  /\ Start(r, "createShippingTask", "findTask", o, a)
  /\ UNCHANGED <<statusVars, tasks, active, sessionVars>>

FindTask(r) ==
  /\ request[r].at = "findTask"
  /\ \/ /\ tasks[request[r].order] = <<>>
        /\ request' = [request EXCEPT ![r].at = "insert"]
     \/ /\ tasks[request[r].order] # <<>>   \* ORDER_HAS_ASSIGNED_DELIVERY
        /\ Finish(r)
  /\ UNCHANGED <<statusVars, tasks, active, sessionVars>>

\* taskRepository.create is the session's first call: the snapshot is taken here.
InsertTask(r) ==
  /\ request[r].at = "insert"
  /\ SessionWrite(r, <<"newTask", r>>)
  /\ request' = [request EXCEPT ![r].at = "order"]
  /\ UNCHANGED <<statusVars, tasks, active>>
-----------------------------------------------------------------------------
\* TaskService.progressShippingTask and completeShippingTask: the first task of
\* the order is written in the session, then judged by what it was before.

TaskBefore(op) == IF op = "progressShippingTask" THEN "PENDING" ELSE "IN_PROGRESS"
\* Mutant: the order's status in place of the task's.
TaskAfterAsOrder(op) == IF op = "progressShippingTask" THEN "DELIVERING" ELSE "COMPLETED"
TaskAfter(op) == IF op = "progressShippingTask" THEN "IN_PROGRESS" ELSE "COMPLETED"

UpdateTask(r, op, o, a) ==
  /\ op \in {"progressShippingTask", "completeShippingTask"}
  /\ tasks[o] # <<>>
  /\ tasks[o][1].status = TaskBefore(op)
  /\ tasks[o][1].assignee = a
  /\ SessionWrite(r, <<"task", o>>)
  /\ Start(r, op, "order", o, Nobody)
  /\ UNCHANGED <<statusVars, tasks, active>>
-----------------------------------------------------------------------------
\* OrderService.cancelOrder, and the notifications (MoMo and PayOS), whose first
\* write of interest here is that of the order.

BeginCancel(r, o) ==
  /\ Start(r, "cancelOrder", "order", o, Nobody)
  /\ UNCHANGED <<statusVars, tasks, active, sessionVars>>

ReceiveWebhook(r, op, o) ==
  /\ op \in {"paid", "failed"}
  /\ orderStatus[o] # "NONE"
  /\ Start(r, op, "order", o, Nobody)
  /\ UNCHANGED <<statusVars, tasks, active, sessionVars>>
-----------------------------------------------------------------------------
\* The order is matched and written in the session: assignDeliveryToOrder,
\* deliveryOrder, completeOrder, cancelOrder, or step 8 of processWebhook.

\* Mutants: a cancellation accepted while the order is delivered; a match that
\* does not look at transactionStatus.
OrderMatchesLate(op, o) ==
  \/ op \in {"paid", "failed"}
  \/ /\ transactionStatus[o] = "CAPTURED"
     /\ orderStatus[o] \in CASE op = "completeShippingTask" -> {"DELIVERING"}
                             [] op = "cancelOrder" -> {"PENDING", "CONFIRMED", "DELIVERING"}
                             [] OTHER -> {"CONFIRMED"}

OrderMatchesUnpaid(op, o) ==
  \/ op \in {"paid", "failed"}
  \/ orderStatus[o] \in CASE op = "completeShippingTask" -> {"DELIVERING"}
                          [] op = "cancelOrder" -> {"PENDING", "CONFIRMED"}
                          [] OTHER -> {"CONFIRMED"}

OrderMatches(op, o) ==
  \/ op \in {"paid", "failed"}
  \/ /\ transactionStatus[o] = "CAPTURED"
     /\ orderStatus[o] \in CASE op = "completeShippingTask" -> {"DELIVERING"}
                             [] op = "cancelOrder" -> {"PENDING", "CONFIRMED"}
                             [] OTHER -> {"CONFIRMED"}

\* Mutant: the optional parameter session is not passed on.
UpdateOrderNoSession(r) ==
  LET op == request[r].op
      o == request[r].order
  IN /\ request[r].at = "order"
     /\ \/ /\ OrderMatches(op, o)
           /\ request' = [request EXCEPT ![r].at = "commit"]
           /\ UNCHANGED <<statusVars, tasks, active, sessionVars>>
        \/ /\ ~OrderMatches(op, o)
           /\ Throw(r)

UpdateOrder(r) ==
  LET op == request[r].op
      o == request[r].order
  IN /\ request[r].at = "order"
     /\ \/ /\ OrderMatches(op, o)
           /\ SessionWrite(r, <<"order", o>>)
           /\ request' = [request EXCEPT ![r].at = "commit"]
           /\ UNCHANGED <<statusVars, tasks, active>>
        \/ /\ ~OrderMatches(op, o) \/ WriteConflict(r, <<"order", o>>)
           /\ Throw(r)                     \* ORDER_STATUS_INVALID, or the conflict

\* Mutant: assignDeliveryToOrder is forgotten.
CommitUnassigned(r) ==
  LET o == request[r].order
  IN /\ request[r].at = "commit"
     /\ request[r].op = "createShippingTask"
     /\ tasks' = [tasks EXCEPT ![o] = Append(@, [status |-> "PENDING", assignee |-> request[r].staff])]
     /\ Finish(r)
     /\ CommitTransaction(r)
     /\ UNCHANGED <<statusVars, active>>

CommitShippingTask(r) ==
  LET o == request[r].order
  IN /\ request[r].at = "commit"
     /\ request[r].op = "createShippingTask"
     /\ tasks' = [tasks EXCEPT ![o] = Append(@, [status |-> "PENDING", assignee |-> request[r].staff])]
     /\ isDeliveryAssigned' = [isDeliveryAssigned EXCEPT ![o] = TRUE]
     /\ Finish(r)
     /\ CommitTransaction(r)
     /\ UNCHANGED <<orderStatus, transactionStatus, active>>

\* Mutant: the newest task of the order is written.
CommitNewestTask(r) ==
  LET o == request[r].order
      op == request[r].op
  IN /\ request[r].at = "commit"
     /\ op \in {"progressShippingTask", "completeShippingTask"}
     /\ tasks' = [tasks EXCEPT ![o][Len(tasks[o])].status = TaskAfter(op)]
     /\ orderStatus' = [orderStatus EXCEPT ![o] =
          IF op = "progressShippingTask" THEN "DELIVERING" ELSE "COMPLETED"]
     /\ Finish(r)
     /\ CommitTransaction(r)
     /\ UNCHANGED <<transactionStatus, isDeliveryAssigned, active>>

CommitTaskUpdate(r) ==
  LET o == request[r].order
      op == request[r].op
  IN /\ request[r].at = "commit"
     /\ op \in {"progressShippingTask", "completeShippingTask"}
     /\ tasks' = [tasks EXCEPT ![o][1].status = TaskAfter(op)]
     /\ orderStatus' = [orderStatus EXCEPT ![o] =
          IF op = "progressShippingTask" THEN "DELIVERING" ELSE "COMPLETED"]
     /\ Finish(r)
     /\ CommitTransaction(r)
     /\ UNCHANGED <<transactionStatus, isDeliveryAssigned, active>>

CommitCancel(r) ==
  LET o == request[r].order
  IN /\ request[r].at = "commit"
     /\ request[r].op = "cancelOrder"
     /\ orderStatus' = [orderStatus EXCEPT ![o] = "CANCELED"]
     /\ transactionStatus' = [transactionStatus EXCEPT ![o] = "CANCELED"]
     /\ Finish(r)
     /\ CommitTransaction(r)
     /\ UNCHANGED <<isDeliveryAssigned, tasks, active>>

CommitWebhook(r) ==
  LET o == request[r].order
  IN /\ request[r].at = "commit"
     /\ request[r].op \in {"paid", "failed"}
     /\ transactionStatus' = [transactionStatus EXCEPT ![o] =
          IF request[r].op = "paid" THEN "CAPTURED" ELSE "ERROR"]
     /\ Finish(r)
     /\ CommitTransaction(r)
     /\ UNCHANGED <<orderStatus, isDeliveryAssigned, tasks, active>>

\* A failing await (the mail of completeShippingTask and cancelOrder comes before
\* the commit) or a killed process: the session is aborted.
Fail(r) == request[r] # Idle /\ Throw(r)
-----------------------------------------------------------------------------
Resume(r) ==
  \/ FindTask(r) \/ InsertTask(r) \/ UpdateOrder(r)
  \/ CommitShippingTask(r) \/ CommitTaskUpdate(r) \/ CommitCancel(r) \/ CommitWebhook(r)

Begin(r) ==
  \E o \in Orders :
    \/ \E a \in DeliveryStaff :
         BeginShippingTask(r, o, a) \/ \E op \in Ops : UpdateTask(r, op, o, a)
    \/ BeginCancel(r, o)
    \/ \E op \in Ops : ReceiveWebhook(r, op, o)

FulfilmentNext ==
  \/ \E r \in Requests : Begin(r) \/ Resume(r) \/ Fail(r)
  \/ \E o \in Orders : CreateOrder(o) \/ ConfirmOrder(o)
  \/ \E a \in DeliveryStaff : DeactivateStaff(a)

FulfilmentSpec == FulfilmentInit /\ [][FulfilmentNext]_fulfilmentVars
-----------------------------------------------------------------------------
\* Properties.

FulfilmentTypeOK ==
  /\ LifecycleTypeOK
  /\ isDeliveryAssigned \in [Orders -> BOOLEAN]
  /\ tasks \in [Orders -> Seq(TaskRecord)]
  /\ active \subseteq DeliveryStaff
  /\ request \in [Requests -> RequestRecord \cup {Idle}]
  /\ \A r \in Requests :
       request[r].op = "createShippingTask" => request[r].staff \in DeliveryStaff
  /\ SessionTypeOK(Documents)

\* What a handler has matched or judged is still true when it commits, however
\* long it is suspended: nobody else can write the documents its session holds.
CheckStillHolds(r) ==
  LET op == request[r].op
      o == request[r].order
  IN /\ request[r].at = "commit" =>
          <<"order", o>> \in held[r] /\ OrderMatches(op, o)
     /\ op \in {"progressShippingTask", "completeShippingTask"} =>
          /\ <<"task", o>> \in held[r]
          /\ tasks[o] # <<>> /\ tasks[o][1].status = TaskBefore(op)
     /\ op \in {"paid", "failed"} => orderStatus[o] # "NONE"

ChecksStillHold == \A r \in Requests : CheckStillHolds(r)

\* The first shipping task and the order tell the same story, although staff,
\* customers' refusals and notifications write them from different handlers: the
\* task is under way exactly while the order is DELIVERING and done exactly when
\* it is COMPLETED; so an order that was picked up cannot have been canceled.
TaskMirrorsOrder ==
  \A o \in Orders :
    /\ orderStatus[o] = "DELIVERING" <=> (tasks[o] # <<>> /\ tasks[o][1].status = "IN_PROGRESS")
    /\ orderStatus[o] = "COMPLETED" <=> (tasks[o] # <<>> /\ tasks[o][1].status = "COMPLETED")

\* isDeliveryAssigned, which the order list is filtered by, is set exactly when
\* the order has a task; and only an order that was confirmed has one.
AssignedHasTask ==
  \A o \in Orders :
    /\ isDeliveryAssigned[o] <=> tasks[o] # <<>>
    /\ tasks[o] # <<>> => orderStatus[o] \notin {"NONE", "PENDING"}

\* A task that lost the race for an order is never worked on: whatever its
\* assignee tries, only the first task moves.
OnlyFirstTaskMoves ==
  \A o \in Orders : \A i \in 2..Len(tasks[o]) : tasks[o][i].status = "PENDING"

\* Whatever the interleaving of the handlers, the two status fields of an order
\* move as OrderLifecycle allows.
ImplementsLifecycle == LifecycleSpec
=============================================================================
