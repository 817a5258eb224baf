------------------------- MODULE Fulfilment_proofs -------------------------
(***************************************************************************)
(* Theorems about Fulfilment, for any number of requests, orders and       *)
(* delivery staff.  Everything rests on one inductive invariant: the       *)
(* sessions are isolated, so what a handler has checked (ChecksStillHold)  *)
(* is true when it commits; so each commit keeps tasks and orders in step. *)
(***************************************************************************)
EXTENDS Fulfilment, SharedLemmas, SequenceTheorems

FulfilmentInv ==
  /\ FulfilmentTypeOK
  /\ SessionsIsolated
  /\ ChecksStillHold
  /\ TaskMirrorsOrder
  /\ AssignedHasTask

\* With no order, no task and no request the invariant holds.
LEMMA FulfilmentInitInv == FulfilmentInit => FulfilmentInv
  <1> SUFFICES ASSUME FulfilmentInit PROVE FulfilmentInv
    OBVIOUS
  <1> USE DEF FulfilmentInit, LifecycleInit
  <1>1. SessionTypeOK(Documents) /\ SessionsIsolated
    BY SessionInitIsolated
  <1>2. FulfilmentTypeOK
    BY <1>1 DEF FulfilmentTypeOK, LifecycleTypeOK, OrderStatuses, TransactionStatuses, Idle
  <1>3. ChecksStillHold
    BY DEF ChecksStillHold, CheckStillHolds, Idle
  <1>4. TaskMirrorsOrder /\ AssignedHasTask
    BY DEF TaskMirrorsOrder, AssignedHasTask
  <1> QED BY <1>1, <1>2, <1>3, <1>4 DEF FulfilmentInv

\* A step of request r alone, which writes no order and no task, keeps the
\* invariant if what r has checked by then holds.
LEMMA OnlyRequest ==
  ASSUME FulfilmentInv, NEW r \in Requests,
         UNCHANGED <<statusVars, tasks, active>>,
         SessionTypeOK(Documents)', SessionsIsolated',
         \A q \in Requests \ {r} : held'[q] = held[q] /\ request'[q] = request[q],
         request' \in [Requests -> RequestRecord \cup {Idle}],
         request'[r].op = "createShippingTask" => request'[r].staff \in DeliveryStaff,
         CheckStillHolds(r)'
  PROVE  FulfilmentInv'
  <1>1. FulfilmentTypeOK'
    BY DEF FulfilmentInv, FulfilmentTypeOK, LifecycleTypeOK, statusVars
  <1>2. \A q \in Requests \ {r} : CheckStillHolds(q)'
    <2> TAKE q \in Requests \ {r}
    <2>1. CheckStillHolds(q)
      BY DEF FulfilmentInv, ChecksStillHold
    <2> QED BY <2>1 DEF CheckStillHolds, OrderMatches, statusVars
  <1> QED BY <1>1, <1>2 DEF FulfilmentInv, ChecksStillHold, TaskMirrorsOrder, AssignedHasTask, statusVars

\* A request that starts.
LEMMA BeginInv ==
  ASSUME FulfilmentInv, NEW r \in Requests, Begin(r)
  PROVE  FulfilmentInv'
  <1>0. /\ request \in [Requests -> RequestRecord \cup {Idle}]
        /\ SessionTypeOK(Documents) /\ SessionsIsolated
        /\ active \subseteq DeliveryStaff
    BY DEF FulfilmentInv, FulfilmentTypeOK
  <1>1. ASSUME NEW op \in Ops, NEW o \in Orders, NEW a \in DeliveryStaff \cup {Nobody},
               NEW at \in {"findTask", "order"}, Start(r, op, at, o, a)
        PROVE  /\ request' \in [Requests -> RequestRecord \cup {Idle}]
               /\ request'[r] = [op |-> op, at |-> at, order |-> o, staff |-> a]
               /\ \A q \in Requests \ {r} : request'[q] = request[q]
    BY <1>0, <1>1 DEF Start, RequestRecord
  <1>2. ASSUME NEW o \in Orders, NEW a \in DeliveryStaff, BeginShippingTask(r, o, a)
        PROVE  FulfilmentInv'
    <2>1. /\ SessionTypeOK(Documents)' /\ SessionsIsolated'
          /\ held' = held
      BY <1>0, <1>2 DEF BeginShippingTask, sessionVars, SessionTypeOK, SessionsIsolated
    <2>2. /\ request' \in [Requests -> RequestRecord \cup {Idle}]
          /\ request'[r] = [op |-> "createShippingTask", at |-> "findTask", order |-> o, staff |-> a]
          /\ \A q \in Requests \ {r} : request'[q] = request[q]
      BY <1>1, <1>2 DEF BeginShippingTask, Ops
    <2>3. CheckStillHolds(r)'
      BY <1>2, <2>2 DEF BeginShippingTask, CheckStillHolds
    <2> QED BY <1>2, <2>1, <2>2, <2>3, OnlyRequest DEF BeginShippingTask
  <1>3. ASSUME NEW o \in Orders, NEW a \in DeliveryStaff, NEW op \in Ops, UpdateTask(r, op, o, a)
        PROVE  FulfilmentInv'
    <2>1. <<"task", o>> \in Documents
      BY DEF Documents
    <2>2. /\ SessionTypeOK(Documents)' /\ SessionsIsolated'
          /\ held'[r] = held[r] \cup {<<"task", o>>}
          /\ \A q \in Requests \ {r} : held'[q] = held[q]
      BY <1>0, <1>3, <2>1, SessionWriteIsolated DEF UpdateTask
    <2>3. /\ request' \in [Requests -> RequestRecord \cup {Idle}]
          /\ request'[r] = [op |-> op, at |-> "order", order |-> o, staff |-> Nobody]
          /\ \A q \in Requests \ {r} : request'[q] = request[q]
      BY <1>1, <1>3 DEF UpdateTask
    <2>4. CheckStillHolds(r)'
      BY <1>3, <2>2, <2>3 DEF UpdateTask, CheckStillHolds, TaskBefore
    <2> QED BY <1>3, <2>2, <2>3, <2>4, OnlyRequest DEF UpdateTask
  <1>4. ASSUME NEW o \in Orders, BeginCancel(r, o)
        PROVE  FulfilmentInv'
    <2>1. /\ SessionTypeOK(Documents)' /\ SessionsIsolated'
          /\ held' = held
      BY <1>0, <1>4 DEF BeginCancel, sessionVars, SessionTypeOK, SessionsIsolated
    <2>2. /\ request' \in [Requests -> RequestRecord \cup {Idle}]
          /\ request'[r] = [op |-> "cancelOrder", at |-> "order", order |-> o, staff |-> Nobody]
          /\ \A q \in Requests \ {r} : request'[q] = request[q]
      BY <1>1, <1>4 DEF BeginCancel, Ops
    <2>3. CheckStillHolds(r)'
      BY <1>4, <2>2 DEF BeginCancel, CheckStillHolds
    <2> QED BY <1>4, <2>1, <2>2, <2>3, OnlyRequest DEF BeginCancel
  <1>5. ASSUME NEW o \in Orders, NEW op \in Ops, ReceiveWebhook(r, op, o)
        PROVE  FulfilmentInv'
    <2>1. /\ SessionTypeOK(Documents)' /\ SessionsIsolated'
          /\ held' = held
      BY <1>0, <1>5 DEF ReceiveWebhook, sessionVars, SessionTypeOK, SessionsIsolated
    <2>2. /\ request' \in [Requests -> RequestRecord \cup {Idle}]
          /\ request'[r] = [op |-> op, at |-> "order", order |-> o, staff |-> Nobody]
          /\ \A q \in Requests \ {r} : request'[q] = request[q]
      BY <1>1, <1>5 DEF ReceiveWebhook, Ops
    <2>3. CheckStillHolds(r)'
      BY <1>5, <2>2 DEF ReceiveWebhook, CheckStillHolds, statusVars
    <2> QED BY <1>5, <2>1, <2>2, <2>3, OnlyRequest DEF ReceiveWebhook
  <1> QED BY <1>2, <1>3, <1>4, <1>5 DEF Begin

\* A request that throws leaves nothing behind.
LEMMA ThrowInv ==
  ASSUME FulfilmentInv, NEW r \in Requests, Throw(r)
  PROVE  FulfilmentInv'
  <1>1. /\ SessionTypeOK(Documents)' /\ SessionsIsolated'
        /\ \A q \in Requests \ {r} : held'[q] = held[q]
    BY AbortIsolated DEF Throw, FulfilmentInv, FulfilmentTypeOK
  <1>2. /\ request' \in [Requests -> RequestRecord \cup {Idle}]
        /\ request'[r] = Idle
        /\ \A q \in Requests \ {r} : request'[q] = request[q]
    BY DEF Throw, Finish, FulfilmentInv, FulfilmentTypeOK
  <1>3. CheckStillHolds(r)'
    BY <1>2 DEF CheckStillHolds, Idle
  <1> QED BY <1>1, <1>2, <1>3, OnlyRequest DEF Throw, Idle

\* The steps of a request between its start and its commit.
LEMMA SuspendedInv ==
  ASSUME FulfilmentInv, NEW r \in Requests, FindTask(r) \/ InsertTask(r) \/ UpdateOrder(r)
  PROVE  FulfilmentInv'
  <1>0. /\ request \in [Requests -> RequestRecord \cup {Idle}]
        /\ SessionTypeOK(Documents) /\ SessionsIsolated
        /\ request[r].op = "createShippingTask" => request[r].staff \in DeliveryStaff
        /\ CheckStillHolds(r)
    BY DEF FulfilmentInv, FulfilmentTypeOK, ChecksStillHold
  <1>1. request[r] \in RequestRecord
    BY <1>0 DEF FindTask, InsertTask, UpdateOrder, Idle
  <1>2. ASSUME NEW at \in {"insert", "order", "commit"}, request' = [request EXCEPT ![r].at = at]
        PROVE  /\ request' \in [Requests -> RequestRecord \cup {Idle}]
               /\ request'[r].at = at
               /\ request'[r].op = request[r].op
               /\ request'[r].order = request[r].order
               /\ request'[r].staff = request[r].staff
               /\ \A q \in Requests \ {r} : request'[q] = request[q]
    BY <1>0, <1>1, <1>2 DEF RequestRecord
  <1>3. CASE FindTask(r) /\ Finish(r)
    <2>1. /\ request' \in [Requests -> RequestRecord \cup {Idle}]
          /\ request'[r] = Idle
          /\ \A q \in Requests \ {r} : request'[q] = request[q]
      BY <1>0, <1>3 DEF Finish
    <2>2. CheckStillHolds(r)'
      BY <2>1 DEF CheckStillHolds, Idle
    <2> QED BY <1>0, <1>3, <2>1, <2>2, OnlyRequest
            DEF FindTask, Idle, sessionVars, SessionTypeOK, SessionsIsolated
  <1>4. CASE FindTask(r) /\ ~Finish(r)
    <2>1. request' = [request EXCEPT ![r].at = "insert"] /\ UNCHANGED <<statusVars, tasks, active, sessionVars>>
      BY <1>4 DEF FindTask
    <2>2. CheckStillHolds(r)'
      BY <1>0, <1>2, <2>1 DEF CheckStillHolds, statusVars, sessionVars
    <2> QED BY <1>0, <1>2, <2>1, <2>2, OnlyRequest DEF sessionVars, SessionTypeOK, SessionsIsolated
  <1>5. CASE InsertTask(r)
    <2>1. <<"newTask", r>> \in Documents
      BY DEF Documents
    <2>2. /\ SessionTypeOK(Documents)' /\ SessionsIsolated'
          /\ held'[r] = held[r] \cup {<<"newTask", r>>}
          /\ \A q \in Requests \ {r} : held'[q] = held[q]
      BY <1>0, <1>5, <2>1, SessionWriteIsolated DEF InsertTask
    <2>3. CheckStillHolds(r)'
      BY <1>0, <1>2, <1>5, <2>2 DEF InsertTask, CheckStillHolds, statusVars
    <2> QED BY <1>0, <1>2, <1>5, <2>2, <2>3, OnlyRequest DEF InsertTask
  <1>6. CASE UpdateOrder(r) /\ ~Throw(r)
    <2> DEFINE o == request[r].order
    <2>1. /\ OrderMatches(request[r].op, o)
          /\ SessionWrite(r, <<"order", o>>)
          /\ request' = [request EXCEPT ![r].at = "commit"]
          /\ UNCHANGED <<statusVars, tasks, active>>
      BY <1>6 DEF UpdateOrder
    <2>2. <<"order", o>> \in Documents
      BY <1>1 DEF Documents, RequestRecord
    <2>3. /\ SessionTypeOK(Documents)' /\ SessionsIsolated'
          /\ held'[r] = held[r] \cup {<<"order", o>>}
          /\ \A q \in Requests \ {r} : held'[q] = held[q]
      BY <1>0, <2>1, <2>2, SessionWriteIsolated
    <2>4. CheckStillHolds(r)'
      BY <1>0, <1>2, <2>1, <2>3 DEF CheckStillHolds, statusVars, OrderMatches
    <2> QED BY <1>0, <1>2, <2>1, <2>3, <2>4, OnlyRequest
  <1> QED BY <1>3, <1>4, <1>5, <1>6, ThrowInv


\* What every commit has in common: the order it writes is held by r alone, so
\* the checks of the other requests are about other orders and other tasks.
LEMMA CommitFacts ==
  ASSUME FulfilmentInv, NEW r \in Requests, request[r].at = "commit",
         Finish(r), CommitTransaction(r)
  PROVE  /\ request[r] \in RequestRecord
         /\ OrderMatches(request[r].op, request[r].order)
         /\ SessionTypeOK(Documents)' /\ SessionsIsolated'
         /\ request' \in [Requests -> RequestRecord \cup {Idle}]
         /\ request'[r] = Idle
         /\ \A q \in Requests \ {r} :
              /\ held'[q] = held[q] /\ request'[q] = request[q]
              /\ request[q].at = "commit" => request[q].order # request[r].order
              /\ ~({request[q].op, request[r].op}
                     \subseteq {"progressShippingTask", "completeShippingTask"}
                   /\ request[q].order = request[r].order)
  <1>0. /\ request \in [Requests -> RequestRecord \cup {Idle}]
        /\ SessionTypeOK(Documents) /\ SessionsIsolated /\ ChecksStillHold
    BY DEF FulfilmentInv, FulfilmentTypeOK
  <1>1. request[r] \in RequestRecord
    BY <1>0 DEF Idle
  <1>2. /\ request' \in [Requests -> RequestRecord \cup {Idle}]
        /\ request'[r] = Idle
        /\ \A q \in Requests \ {r} : request'[q] = request[q]
    BY <1>0 DEF Finish
  <1>3. /\ SessionTypeOK(Documents)' /\ SessionsIsolated'
        /\ \A q \in Requests \ {r} : held'[q] = held[q]
    BY <1>0, CommitIsolated
  <1>4. /\ OrderMatches(request[r].op, request[r].order)
        /\ <<"order", request[r].order>> \in held[r]
    BY <1>0 DEF ChecksStillHold, CheckStillHolds
  <1>5. ASSUME NEW q \in Requests \ {r}
        PROVE  /\ request[q].at = "commit" => request[q].order # request[r].order
               /\ ~({request[q].op, request[r].op}
                      \subseteq {"progressShippingTask", "completeShippingTask"}
                    /\ request[q].order = request[r].order)
    <2>1. held[q] \cap held[r] = {}
      BY <1>0 DEF SessionsIsolated
    <2>2. CheckStillHolds(q) /\ CheckStillHolds(r)
      BY <1>0 DEF ChecksStillHold
    <2> QED BY <1>4, <2>1, <2>2 DEF CheckStillHolds
  <1> QED BY <1>1, <1>2, <1>3, <1>4, <1>5

\* The commit of createShippingTask appends a task and sets isDeliveryAssigned; the
\* order it holds is still CONFIRMED, so a first task starts in step with it.
LEMMA CommitShippingTaskInv ==
  ASSUME FulfilmentInv, NEW r \in Requests, CommitShippingTask(r)
  PROVE  FulfilmentInv'
  <1> DEFINE o == request[r].order
             task == [status |-> "PENDING", assignee |-> request[r].staff]
  <1>1. /\ FulfilmentTypeOK /\ ChecksStillHold /\ TaskMirrorsOrder /\ AssignedHasTask
        /\ orderStatus' = orderStatus /\ transactionStatus' = transactionStatus
        /\ active' = active
        /\ isDeliveryAssigned' = [isDeliveryAssigned EXCEPT ![o] = TRUE]
        /\ tasks' = [tasks EXCEPT ![o] = Append(@, task)]
    BY DEF FulfilmentInv, CommitShippingTask
  <1>2. /\ request[r] \in RequestRecord /\ OrderMatches("createShippingTask", o)
        /\ SessionTypeOK(Documents)' /\ SessionsIsolated'
        /\ request' \in [Requests -> RequestRecord \cup {Idle}] /\ request'[r] = Idle
        /\ \A q \in Requests \ {r} :
             held'[q] = held[q] /\ request'[q] = request[q]
    BY CommitFacts DEF CommitShippingTask
  <1>3. o \in Orders /\ task \in TaskRecord /\ orderStatus[o] = "CONFIRMED"
    BY <1>1, <1>2 DEF CommitShippingTask, FulfilmentTypeOK, RequestRecord, TaskRecord, OrderMatches
  <1>4. /\ tasks' \in [Orders -> Seq(TaskRecord)]
        /\ \A p \in Orders : /\ tasks[p] # <<>> => tasks'[p][1] = tasks[p][1] /\ tasks'[p] # <<>>
                             /\ p # o => tasks'[p] = tasks[p]
        /\ tasks'[o] # <<>>
        /\ tasks[o] = <<>> => tasks'[o][1].status = "PENDING"
    <2>1. tasks \in [Orders -> Seq(TaskRecord)]
      BY <1>1 DEF FulfilmentTypeOK
    <2>2. tasks'[o] = Append(tasks[o], task) /\ \A p \in Orders \ {o} : tasks'[p] = tasks[p]
      BY <1>1, <1>3, <2>1
    <2>3. tasks[o] # <<>> => Append(tasks[o], task)[1] = tasks[o][1]
      BY <1>3, <2>1
    <2>4. tasks[o] = <<>> => Append(tasks[o], task)[1] = task
      BY <1>3, <2>1
    <2>5. Append(tasks[o], task) # <<>> /\ Append(tasks[o], task) \in Seq(TaskRecord)
      <3>1. tasks[o] \in Seq(TaskRecord) /\ task \in TaskRecord
        BY <1>3, <2>1
      <3> QED BY <3>1, AppendProperties
    <2>6. tasks' \in [Orders -> Seq(TaskRecord)]
      BY <1>1, <2>1, <2>5
    <2>7. /\ tasks'[o] # <<>>
          /\ tasks[o] # <<>> => tasks'[o][1] = tasks[o][1]
          /\ tasks[o] = <<>> => tasks'[o][1].status = "PENDING"
      BY <2>2, <2>3, <2>4, <2>5
    <2> QED BY <1>3, <2>2, <2>6, <2>7
  <1>5. FulfilmentTypeOK'
    <2>1. isDeliveryAssigned' \in [Orders -> BOOLEAN] /\ LifecycleTypeOK'
      BY <1>1, <1>3 DEF FulfilmentTypeOK, LifecycleTypeOK
    <2>2. \A q \in Requests :
            request'[q].op = "createShippingTask" => request'[q].staff \in DeliveryStaff
      BY <1>1, <1>2 DEF FulfilmentTypeOK, Idle
    <2> QED BY <1>1, <1>2, <1>4, <2>1, <2>2 DEF FulfilmentTypeOK
  <1>6. ChecksStillHold'
    <2>1. CheckStillHolds(r)'
      BY <1>2 DEF CheckStillHolds, Idle
    <2>2. ASSUME NEW q \in Requests \ {r} PROVE CheckStillHolds(q)'
      <3>1. CheckStillHolds(q)
        BY <1>1 DEF ChecksStillHold
      <3>2. request[q].op \in {"progressShippingTask", "completeShippingTask"} =>
              request[q].order \in Orders
        BY <1>1 DEF FulfilmentTypeOK, RequestRecord, Idle
      <3> QED BY <1>1, <1>2, <1>4, <3>1, <3>2 DEF CheckStillHolds, OrderMatches
    <2> QED BY <2>1, <2>2 DEF ChecksStillHold
  <1>7. TaskMirrorsOrder'
    <2> SUFFICES ASSUME NEW p \in Orders
                 PROVE  /\ orderStatus[p] = "DELIVERING" <=>
                             (tasks'[p] # <<>> /\ tasks'[p][1].status = "IN_PROGRESS")
                        /\ orderStatus[p] = "COMPLETED" <=>
                             (tasks'[p] # <<>> /\ tasks'[p][1].status = "COMPLETED")
      BY <1>1 DEF TaskMirrorsOrder
    <2> QED BY <1>1, <1>3, <1>4 DEF TaskMirrorsOrder
  <1>8. AssignedHasTask'
    BY <1>1, <1>3, <1>4 DEF AssignedHasTask, FulfilmentTypeOK
  <1> QED BY <1>2, <1>5, <1>6, <1>7, <1>8 DEF FulfilmentInv

\* The commit of progressShippingTask or completeShippingTask moves the first task
\* and the order together, from statuses that were judged and still hold.
LEMMA CommitTaskUpdateInv ==
  ASSUME FulfilmentInv, NEW r \in Requests, CommitTaskUpdate(r)
  PROVE  FulfilmentInv'
  <1> DEFINE o == request[r].order
             op == request[r].op
  <1>1. /\ FulfilmentTypeOK /\ ChecksStillHold /\ TaskMirrorsOrder /\ AssignedHasTask
        /\ op \in {"progressShippingTask", "completeShippingTask"}
        /\ transactionStatus' = transactionStatus /\ isDeliveryAssigned' = isDeliveryAssigned
        /\ active' = active
        /\ tasks' = [tasks EXCEPT ![o][1].status = TaskAfter(op)]
        /\ orderStatus' = [orderStatus EXCEPT ![o] =
             IF op = "progressShippingTask" THEN "DELIVERING" ELSE "COMPLETED"]
    BY DEF FulfilmentInv, CommitTaskUpdate
  <1>2. /\ request[r] \in RequestRecord /\ OrderMatches(op, o)
        /\ SessionTypeOK(Documents)' /\ SessionsIsolated'
        /\ request' \in [Requests -> RequestRecord \cup {Idle}] /\ request'[r] = Idle
        /\ \A q \in Requests \ {r} :
             /\ held'[q] = held[q] /\ request'[q] = request[q]
             /\ request[q].at = "commit" => request[q].order # o
             /\ request[q].op \in {"progressShippingTask", "completeShippingTask"} =>
                  request[q].order # o
    BY <1>1, CommitFacts DEF CommitTaskUpdate
  <1>3. /\ o \in Orders
        /\ tasks[o] # <<>> /\ tasks[o][1].status = TaskBefore(op)
        /\ orderStatus[o] = IF op = "progressShippingTask" THEN "CONFIRMED" ELSE "DELIVERING"
    BY <1>1, <1>2 DEF RequestRecord, ChecksStillHold, CheckStillHolds, OrderMatches
  <1>4. /\ tasks' \in [Orders -> Seq(TaskRecord)]
        /\ \A p \in Orders \ {o} : tasks'[p] = tasks[p]
        /\ tasks'[o] # <<>>
        /\ tasks'[o][1].status = TaskAfter(op)
    <2>1. tasks[o] \in Seq(TaskRecord) /\ Len(tasks[o]) \in Nat \ {0} /\ tasks[o][1] \in TaskRecord
      BY <1>1, <1>3 DEF FulfilmentTypeOK
    <2>2. TaskAfter(op) \in {"PENDING", "IN_PROGRESS", "COMPLETED"}
      BY DEF TaskAfter
    <2>3. [tasks[o][1] EXCEPT !.status = TaskAfter(op)] \in TaskRecord
      BY <2>1, <2>2 DEF TaskRecord
    <2>4. /\ [tasks[o] EXCEPT ![1].status = TaskAfter(op)] \in Seq(TaskRecord)
          /\ Len([tasks[o] EXCEPT ![1].status = TaskAfter(op)]) = Len(tasks[o])
          /\ [tasks[o] EXCEPT ![1].status = TaskAfter(op)][1].status = TaskAfter(op)
      BY <2>1, <2>3 DEF TaskRecord
    <2>5. /\ tasks'[o] = [tasks[o] EXCEPT ![1].status = TaskAfter(op)]
          /\ \A p \in Orders \ {o} : tasks'[p] = tasks[p]
      BY <1>1, <1>3 DEF FulfilmentTypeOK
    <2>6. tasks' \in [Orders -> Seq(TaskRecord)]
      BY <1>1, <2>4 DEF FulfilmentTypeOK
    <2> QED BY <2>1, <2>4, <2>5, <2>6
  <1>5. FulfilmentTypeOK'
    BY <1>1, <1>2, <1>3, <1>4 DEF FulfilmentTypeOK, LifecycleTypeOK, OrderStatuses, Idle
  <1>6. ChecksStillHold'
    <2>1. CheckStillHolds(r)'
      BY <1>2 DEF CheckStillHolds, Idle
    <2>2. ASSUME NEW q \in Requests \ {r} PROVE CheckStillHolds(q)'
      <3>1. CheckStillHolds(q) /\ (request[q] = Idle \/ request[q].order \in Orders)
        BY <1>1 DEF ChecksStillHold, FulfilmentTypeOK, RequestRecord
      <3>2. request[q].op \in {"paid", "failed"} => orderStatus'[request[q].order] # "NONE"
        BY <1>1, <1>3, <3>1 DEF CheckStillHolds, Idle, FulfilmentTypeOK, LifecycleTypeOK
      <3>3. request[q].at = "commit" =>
              /\ orderStatus'[request[q].order] = orderStatus[request[q].order]
              /\ transactionStatus'[request[q].order] = transactionStatus[request[q].order]
        BY <1>1, <1>2, <1>3, <3>1 DEF Idle, FulfilmentTypeOK, LifecycleTypeOK
      <3>4. request[q].at = "commit" => OrderMatches(request[q].op, request[q].order)'
        BY <1>2, <3>1, <3>3 DEF CheckStillHolds, OrderMatches
      <3>5. request[q].op \in {"progressShippingTask", "completeShippingTask"} =>
              tasks'[request[q].order] = tasks[request[q].order]
        BY <1>2, <1>4, <3>1 DEF Idle
      <3> QED BY <1>2, <3>1, <3>2, <3>4, <3>5 DEF CheckStillHolds
    <2> QED BY <2>1, <2>2 DEF ChecksStillHold
  <1>7. \A p \in Orders \ {o} : orderStatus'[p] = orderStatus[p]
    BY <1>1 DEF FulfilmentTypeOK, LifecycleTypeOK
  <1>8. orderStatus'[o] = IF op = "progressShippingTask" THEN "DELIVERING" ELSE "COMPLETED"
    BY <1>1, <1>3 DEF FulfilmentTypeOK, LifecycleTypeOK
  <1>9. TaskMirrorsOrder'
    <2> SUFFICES ASSUME NEW p \in Orders
                 PROVE  /\ orderStatus'[p] = "DELIVERING" <=>
                             (tasks'[p] # <<>> /\ tasks'[p][1].status = "IN_PROGRESS")
                        /\ orderStatus'[p] = "COMPLETED" <=>
                             (tasks'[p] # <<>> /\ tasks'[p][1].status = "COMPLETED")
      BY DEF TaskMirrorsOrder
    <2>1. CASE p = o
      BY <1>1, <1>4, <1>8, <2>1 DEF TaskAfter
    <2>2. CASE p # o
      BY <1>1, <1>4, <1>7, <2>2 DEF TaskMirrorsOrder
    <2> QED BY <2>1, <2>2
  <1>10. AssignedHasTask'
    BY <1>1, <1>3, <1>4, <1>7, <1>8 DEF AssignedHasTask
  <1> QED BY <1>2, <1>5, <1>6, <1>9, <1>10 DEF FulfilmentInv

\* Cancellation and notification write no task: enough that the order's
\* status is left alone, or moves between statuses no task is to be seen in.
LEMMA CommitStatusInv ==
  ASSUME FulfilmentInv, NEW r \in Requests, NEW o, o = request[r].order,
         request[r].at = "commit", Finish(r), CommitTransaction(r),
         UNCHANGED <<isDeliveryAssigned, tasks, active>>,
         NEW os \in OrderStatuses, NEW ts \in TransactionStatuses,
         orderStatus' = [orderStatus EXCEPT ![o] = os],
         transactionStatus' = [transactionStatus EXCEPT ![o] = ts],
         os # orderStatus[o] =>
           /\ orderStatus[o] \notin {"NONE", "DELIVERING", "COMPLETED"}
           /\ os \notin {"NONE", "PENDING", "DELIVERING", "COMPLETED"}
  PROVE  FulfilmentInv'
  <1>1. /\ FulfilmentTypeOK /\ ChecksStillHold /\ TaskMirrorsOrder /\ AssignedHasTask
    BY DEF FulfilmentInv
  <1>2. /\ request[r] \in RequestRecord
        /\ SessionTypeOK(Documents)' /\ SessionsIsolated'
        /\ request' \in [Requests -> RequestRecord \cup {Idle}] /\ request'[r] = Idle
        /\ \A q \in Requests \ {r} :
             /\ held'[q] = held[q] /\ request'[q] = request[q]
             /\ request[q].at = "commit" => request[q].order # o
    BY CommitFacts
  <1>3. /\ o \in Orders
        /\ orderStatus'[o] = os /\ transactionStatus'[o] = ts
        /\ \A p \in Orders \ {o} : /\ orderStatus'[p] = orderStatus[p]
                                   /\ transactionStatus'[p] = transactionStatus[p]
        /\ LifecycleTypeOK'
    BY <1>1, <1>2 DEF RequestRecord, FulfilmentTypeOK, LifecycleTypeOK
  <1>4. FulfilmentTypeOK'
    <2>1. \A q \in Requests :
            request'[q].op = "createShippingTask" => request'[q].staff \in DeliveryStaff
      BY <1>1, <1>2 DEF FulfilmentTypeOK, Idle
    <2> QED BY <1>1, <1>2, <1>3, <2>1 DEF FulfilmentTypeOK
  <1>5. ChecksStillHold'
    <2>1. CheckStillHolds(r)'
      BY <1>2 DEF CheckStillHolds, Idle
    <2>2. ASSUME NEW q \in Requests \ {r} PROVE CheckStillHolds(q)'
      <3>1. CheckStillHolds(q) /\ (request[q] = Idle \/ request[q].order \in Orders)
        BY <1>1 DEF ChecksStillHold, FulfilmentTypeOK, RequestRecord
      <3>2. request[q].op \in {"paid", "failed"} => orderStatus'[request[q].order] # "NONE"
        BY <1>3, <3>1 DEF CheckStillHolds, Idle
      <3>3. request[q].at = "commit" => OrderMatches(request[q].op, request[q].order)'
        BY <1>2, <1>3, <3>1 DEF CheckStillHolds, OrderMatches, Idle
      <3> QED BY <1>2, <3>1, <3>2, <3>3 DEF CheckStillHolds
    <2> QED BY <2>1, <2>2 DEF ChecksStillHold
  <1>6. TaskMirrorsOrder'
    <2> SUFFICES ASSUME NEW p \in Orders
                 PROVE  /\ orderStatus'[p] = "DELIVERING" <=>
                             (tasks[p] # <<>> /\ tasks[p][1].status = "IN_PROGRESS")
                        /\ orderStatus'[p] = "COMPLETED" <=>
                             (tasks[p] # <<>> /\ tasks[p][1].status = "COMPLETED")
      BY DEF TaskMirrorsOrder
    <2> QED BY <1>1, <1>3 DEF TaskMirrorsOrder
  <1>7. AssignedHasTask'
    BY <1>1, <1>3 DEF AssignedHasTask
  <1> QED BY <1>2, <1>4, <1>5, <1>6, <1>7 DEF FulfilmentInv

\* The commit of cancelOrder finds the order PENDING or CONFIRMED, where no task
\* is under way.
LEMMA CommitCancelInv ==
  ASSUME FulfilmentInv, NEW r \in Requests, CommitCancel(r)
  PROVE  FulfilmentInv'
  <1>1. OrderMatches("cancelOrder", request[r].order)
    BY CommitFacts DEF CommitCancel
  <1>2. orderStatus[request[r].order] \in {"PENDING", "CONFIRMED"}
    BY <1>1 DEF OrderMatches
  <1> QED BY <1>2, CommitStatusInv DEF CommitCancel, OrderStatuses, TransactionStatuses

\* The commit of a notification writes transactionStatus only.
LEMMA CommitWebhookInv ==
  ASSUME FulfilmentInv, NEW r \in Requests, CommitWebhook(r)
  PROVE  FulfilmentInv'
  <1> DEFINE o == request[r].order
             ts == IF request[r].op = "paid" THEN "CAPTURED" ELSE "ERROR"
  <1>1. request[r] \in RequestRecord /\ orderStatus \in [Orders -> OrderStatuses]
    BY CommitFacts DEF CommitWebhook, FulfilmentInv, FulfilmentTypeOK, LifecycleTypeOK
  <1>2. o \in Orders /\ orderStatus[o] \in OrderStatuses /\ ts \in TransactionStatuses
    BY <1>1 DEF RequestRecord, TransactionStatuses
  <1>3. orderStatus' = [orderStatus EXCEPT ![o] = orderStatus[o]]
    BY <1>1 DEF CommitWebhook
  <1> QED BY <1>2, <1>3, CommitStatusInv DEF CommitWebhook

\* A new order is in the hands of no handler and has no task.
LEMMA CreateOrderInv ==
  ASSUME FulfilmentInv, NEW o \in Orders, CreateOrder(o)
  PROVE  FulfilmentInv'
  <1>1. /\ FulfilmentTypeOK /\ ChecksStillHold /\ TaskMirrorsOrder /\ AssignedHasTask
        /\ SessionsIsolated
    BY DEF FulfilmentInv
  <1>2. /\ orderStatus[o] = "NONE"
        /\ orderStatus'[o] = "PENDING"
        /\ \A p \in Orders \ {o} : /\ orderStatus'[p] = orderStatus[p]
                                   /\ transactionStatus'[p] = transactionStatus[p]
        /\ LifecycleTypeOK'
    BY <1>1 DEF CreateOrder, Place, FulfilmentTypeOK, LifecycleTypeOK, OrderStatuses, TransactionStatuses
  <1>3. FulfilmentTypeOK' /\ SessionsIsolated'
    BY <1>1, <1>2 DEF CreateOrder, FulfilmentTypeOK, SessionsIsolated, SessionTypeOK, sessionVars
  <1>4. ASSUME NEW q \in Requests PROVE CheckStillHolds(q)'
    <2>1. CheckStillHolds(q) /\ (request[q] = Idle \/ request[q] \in RequestRecord)
      BY <1>1 DEF ChecksStillHold, FulfilmentTypeOK
    <2>2. request[q].op \in {"paid", "failed"} => request[q].order \in Orders \ {o}
      BY <1>2, <2>1 DEF CheckStillHolds, Idle, RequestRecord
    <2>3. request[q].at = "commit" => request[q].order \in Orders \ {o}
      BY <1>2, <2>1, <2>2 DEF CheckStillHolds, OrderMatches, Idle, RequestRecord
    <2> QED BY <1>2, <2>1, <2>2, <2>3 DEF CreateOrder, CheckStillHolds, OrderMatches, sessionVars
  <1>5. TaskMirrorsOrder' /\ AssignedHasTask'
    <2>1. tasks' = tasks /\ isDeliveryAssigned' = isDeliveryAssigned
      BY DEF CreateOrder
    <2>2. tasks[o] = <<>>
      BY <1>1, <1>2 DEF AssignedHasTask
    <2>3. TaskMirrorsOrder'
      BY <1>1, <1>2, <2>1, <2>2 DEF TaskMirrorsOrder
    <2> QED BY <1>1, <1>2, <2>1, <2>2, <2>3 DEF AssignedHasTask
  <1> QED BY <1>3, <1>4, <1>5 DEF FulfilmentInv, ChecksStillHold

\* A confirmation waits for the handler that has written the order, so it
\* disturbs no check; and a PENDING order has no task.
LEMMA ConfirmOrderInv ==
  ASSUME FulfilmentInv, NEW o \in Orders, ConfirmOrder(o)
  PROVE  FulfilmentInv'
  <1>1. /\ FulfilmentTypeOK /\ ChecksStillHold /\ TaskMirrorsOrder /\ AssignedHasTask
        /\ SessionsIsolated /\ SessionTypeOK(Documents)
    BY DEF FulfilmentInv, FulfilmentTypeOK
  <1>2. /\ orderStatus[o] = "PENDING"
        /\ orderStatus'[o] = "CONFIRMED"
        /\ transactionStatus' = transactionStatus
        /\ \A p \in Orders \ {o} : orderStatus'[p] = orderStatus[p]
        /\ LifecycleTypeOK'
    BY <1>1 DEF ConfirmOrder, Advance, FulfilmentTypeOK, LifecycleTypeOK, OrderStatuses
  <1>3. <<"order", o>> \in Documents
    BY DEF Documents
  <1>4. /\ SessionTypeOK(Documents)' /\ SessionsIsolated' /\ held' = held
        /\ \A q \in Requests : <<"order", o>> \notin held[q]
    BY <1>1, <1>3, DirectWriteIsolated DEF ConfirmOrder
  <1>5. FulfilmentTypeOK'
    BY <1>1, <1>2, <1>4 DEF ConfirmOrder, FulfilmentTypeOK
  <1>6. ASSUME NEW q \in Requests PROVE CheckStillHolds(q)'
    <2>1. CheckStillHolds(q) /\ (request[q] = Idle \/ request[q].order \in Orders)
      BY <1>1 DEF ChecksStillHold, FulfilmentTypeOK, RequestRecord
    <2>2. request[q].op \in {"paid", "failed"} => orderStatus'[request[q].order] # "NONE"
      BY <1>2, <2>1 DEF CheckStillHolds, Idle
    <2>3. request[q].at = "commit" => request[q].order \in Orders \ {o}
      BY <1>4, <2>1 DEF CheckStillHolds, Idle
    <2> QED BY <1>2, <1>4, <2>1, <2>2, <2>3 DEF ConfirmOrder, CheckStillHolds, OrderMatches
  <1>7. TaskMirrorsOrder' /\ AssignedHasTask'
    <2>1. tasks' = tasks /\ isDeliveryAssigned' = isDeliveryAssigned
      BY DEF ConfirmOrder
    <2>2. tasks[o] = <<>>
      BY <1>1, <1>2 DEF AssignedHasTask
    <2>3. TaskMirrorsOrder'
      BY <1>1, <1>2, <2>1, <2>2 DEF TaskMirrorsOrder
    <2> QED BY <1>1, <1>2, <2>1, <2>2, <2>3 DEF AssignedHasTask
  <1> QED BY <1>4, <1>5, <1>6, <1>7 DEF FulfilmentInv, ChecksStillHold

\* The invariant is inductive.
LEMMA FulfilmentNextInv ==
  ASSUME FulfilmentInv, [FulfilmentNext]_fulfilmentVars
  PROVE  FulfilmentInv'
  <1>1. ASSUME NEW r \in Requests, Begin(r) \/ Resume(r) \/ Fail(r)
        PROVE  FulfilmentInv'
    BY <1>1, BeginInv, SuspendedInv, CommitShippingTaskInv, CommitTaskUpdateInv,
       CommitCancelInv, CommitWebhookInv, ThrowInv DEF Resume, Fail
  <1>2. ASSUME NEW o \in Orders, CreateOrder(o) \/ ConfirmOrder(o)
        PROVE  FulfilmentInv'
    BY <1>2, CreateOrderInv, ConfirmOrderInv
  <1>3. CASE \/ \E a \in DeliveryStaff : DeactivateStaff(a)
             \/ UNCHANGED fulfilmentVars
    <2>1. /\ UNCHANGED <<statusVars, tasks, request, sessionVars>>
          /\ active' \subseteq DeliveryStaff
      BY <1>3 DEF DeactivateStaff, fulfilmentVars, FulfilmentInv, FulfilmentTypeOK
    <2>2. FulfilmentTypeOK' /\ SessionsIsolated'
      BY <2>1 DEF FulfilmentInv, FulfilmentTypeOK, LifecycleTypeOK, SessionTypeOK,
                  SessionsIsolated, statusVars, sessionVars
    <2>3. ChecksStillHold'
      BY <2>1 DEF FulfilmentInv, ChecksStillHold, CheckStillHolds, OrderMatches, statusVars, sessionVars
    <2>4. TaskMirrorsOrder' /\ AssignedHasTask'
      BY <2>1 DEF FulfilmentInv, TaskMirrorsOrder, AssignedHasTask, statusVars
    <2> QED BY <2>2, <2>3, <2>4 DEF FulfilmentInv
  <1> QED BY <1>1, <1>2, <1>3 DEF FulfilmentNext

\* The invariant holds in every reachable state.
LEMMA FulfilmentAlways == FulfilmentSpec => []FulfilmentInv
  <1>1. FulfilmentInv /\ [FulfilmentNext]_fulfilmentVars => FulfilmentInv'
    BY FulfilmentNextInv
  <1> QED BY FulfilmentInitInv, <1>1, PTL DEF FulfilmentSpec

\* Whatever the handlers do, and however many run, the documents keep their types.
THEOREM FulfilmentTypeCorrect == FulfilmentSpec => []FulfilmentTypeOK
  <1>1. FulfilmentInv => FulfilmentTypeOK
    BY DEF FulfilmentInv
  <1> QED BY <1>1, FulfilmentAlways, PTL

\* A handler that has matched an order or judged a task and is then suspended at
\* an await commits on facts that are still true (task.service.ts, order.service.ts).
THEOREM ChecksHoldUntilCommit == FulfilmentSpec => []ChecksStillHold
  <1>1. FulfilmentInv => ChecksStillHold
    BY DEF FulfilmentInv
  <1> QED BY <1>1, FulfilmentAlways, PTL

\* progressShippingTask, completeShippingTask, cancelOrder and the notifications
\* of the payment provider never bring an order and its task out of step.
THEOREM TasksMirrorOrders == FulfilmentSpec => []TaskMirrorsOrder
  <1>1. FulfilmentInv => TaskMirrorsOrder
    BY DEF FulfilmentInv
  <1> QED BY <1>1, FulfilmentAlways, PTL

\* isDeliveryAssigned says whether createShippingTask has given the order a task.
THEOREM AssignedOrdersHaveTasks == FulfilmentSpec => []AssignedHasTask
  <1>1. FulfilmentInv => AssignedHasTask
    BY DEF FulfilmentInv
  <1> QED BY <1>1, FulfilmentAlways, PTL

-----------------------------------------------------------------------------
\* The tasks behind the first: createShippingTask appends one as PENDING, and the
\* other writes of a task are to the first.
LEMMA OtherTasksWait ==
  ASSUME FulfilmentInv, OnlyFirstTaskMoves, [FulfilmentNext]_fulfilmentVars
  PROVE  OnlyFirstTaskMoves'
  <1>1. tasks \in [Orders -> Seq(TaskRecord)]
    BY DEF FulfilmentInv, FulfilmentTypeOK
  <1>2. ASSUME NEW r \in Requests, CommitShippingTask(r)
        PROVE  OnlyFirstTaskMoves'
    <2> DEFINE task == [status |-> "PENDING", assignee |-> request[r].staff]
    <2>1. PICK o \in Orders : tasks' = [tasks EXCEPT ![o] = Append(@, task)]
      <3>1. request[r].order \in Orders
        BY <1>2, CommitFacts DEF CommitShippingTask, RequestRecord
      <3> QED BY <1>2, <3>1 DEF CommitShippingTask
    <2>2. /\ tasks'[o] = Append(tasks[o], task) /\ tasks[o] \in Seq(TaskRecord)
          /\ \A p \in Orders \ {o} : tasks'[p] = tasks[p]
      BY <1>1, <2>1
    <2>3. task.status = "PENDING" /\ task \in {task}
      OBVIOUS
    <2> HIDE DEF task
    <2>4. ASSUME NEW i \in 2..Len(tasks'[o]) PROVE tasks'[o][i].status = "PENDING"
      <3>1. /\ Len(tasks'[o]) = Len(tasks[o]) + 1 /\ Len(tasks[o]) \in Nat
            /\ tasks'[o][Len(tasks[o]) + 1] = task
            /\ \A j \in 1..Len(tasks[o]) : tasks'[o][j] = tasks[o][j]
        BY <2>2
      <3>2. CASE i = Len(tasks[o]) + 1
        BY <2>3, <3>1, <3>2
      <3>3. CASE i # Len(tasks[o]) + 1
        <4>1. i \in 2..Len(tasks[o]) /\ i \in 1..Len(tasks[o])
          BY <3>1, <3>3
        <4> QED BY <3>1, <4>1 DEF OnlyFirstTaskMoves
      <3> QED BY <3>2, <3>3
    <2> QED BY <2>2, <2>4 DEF OnlyFirstTaskMoves
  <1>3. ASSUME NEW r \in Requests, CommitTaskUpdate(r)
        PROVE  OnlyFirstTaskMoves'
    <2>0. PICK o \in Orders : \E status : tasks' = [tasks EXCEPT ![o][1].status = status]
      <3>1. request[r].order \in Orders
        BY <1>3, CommitFacts DEF CommitTaskUpdate, RequestRecord
      <3> QED BY <1>3, <3>1 DEF CommitTaskUpdate
    <2>1. PICK status : tasks' = [tasks EXCEPT ![o][1].status = status]
      BY <2>0
    <2>2. \A p \in Orders : /\ Len(tasks'[p]) = Len(tasks[p])
                            /\ \A i \in 2..Len(tasks[p]) : tasks'[p][i] = tasks[p][i]
      <3>1. /\ tasks'[o] = [tasks[o] EXCEPT ![1].status = status] /\ tasks[o] \in Seq(TaskRecord)
            /\ \A p \in Orders \ {o} : tasks'[p] = tasks[p]
        BY <1>1, <2>1
      <3>2. Len(tasks'[o]) = Len(tasks[o])
        <4>1. DOMAIN tasks'[o] = 1..Len(tasks[o]) /\ Len(tasks[o]) \in Nat
          BY <3>1, LenProperties
        <4> QED BY <4>1
      <3> QED BY <3>1, <3>2
    <2> QED BY <2>2 DEF OnlyFirstTaskMoves
  <1>4. ASSUME tasks' = tasks PROVE OnlyFirstTaskMoves'
    BY <1>4 DEF OnlyFirstTaskMoves
  <1>5. ASSUME NEW r \in Requests, Begin(r) \/ Resume(r) \/ Fail(r)
        PROVE  OnlyFirstTaskMoves'
    <2>1. CASE Begin(r) \/ Fail(r)
      BY <1>4, <2>1 DEF Begin, BeginShippingTask, UpdateTask, BeginCancel, ReceiveWebhook, Fail, Throw
    <2>2. CASE FindTask(r) \/ InsertTask(r) \/ UpdateOrder(r) \/ CommitCancel(r) \/ CommitWebhook(r)
      BY <1>4, <2>2 DEF FindTask, InsertTask, UpdateOrder, CommitCancel, CommitWebhook, Throw
    <2> QED BY <1>2, <1>3, <1>5, <2>1, <2>2 DEF Resume
  <1>6. CASE \/ \E o \in Orders : CreateOrder(o) \/ ConfirmOrder(o)
             \/ \E a \in DeliveryStaff : DeactivateStaff(a)
             \/ UNCHANGED fulfilmentVars
    BY <1>4, <1>6 DEF CreateOrder, ConfirmOrder, DeactivateStaff, fulfilmentVars
  <1> QED BY <1>5, <1>6 DEF FulfilmentNext

\* Of the tasks an order got in a race of createShippingTask, all but the first stay
\* as they were inserted.
THEOREM LaterTasksNeverMove == FulfilmentSpec => []OnlyFirstTaskMoves
  <1>1. FulfilmentInit => OnlyFirstTaskMoves
    BY DEF FulfilmentInit, OnlyFirstTaskMoves
  <1> QED BY <1>1, OtherTasksWait, FulfilmentAlways, PTL DEF FulfilmentSpec
-----------------------------------------------------------------------------
\* Refinement of OrderLifecycle.

\* The commit of progressShippingTask or completeShippingTask is one Advance.
LEMMA CommitTaskUpdateAdvances ==
  ASSUME FulfilmentInv, NEW r \in Requests, CommitTaskUpdate(r)
  PROVE  LifecycleNext
  <1> DEFINE o == request[r].order
             op == request[r].op
             from == IF op = "progressShippingTask" THEN "CONFIRMED" ELSE "DELIVERING"
             to == IF op = "progressShippingTask" THEN "DELIVERING" ELSE "COMPLETED"
  <1>1. request[r] \in RequestRecord /\ OrderMatches(op, o)
    BY CommitFacts DEF CommitTaskUpdate
  <1>2. o \in Orders /\ from \in OrderStatuses /\ to \in OrderStatuses
    BY <1>1 DEF RequestRecord, OrderStatuses
  <1>3. op \in {"progressShippingTask", "completeShippingTask"}
    BY DEF CommitTaskUpdate
  <1>4. orderStatus[o] = from /\ transactionStatus[o] = "CAPTURED"
    BY <1>1, <1>3 DEF OrderMatches
  <1>5. Advance(o, from, to)
    BY <1>3, <1>4 DEF CommitTaskUpdate, Advance
  <1> QED BY <1>2, <1>5 DEF LifecycleNext

\* The commit of cancelOrder is one Cancel.
LEMMA CommitCancelCancels ==
  ASSUME FulfilmentInv, NEW r \in Requests, CommitCancel(r)
  PROVE  LifecycleNext
  <1> DEFINE o == request[r].order
  <1>1. request[r] \in RequestRecord /\ OrderMatches("cancelOrder", o)
    BY CommitFacts DEF CommitCancel
  <1>2. o \in Orders
    BY <1>1 DEF RequestRecord
  <1>3. Cancel(o)
    BY <1>1 DEF OrderMatches, CommitCancel, Cancel
  <1> QED BY <1>2, <1>3 DEF LifecycleNext

\* The commit of a notification is one Notify.
LEMMA CommitWebhookNotifies ==
  ASSUME FulfilmentInv, NEW r \in Requests, CommitWebhook(r)
  PROVE  LifecycleNext
  <1> DEFINE o == request[r].order
             status == IF request[r].op = "paid" THEN "CAPTURED" ELSE "ERROR"
  <1>1. request[r] \in RequestRecord /\ CheckStillHolds(r)
    BY CommitFacts DEF CommitWebhook, FulfilmentInv, ChecksStillHold
  <1>2. o \in Orders /\ orderStatus[o] # "NONE"
    BY <1>1 DEF RequestRecord, CheckStillHolds, CommitWebhook
  <1>3. Notify(o, status)
    BY <1>2 DEF CommitWebhook, Notify
  <1>4. status \in {"CAPTURED", "ERROR"}
    OBVIOUS
  <1> QED BY <1>2, <1>3, <1>4 DEF LifecycleNext

\* Each action is a step of the life cycle, or leaves both status fields alone.
LEMMA StepRefines ==
  ASSUME FulfilmentInv, [FulfilmentNext]_fulfilmentVars
  PROVE  [LifecycleNext]_lifecycleVars
  <1>1. ASSUME NEW r \in Requests, Begin(r)
        PROVE  UNCHANGED lifecycleVars
    BY <1>1 DEF Begin, BeginShippingTask, UpdateTask, BeginCancel, ReceiveWebhook,
                statusVars, lifecycleVars
  <1>2. ASSUME NEW r \in Requests, Resume(r) \/ Fail(r)
        PROVE  [LifecycleNext]_lifecycleVars
    <2>1. CASE FindTask(r) \/ InsertTask(r) \/ UpdateOrder(r) \/ CommitShippingTask(r) \/ Fail(r)
      BY <2>1 DEF FindTask, InsertTask, UpdateOrder, CommitShippingTask, Fail, Throw,
                  statusVars, lifecycleVars
    <2>2. CASE CommitTaskUpdate(r) \/ CommitCancel(r) \/ CommitWebhook(r)
      BY <2>2, CommitTaskUpdateAdvances, CommitCancelCancels, CommitWebhookNotifies
    <2> QED BY <1>2, <2>1, <2>2 DEF Resume
  <1>3. ASSUME NEW o \in Orders, CreateOrder(o) \/ ConfirmOrder(o)
        PROVE  LifecycleNext
    <2>1. Place(o) \/ Advance(o, "PENDING", "CONFIRMED")
      BY <1>3 DEF CreateOrder, ConfirmOrder
    <2> QED BY <2>1 DEF LifecycleNext, OrderStatuses
  <1>4. CASE \/ \E a \in DeliveryStaff : DeactivateStaff(a)
             \/ UNCHANGED fulfilmentVars
    BY <1>4 DEF DeactivateStaff, fulfilmentVars, statusVars, lifecycleVars
  <1> QED BY <1>1, <1>2, <1>3, <1>4 DEF FulfilmentNext

\* However shipping tasks, cancellations, confirmations and notifications
\* interleave, the status fields of the orders move as OrderLifecycle allows:
\* forward only, and only while the money is CAPTURED.
THEOREM FulfilmentImplementsLifecycle == FulfilmentSpec => ImplementsLifecycle
  <1>1. FulfilmentInit => LifecycleInit
    BY DEF FulfilmentInit
  <1>2. FulfilmentInv /\ [FulfilmentNext]_fulfilmentVars => [LifecycleNext]_lifecycleVars
    BY StepRefines
  <1> QED BY <1>1, <1>2, FulfilmentAlways, PTL DEF FulfilmentSpec, ImplementsLifecycle, LifecycleSpec
=============================================================================
