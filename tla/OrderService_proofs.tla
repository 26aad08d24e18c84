------------------------ MODULE OrderService_proofs ------------------------
(***************************************************************************)
(* Proofs about the order service for every set of orders and requests and *)
(* every overlap of the requests.                                          *)
(***************************************************************************)
EXTENDS OrderService, FiniteSetTheorems, TLAPS

(***************************************************************************)
(* A request that is idle carries nothing, and a saving one carries a      *)
(* command; an order was created by a request that reached its commit, and *)
(* no two accepted creations share an identifier.                          *)
(***************************************************************************)
CommandsOK ==
    \A r \in Requests :
        /\ pc[r] = "idle" => cmd[r] = NoCommand
        /\ pc[r] # "idle" => cmd[r] \in Commands

CreatorKnown ==
    \A o \in Orders : orders[o] # "none" =>
        \E r \in Requests :
            cmd[r] = [op |-> "create", order |-> o] /\ Committed(r)

CreationsDistinct ==
    \A r, q \in Requests :
        /\ cmd[r].op = "create" /\ pc[r] # "refused"
        /\ cmd[q].op = "create" /\ pc[q] # "refused"
        /\ cmd[r].order = cmd[q].order
        => r = q

\* What Confirm and Cancel loaded cannot disappear before they save.
LoadedOrdersStored ==
    \A r \in Requests :
        pc[r] = "saving" /\ cmd[r].op # "create" => orders[cmd[r].order] # "none"

RequestInv == TypeOK /\ CommandsOK /\ CreatorKnown /\ CreationsDistinct /\ LoadedOrdersStored

----------------------------------------------------------------------------
(***************************************************************************)
(* What one SaveOrder transaction does to the outbox, case by case.        *)
(***************************************************************************)
LEMMA SaveAppends ==
    ASSUME TypeOK, NEW c \in Commands, SaveTransaction(c)
    PROVE  /\ orders' \in [Orders -> Statuses]
           /\ outbox' \in Seq(OutboxRows)
           /\ \A i \in 1..Len(outbox) : outbox'[i] = outbox[i]
           /\ c.op = "create" => /\ Len(outbox') = Len(outbox) + 1
                                 /\ outbox'[Len(outbox) + 1] = Placed(c.order)
           /\ c.op = "confirm" => Len(outbox') = Len(outbox)
           /\ c.op = "cancel" => /\ Len(outbox') = Len(outbox) + 1
                                 /\ outbox'[Len(outbox) + 1] = Cancelled(c.order)
<1>1. c.op \in {"create", "confirm", "cancel"} /\ c.order \in Orders
  BY DEF Commands, Ops
<1>2. orders' \in [Orders -> Statuses]
  BY <1>1 DEF SaveTransaction, NewStatus, TypeOK, Statuses
<1>3. CASE c.op = "create"
  <2>1. outbox' = Append(outbox, Placed(c.order))
    BY <1>3 DEF SaveTransaction, IntegrationEvents, TypeOK, OutboxRows, Placed
  <2>2. Placed(c.order) \in OutboxRows
    BY <1>1 DEF Placed, OutboxRows
  <2> QED BY <1>2, <1>3, <2>1, <2>2 DEF TypeOK
<1>4. CASE c.op = "confirm"
  <2>1. outbox' = outbox
    BY <1>4 DEF SaveTransaction, IntegrationEvents, TypeOK
  <2> QED BY <1>2, <1>4, <2>1 DEF TypeOK
<1>5. CASE c.op = "cancel"
  <2>1. outbox' = Append(outbox, Cancelled(c.order))
    BY <1>5 DEF SaveTransaction, IntegrationEvents, TypeOK, OutboxRows, Cancelled
  <2>2. Cancelled(c.order) \in OutboxRows
    BY <1>1 DEF Cancelled, OutboxRows
  <2> QED BY <1>2, <1>5, <2>1, <2>2 DEF TypeOK
<1> QED BY <1>1, <1>3, <1>4, <1>5
----------------------------------------------------------------------------
(***************************************************************************)
(* RequestInv is inductive: one lemma per kind of step.                    *)
(***************************************************************************)
LEMMA InitRequestInv == Init => RequestInv
BY DEF Init, RequestInv, TypeOK, CommandsOK, CreatorKnown, Committed, CreationsDistinct,
       LoadedOrdersStored, NoCommand, Statuses, PCs

LEMMA ReceiveKeepsRequestInv ==
    ASSUME RequestInv, NEW r \in Requests, NEW op \in Ops, NEW o \in Orders,
           NEW next \in {"saving", "refused"}, Receive(r, op, o, next),
           next = "saving" /\ op = "create" => FreshId(o),
           next = "saving" /\ op # "create" => orders[o] # "none"
    PROVE  RequestInv'
<1> USE DEF RequestInv
<1>1. TypeOK'
  BY DEF TypeOK, Receive, Commands, PCs
<1>2. CommandsOK'
  BY DEF CommandsOK, TypeOK, Receive, Commands, PCs
<1>3. CreatorKnown'
  BY DEF CreatorKnown, Committed, TypeOK, Receive, Idle
<1>4. CreationsDistinct'
  BY DEF CreationsDistinct, TypeOK, Receive, FreshId, NoCommand
<1>5. LoadedOrdersStored'
  BY DEF LoadedOrdersStored, TypeOK, Receive
<1> QED BY <1>1, <1>2, <1>3, <1>4, <1>5

LEMMA SavedKeepsRequestInv ==
    ASSUME RequestInv, NEW r \in Requests, NEW answer \in {"ok", "unheard"},
           pc[r] = "saving", SaveTransaction(cmd[r]),
           pc' = [pc EXCEPT ![r] = answer], UNCHANGED cmd
    PROVE  RequestInv'
<1> USE DEF RequestInv
<1>1. cmd[r] \in Commands
  BY DEF CommandsOK, TypeOK
<1>2. TypeOK'
  BY <1>1, SaveAppends DEF TypeOK, PCs
<1>3. CommandsOK'
  BY DEF CommandsOK, TypeOK
<1>4. CreatorKnown'
  <2> SUFFICES ASSUME NEW o \in Orders, orders'[o] # "none"
               PROVE  \E q \in Requests :
                        cmd'[q] = [op |-> "create", order |-> o] /\ Committed(q)'
    BY DEF CreatorKnown, Committed
  <2>1. CASE orders[o] # "none"
    BY <2>1 DEF CreatorKnown, Committed, TypeOK
  <2>2. CASE orders[o] = "none"
    <3>1. cmd[r].order = o
      BY <2>2, <1>1 DEF SaveTransaction, TypeOK, Commands
    <3>2. cmd[r].op = "create"
      BY <2>2, <3>1, <1>1 DEF LoadedOrdersStored
    <3> QED BY <3>1, <3>2, <1>1 DEF Commands, Committed, TypeOK
  <2> QED BY <2>1, <2>2
<1>5. CreationsDistinct'
  BY DEF CreationsDistinct, TypeOK
<1>6. LoadedOrdersStored'
  BY <1>1 DEF LoadedOrdersStored, TypeOK, SaveTransaction, NewStatus, Commands, Ops
<1> QED BY <1>2, <1>3, <1>4, <1>5, <1>6

LEMMA FailedKeepsRequestInv ==
    ASSUME RequestInv, NEW r \in Requests, SaveOrderFails(r)
    PROVE  RequestInv'
BY DEF RequestInv, SaveOrderFails, TypeOK, CommandsOK, CreatorKnown, Committed, CreationsDistinct,
       LoadedOrdersStored, PCs

(***************************************************************************)
(* Every step either leaves both tables alone or is the commit of one      *)
(* request's transaction.                                                  *)
(***************************************************************************)
LEMMA StepCases ==
    ASSUME RequestInv, [Next]_vars
    PROVE  \/ UNCHANGED <<orders, outbox>>
           \/ \E r \in Requests :
                /\ pc[r] = "saving" /\ cmd[r] \in Commands
                /\ SaveTransaction(cmd[r])
                /\ \E answer \in {"ok", "unheard"} : pc' = [pc EXCEPT ![r] = answer]
                /\ UNCHANGED cmd
<1>1. CASE UNCHANGED vars
  BY <1>1 DEF vars
<1>2. ASSUME NEW r \in Requests, NEW o \in Orders,
             Create(r, o) \/ Confirm(r, o) \/ Cancel(r, o) \/ \E op \in Ops : Refuse(r, op, o)
      PROVE  UNCHANGED <<orders, outbox>>
  BY <1>2 DEF Create, Confirm, Cancel, Refuse, Receive
<1>3. ASSUME NEW r \in Requests, SaveOrderFails(r)
      PROVE  UNCHANGED <<orders, outbox>>
  BY <1>3 DEF SaveOrderFails
<1>4. ASSUME NEW r \in Requests, SaveOrder(r) \/ SaveOrderAnswerLost(r)
      PROVE  /\ pc[r] = "saving" /\ cmd[r] \in Commands
             /\ SaveTransaction(cmd[r])
             /\ \E answer \in {"ok", "unheard"} : pc' = [pc EXCEPT ![r] = answer]
             /\ UNCHANGED cmd
  BY <1>4 DEF SaveOrder, SaveOrderAnswerLost, RequestInv, CommandsOK
<1> QED BY <1>1, <1>2, <1>3, <1>4 DEF Next

LEMMA OutboxGrows ==
    ASSUME RequestInv, [Next]_vars
    PROVE  /\ Len(outbox) \in Nat /\ Len(outbox') \in Nat /\ Len(outbox) <= Len(outbox')
           /\ \A i \in 1..Len(outbox) : outbox'[i] = outbox[i]
<1>1. TypeOK /\ Len(outbox) \in Nat
  BY DEF RequestInv, TypeOK
<1>2. ASSUME NEW c \in Commands, SaveTransaction(c)
      PROVE  Len(outbox') \in {Len(outbox), Len(outbox) + 1}
  BY <1>1, <1>2, SaveAppends DEF Commands, Ops
<1> QED BY <1>1, <1>2, StepCases, SaveAppends

LEMMA NextKeepsRequestInv ==
    ASSUME RequestInv, [Next]_vars
    PROVE  RequestInv'
<1>1. CASE UNCHANGED vars
  BY <1>1 DEF vars, RequestInv, TypeOK, CommandsOK, CreatorKnown, Committed, CreationsDistinct,
              LoadedOrdersStored
<1>2. ASSUME NEW r \in Requests, NEW o \in Orders, Create(r, o)
      PROVE  RequestInv'
  BY <1>2, ReceiveKeepsRequestInv DEF Create, Ops
<1>3. ASSUME NEW r \in Requests, NEW o \in Orders, Confirm(r, o)
      PROVE  RequestInv'
  BY <1>3, ReceiveKeepsRequestInv DEF Confirm, Ops
<1>4. ASSUME NEW r \in Requests, NEW o \in Orders, Cancel(r, o)
      PROVE  RequestInv'
  BY <1>4, ReceiveKeepsRequestInv DEF Cancel, Ops
<1>5. ASSUME NEW r \in Requests, NEW o \in Orders, NEW op \in Ops, Refuse(r, op, o)
      PROVE  RequestInv'
  BY <1>5, ReceiveKeepsRequestInv DEF Refuse
<1>6. ASSUME NEW r \in Requests, SaveOrder(r)
      PROVE  RequestInv'
  BY <1>6, SavedKeepsRequestInv DEF SaveOrder
<1>7. ASSUME NEW r \in Requests, SaveOrderFails(r)
      PROVE  RequestInv'
  BY <1>7, FailedKeepsRequestInv
<1>8. ASSUME NEW r \in Requests, SaveOrderAnswerLost(r)
      PROVE  RequestInv'
  BY <1>8, SavedKeepsRequestInv DEF SaveOrderAnswerLost
<1> QED BY <1>1, <1>2, <1>3, <1>4, <1>5, <1>6, <1>7, <1>8 DEF Next

(***************************************************************************)
(* Type correctness of the service, with what its requests know.           *)
(***************************************************************************)
THEOREM RequestInvariant == Spec => []RequestInv
<1>1. Init => RequestInv
  BY InitRequestInv
<1>2. RequestInv /\ [Next]_vars => RequestInv'
  BY NextKeepsRequestInv
<1> QED BY <1>1, <1>2, PTL DEF Spec

(***************************************************************************)
(* Every reachable state is well typed: in particular the orders table     *)
(* never holds a draft and the outbox holds integration events only.       *)
(***************************************************************************)
THEOREM TypeCorrect == Spec => []TypeOK
<1>1. RequestInv => TypeOK
  BY DEF RequestInv
<1> QED BY <1>1, RequestInvariant, PTL
----------------------------------------------------------------------------
(***************************************************************************)
(* The tables.  The first conjunct is what makes the others inductive: a   *)
(* row of the outbox always belongs to a stored order, so the OrderPlaced  *)
(* that a creation appends is the first row of its order.                  *)
(***************************************************************************)
RowsOfStoredOrders ==
    \A i \in 1..Len(outbox) : orders[outbox[i].order] # "none"

TablesInv == RowsOfStoredOrders /\ OutboxComplete /\ PlacedOnceAndFirst

LEMMA CreationFindsNoRow ==
    ASSUME RequestInv, NEW r \in Requests, pc[r] = "saving", cmd[r].op = "create"
    PROVE  orders[cmd[r].order] = "none"
<1>1. cmd[r] \in Commands
  BY DEF RequestInv, TypeOK, CommandsOK
<1>2. SUFFICES ASSUME orders[cmd[r].order] # "none" PROVE FALSE
  OBVIOUS
<1>3. PICK q \in Requests :
        cmd[q] = [op |-> "create", order |-> cmd[r].order] /\ Committed(q)
  BY <1>1, <1>2 DEF RequestInv, CreatorKnown, Committed, Commands
<1>4. q = r
  BY <1>3 DEF RequestInv, CreationsDistinct, Committed
<1> QED BY <1>3, <1>4 DEF Committed

LEMMA SavedKeepsTablesInv ==
    ASSUME RequestInv, TablesInv, NEW r \in Requests, pc[r] = "saving",
           cmd[r] \in Commands, SaveTransaction(cmd[r])
    PROVE  TablesInv'
<1> DEFINE c == cmd[r]
           n == Len(outbox)
<1>1. TypeOK /\ c \in Commands /\ c.order \in Orders /\ c.op \in Ops
  BY DEF RequestInv, Commands
<1>2. /\ n \in Nat /\ Len(outbox') \in Nat
      /\ \A i \in 1..n : outbox[i] \in OutboxRows
      /\ \A i \in 1..Len(outbox') : outbox'[i] \in OutboxRows
  BY <1>1, SaveAppends DEF TypeOK
<1>3. \A i \in 1..n : outbox'[i] = outbox[i]
  BY <1>1, SaveAppends
<1>4. \/ c.op = "create" /\ Len(outbox') = n + 1 /\ outbox'[n + 1] = Placed(c.order)
      \/ c.op = "confirm" /\ Len(outbox') = n
      \/ c.op = "cancel" /\ Len(outbox') = n + 1 /\ outbox'[n + 1] = Cancelled(c.order)
  BY <1>1, SaveAppends DEF Ops
<1>5. orders' = [orders EXCEPT ![c.order] = NewStatus(c.op)]
  BY DEF SaveTransaction
<1>6. NewStatus(c.op) # "none" /\ (NewStatus(c.op) = "cancelled" => c.op = "cancel")
  BY <1>1 DEF NewStatus, Ops
<1>7. c.op # "create" <=> orders[c.order] # "none"
  BY CreationFindsNoRow DEF RequestInv, LoadedOrdersStored
<1>8. \A o \in Orders : orders'[o] # "none" <=> orders[o] # "none" \/ o = c.order
  BY <1>1, <1>5, <1>6 DEF TypeOK
<1>9. RowsOfStoredOrders'
  <2> SUFFICES ASSUME NEW i \in 1..Len(outbox') PROVE orders'[outbox'[i].order] # "none"
    BY DEF RowsOfStoredOrders
  <2>1. CASE i \in 1..n
    BY <2>1, <1>2, <1>3, <1>8 DEF TablesInv, RowsOfStoredOrders, OutboxRows
  <2>2. CASE i = n + 1
    BY <2>2, <1>1, <1>2, <1>4, <1>8 DEF Placed, Cancelled
  <2> QED BY <2>1, <2>2, <1>2, <1>4
<1>10. \A row : Recorded(row) => Recorded(row)'
  BY <1>2, <1>3, <1>4 DEF Recorded
<1>11. OutboxComplete'
  <2> SUFFICES ASSUME NEW o \in Orders
               PROVE  /\ orders'[o] # "none" <=> Recorded(Placed(o))'
                      /\ orders'[o] = "cancelled" => Recorded(Cancelled(o))'
    BY DEF OutboxComplete, Placed, Cancelled
  <2>1. CASE o # c.order
    <3>1. orders'[o] = orders[o]
      BY <2>1, <1>5, <1>1 DEF TypeOK
    <3>2. Recorded(Placed(o))' => Recorded(Placed(o))
      BY <2>1, <1>2, <1>3, <1>4 DEF Recorded, Placed, Cancelled
    <3> QED BY <3>1, <3>2, <1>10 DEF TablesInv, OutboxComplete, Placed, Cancelled
  <2>2. CASE o = c.order
    <3>1. orders'[o] = NewStatus(c.op)
      BY <2>2, <1>5, <1>1 DEF TypeOK
    <3>2. Recorded(Placed(o))'
      <4>1. CASE c.op = "create"
        BY <4>1, <2>2, <1>2, <1>4 DEF Recorded, Placed
      <4>2. CASE c.op # "create"
        BY <4>2, <2>2, <1>7, <1>10 DEF TablesInv, OutboxComplete, Placed
      <4> QED BY <4>1, <4>2
    <3>3. c.op = "cancel" => Recorded(Cancelled(o))'
      BY <2>2, <1>2, <1>4 DEF Recorded, Cancelled
    <3> QED BY <3>1, <3>2, <3>3, <1>6
  <2> QED BY <2>1, <2>2
<1>12. PlacedOnceAndFirst'
  <2> SUFFICES ASSUME NEW i \in 1..Len(outbox'), NEW j \in 1..Len(outbox'),
                      outbox'[i].order = outbox'[j].order, outbox'[i].name = "OrderPlaced"
               PROVE  i <= j /\ (outbox'[j].name = "OrderPlaced" => i = j)
    BY DEF PlacedOnceAndFirst
  <2>1. CASE i \in 1..n /\ j \in 1..n
    BY <2>1, <1>3 DEF TablesInv, PlacedOnceAndFirst
  <2>2. CASE i = n + 1 /\ j \in 1..n
    <3>1. c.op = "create" /\ outbox'[i] = Placed(c.order)
      BY <2>2, <1>2, <1>4 DEF Cancelled
    <3>2. outbox[j].order = c.order
      BY <3>1, <2>2, <1>3 DEF Placed
    <3> QED BY <3>1, <3>2, <2>2, <1>7 DEF TablesInv, RowsOfStoredOrders
  <2>3. CASE i \in 1..n /\ j = n + 1
    <3>1. CASE c.op = "create"
      <4>1. outbox[i].order = c.order
        BY <3>1, <2>3, <1>2, <1>3, <1>4 DEF Placed
      <4> QED BY <3>1, <4>1, <2>3, <1>7 DEF TablesInv, RowsOfStoredOrders
    <3>2. CASE c.op = "cancel"
      BY <3>2, <2>3, <1>2, <1>4 DEF Cancelled
    <3> QED BY <3>1, <3>2, <2>3, <1>2, <1>4
  <2>4. CASE i = n + 1 /\ j = n + 1
    BY <2>4, <1>2
  <2> QED BY <2>1, <2>2, <2>3, <2>4, <1>2, <1>4
<1> QED BY <1>9, <1>11, <1>12 DEF TablesInv

LEMMA TablesUnchanged ==
    ASSUME TablesInv, UNCHANGED <<orders, outbox>>
    PROVE  TablesInv'
BY DEF TablesInv, RowsOfStoredOrders, OutboxComplete, PlacedOnceAndFirst, Recorded,
       Placed, Cancelled

LEMMA InitTablesInv == Init => TablesInv
BY DEF Init, TablesInv, RowsOfStoredOrders, OutboxComplete, PlacedOnceAndFirst, Recorded

LEMMA NextKeepsTablesInv == RequestInv /\ TablesInv /\ [Next]_vars => TablesInv'
BY StepCases, SavedKeepsTablesInv, TablesUnchanged

THEOREM TablesInvariant == Spec => []TablesInv
BY InitTablesInv, NextKeepsTablesInv, RequestInvariant, PTL DEF Spec

(***************************************************************************)
(* The transactional outbox never disagrees with the orders table.         *)
(***************************************************************************)
THEOREM TransactionalOutbox == Spec => []OutboxComplete
<1>1. TablesInv => OutboxComplete
  BY DEF TablesInv
<1> QED BY <1>1, TablesInvariant, PTL

(***************************************************************************)
(* One OrderPlaced per order, before every OrderCancelled of it.           *)
(***************************************************************************)
THEOREM PlacedIsFirst == Spec => []PlacedOnceAndFirst
<1>1. TablesInv => PlacedOnceAndFirst
  BY DEF TablesInv
<1> QED BY <1>1, TablesInvariant, PTL
----------------------------------------------------------------------------
(***************************************************************************)
(* An answer of 200 is never taken back, whatever overwrites the row.      *)
(***************************************************************************)
LEMMA ReceptionCases ==
    ASSUME NEW r \in Requests, NEW o \in Orders,
           Create(r, o) \/ Confirm(r, o) \/ Cancel(r, o) \/ \E op \in Ops : Refuse(r, op, o)
    PROVE  \E op \in Ops, next \in {"saving", "refused"} :
             /\ Receive(r, op, o, next)
             /\ next = "saving" /\ op # "create" => orders[o] = "placed"
<1>1. "create" \in Ops /\ "confirm" \in Ops /\ "cancel" \in Ops
  BY DEF Ops
<1>2. CASE Create(r, o)
  <2>1. Receive(r, "create", o, "saving")
    BY <1>2 DEF Create
  <2> QED BY <1>1, <2>1, Zenon
<1>3. CASE Confirm(r, o)
  <2>1. Receive(r, "confirm", o, "saving") /\ orders[o] = "placed"
    BY <1>3 DEF Confirm
  <2> QED BY <1>1, <2>1, Zenon
<1>4. CASE Cancel(r, o)
  <2>1. Receive(r, "cancel", o, "saving") /\ orders[o] = "placed"
    BY <1>4 DEF Cancel
  <2> QED BY <1>1, <2>1, Zenon
<1>5. ASSUME NEW op \in Ops, Refuse(r, op, o)
      PROVE  \E next \in {"saving", "refused"} :
               /\ Receive(r, op, o, next)
               /\ next = "saving" /\ op # "create" => orders[o] = "placed"
  <2>1. Receive(r, op, o, "refused")
    BY <1>5 DEF Refuse
  <2> QED BY <2>1, Zenon
<1> QED BY <1>2, <1>3, <1>4, <1>5

LEMMA StepKeepsAnswers ==
    ASSUME RequestInv, TablesInv, AnswersHonoured, [Next]_vars
    PROVE  AnswersHonoured'
<1>1. ASSUME UNCHANGED <<orders, outbox>>,
             \A r \in Requests : pc'[r] = "ok" => pc[r] = "ok" /\ cmd'[r] = cmd[r]
      PROVE  AnswersHonoured'
  BY <1>1 DEF AnswersHonoured, Recorded, Cancelled
<1>2. CASE UNCHANGED vars
  BY <1>1, <1>2 DEF vars
<1>3. ASSUME NEW r \in Requests, NEW o \in Orders,
             Create(r, o) \/ Confirm(r, o) \/ Cancel(r, o) \/ \E op \in Ops : Refuse(r, op, o)
      PROVE  AnswersHonoured'
  <2>1. PICK op \in Ops, next \in {"saving", "refused"} : Receive(r, op, o, next)
    BY <1>3, ReceptionCases
  <2>2. \A q \in Requests : pc'[q] = "ok" => pc[q] = "ok" /\ cmd'[q] = cmd[q]
    BY <2>1 DEF Receive, Idle, RequestInv, TypeOK
  <2> QED BY <1>1, <2>1, <2>2 DEF Receive
<1>4. ASSUME NEW r \in Requests, SaveOrderFails(r)
      PROVE  AnswersHonoured'
  BY <1>1, <1>4 DEF SaveOrderFails, RequestInv, TypeOK
<1>5. ASSUME NEW r \in Requests, SaveOrder(r) \/ SaveOrderAnswerLost(r)
      PROVE  AnswersHonoured'
  <2> SUFFICES ASSUME NEW q \in Requests, pc'[q] = "ok"
               PROVE  /\ orders'[cmd[q].order] # "none"
                      /\ cmd[q].op # "create" => orders'[cmd[q].order] # "placed"
                      /\ cmd[q].op = "cancel" => Recorded(Cancelled(cmd[q].order))'
    BY <1>5 DEF AnswersHonoured, SaveOrder, SaveOrderAnswerLost, Cancelled
  <2> DEFINE c == cmd[r]
             o == cmd[q].order
  <2>1. pc[r] = "saving" /\ SaveTransaction(c) /\ c \in Commands /\ TypeOK
    BY <1>5 DEF SaveOrder, SaveOrderAnswerLost, RequestInv, CommandsOK
  <2>2. c.order \in Orders /\ c.op \in Ops
    BY <2>1 DEF Commands
  <2>3. orders' = [orders EXCEPT ![c.order] = NewStatus(c.op)]
    BY <2>1 DEF SaveTransaction
  <2>4. TablesInv'
    BY <2>1, SavedKeepsTablesInv
  <2>cmd. cmd' = cmd
    BY <1>5 DEF SaveOrder, SaveOrderAnswerLost
  <2>5. pc[q] = "ok" \/ q = r
    BY <1>5 DEF SaveOrder, SaveOrderAnswerLost, RequestInv, TypeOK
  <2>6. o \in Orders
    BY <2>1, <2>5 DEF RequestInv, CommandsOK, Commands
  <2>7. NewStatus(c.op) # "none" /\ (c.op # "create" => NewStatus(c.op) # "placed")
    BY <2>2 DEF NewStatus, Ops
  <2>8. CASE q = r
    <3>1. c.op = "cancel" => Recorded(Cancelled(o))'
      <4>1. c.op = "cancel" => orders'[o] = "cancelled"
        BY <2>8, <2>1, <2>2, <2>3 DEF NewStatus, TypeOK
      <4> QED BY <4>1, <2>4, <2>6, <2>cmd DEF TablesInv, OutboxComplete, Cancelled
    <3> QED BY <3>1, <2>1, <2>2, <2>3, <2>7, <2>8 DEF TypeOK
  <2>9. CASE q # r
    <3>1. /\ orders[o] # "none"
          /\ cmd[q].op # "create" => orders[o] # "placed"
          /\ cmd[q].op = "cancel" => Recorded(Cancelled(o))
      BY <2>5, <2>9 DEF AnswersHonoured
    <3>2. c.order = o => c.op # "create"
      BY <2>1, <3>1, CreationFindsNoRow
    <3>3. Recorded(Cancelled(o)) => Recorded(Cancelled(o))'
      <4>1. /\ Len(outbox) \in Nat /\ Len(outbox') \in Nat /\ Len(outbox) <= Len(outbox')
            /\ \A i \in 1..Len(outbox) : outbox'[i] = outbox[i]
        BY <2>1, <2>2, SaveAppends DEF TypeOK, Ops
      <4> QED BY <4>1, <2>cmd DEF Recorded, Cancelled
    <3> QED BY <3>1, <3>2, <3>3, <2>1, <2>2, <2>3, <2>6, <2>7 DEF TypeOK
  <2> QED BY <2>8, <2>9
<1> QED BY <1>2, <1>3, <1>4, <1>5 DEF Next

THEOREM AnswersKept == Spec => []AnswersHonoured
<1>1. Init => AnswersHonoured
  BY DEF Init, AnswersHonoured
<1>2. RequestInv /\ TablesInv /\ AnswersHonoured /\ [Next]_vars => AnswersHonoured'
  BY StepKeepsAnswers
<1> QED BY <1>1, <1>2, RequestInvariant, TablesInvariant, PTL DEF Spec

----------------------------------------------------------------------------
(***************************************************************************)
(* Under any overlap, every step is one atomic store of a status with its  *)
(* event, or no store at all.                                              *)
(***************************************************************************)
LEMMA StoreIsAtomic ==
    ASSUME RequestInv, NEW r \in Requests, pc[r] = "saving",
           cmd[r] \in Commands, SaveTransaction(cmd[r])
    PROVE  \/ cmd[r].op = "create" /\ Lifecycle!Place(cmd[r].order)
           \/ /\ cmd[r].op = "confirm" /\ orders[cmd[r].order] # "none"
              /\ Lifecycle!Store(cmd[r].order, "confirmed", <<>>)
           \/ /\ cmd[r].op = "cancel" /\ orders[cmd[r].order] # "none"
              /\ Lifecycle!Store(cmd[r].order, "cancelled",
                                 <<Lifecycle!Event(cmd[r].order, "OrderCancelled")>>)
<1>1. cmd[r].op \in Ops
  BY DEF Commands
<1>2. CASE cmd[r].op = "create"
  BY <1>2, CreationFindsNoRow
     DEF SaveTransaction, NewStatus, IntegrationEvents, Lifecycle!Place, Lifecycle!Store,
         Lifecycle!Event
<1>3. CASE cmd[r].op = "confirm"
  BY <1>3 DEF SaveTransaction, NewStatus, IntegrationEvents, Lifecycle!Store,
              RequestInv, LoadedOrdersStored
<1>4. CASE cmd[r].op = "cancel"
  BY <1>4 DEF SaveTransaction, NewStatus, IntegrationEvents, Lifecycle!Store,
              Lifecycle!Event, RequestInv, LoadedOrdersStored
<1> QED BY <1>1, <1>2, <1>3, <1>4 DEF Ops

THEOREM OutboxRefinement == Spec => ImplementsOutbox
<1>1. Init => Lifecycle!LifecycleInit
  BY DEF Init, Lifecycle!LifecycleInit
<1>2. RequestInv /\ [Next]_vars => [Lifecycle!OutboxNext]_<<orders, outbox>>
  <2> SUFFICES ASSUME RequestInv, [Next]_vars
               PROVE  Lifecycle!OutboxNext \/ UNCHANGED <<orders, outbox>>
    OBVIOUS
  <2>1. ASSUME NEW r \in Requests, pc[r] = "saving", cmd[r] \in Commands,
               SaveTransaction(cmd[r])
        PROVE  Lifecycle!OutboxNext
    <3>1. cmd[r].order \in Orders
      BY <2>1 DEF Commands
    <3> QED BY <2>1, <3>1, StoreIsAtomic DEF Lifecycle!OutboxNext
  <2> QED BY <2>1, StepCases
<1> QED BY <1>1, <1>2, RequestInvariant, PTL
        DEF Spec, ImplementsOutbox, Lifecycle!OutboxSpec, Lifecycle!lifecycleVars

(***************************************************************************)
(* Requests served one at a time: what a request loaded is what it         *)
(* overwrites, and the service implements the whole lifecycle.             *)
(***************************************************************************)
OneAtATime ==
    /\ \A r, q \in Requests : pc[r] = "saving" /\ pc[q] = "saving" => r = q
    /\ \A r \in Requests :
         pc[r] = "saving" /\ cmd[r].op # "create" => orders[cmd[r].order] = "placed"

LEMMA StepKeepsOneAtATime ==
    ASSUME Concurrent = FALSE, RequestInv, OneAtATime, [Next]_vars
    PROVE  OneAtATime'
<1>1. CASE UNCHANGED vars
  BY <1>1 DEF vars, OneAtATime
<1>2. ASSUME NEW r \in Requests, NEW o \in Orders,
             Create(r, o) \/ Confirm(r, o) \/ Cancel(r, o) \/ \E op \in Ops : Refuse(r, op, o)
      PROVE  OneAtATime'
  <2>1. PICK op \in Ops, next \in {"saving", "refused"} :
          /\ Receive(r, op, o, next)
          /\ next = "saving" /\ op # "create" => orders[o] = "placed"
    BY <1>2, ReceptionCases
  <2> QED BY <2>1 DEF Receive, Idle, OneAtATime, RequestInv, TypeOK
<1>3. ASSUME NEW r \in Requests, pc[r] = "saving", pc'[r] # "saving", UNCHANGED cmd,
             \A q \in Requests : q # r => pc'[q] = pc[q]
      PROVE  OneAtATime'
  BY <1>3 DEF OneAtATime
<1>4. ASSUME NEW r \in Requests, SaveOrder(r) \/ SaveOrderFails(r) \/ SaveOrderAnswerLost(r)
      PROVE  OneAtATime'
  BY <1>3, <1>4 DEF SaveOrder, SaveOrderFails, SaveOrderAnswerLost, RequestInv, TypeOK
<1> QED BY <1>1, <1>2, <1>4 DEF Next

THEOREM LifecycleRefinement ==
    ASSUME Concurrent = FALSE
    PROVE  Spec => ImplementsLifecycle
<1>1. Init => Lifecycle!LifecycleInit /\ OneAtATime
  BY DEF Init, Lifecycle!LifecycleInit, OneAtATime
<1>2. RequestInv /\ OneAtATime /\ [Next]_vars => OneAtATime'
  BY StepKeepsOneAtATime
<1>3. RequestInv /\ OneAtATime /\ [Next]_vars => [Lifecycle!LifecycleNext]_<<orders, outbox>>
  <2> SUFFICES ASSUME RequestInv, OneAtATime, [Next]_vars
               PROVE  Lifecycle!LifecycleNext \/ UNCHANGED <<orders, outbox>>
    OBVIOUS
  <2>1. ASSUME NEW r \in Requests, pc[r] = "saving", cmd[r] \in Commands,
               SaveTransaction(cmd[r])
        PROVE  Lifecycle!LifecycleNext
    <3>1. cmd[r].order \in Orders
      BY <2>1 DEF Commands
    <3>2. cmd[r].op # "create" => orders[cmd[r].order] = "placed"
      BY <2>1 DEF OneAtATime
    <3> QED BY <2>1, <3>1, <3>2, StoreIsAtomic
            DEF Lifecycle!LifecycleNext, Lifecycle!Confirm, Lifecycle!Cancel
  <2> QED BY <2>1, StepCases
<1> QED BY <1>1, <1>2, <1>3, RequestInvariant, PTL
        DEF Spec, ImplementsLifecycle, Lifecycle!Spec, Lifecycle!lifecycleVars

----------------------------------------------------------------------------
(***************************************************************************)
(* Counting cancellations.  Both sets are finite at any time, however many *)
(* requests there may be: an OrderCancelled row is added by a step that    *)
(* adds a committed cancel request, and nothing takes such a request away. *)
(***************************************************************************)
CancelRows(o) == {i \in 1..Len(outbox) : outbox[i] = Cancelled(o)}

Cancellers(o) ==
    {r \in Requests : cmd[r] = [op |-> "cancel", order |-> o] /\ Committed(r)}

CancellationsInv ==
    \A o \in Orders :
        /\ IsFiniteSet(Cancellers(o))
        /\ Cardinality(CancelRows(o)) <= Cardinality(Cancellers(o))

LEMMA CancelRowsFinite ==
    ASSUME TypeOK, NEW o \in Orders
    PROVE  IsFiniteSet(CancelRows(o)) /\ Cardinality(CancelRows(o)) \in Nat
<1>1. Len(outbox) \in Nat
  BY DEF TypeOK
<1>2. IsFiniteSet(1..Len(outbox))
  BY <1>1, FS_Interval
<1>3. CancelRows(o) \subseteq 1..Len(outbox)
  BY DEF CancelRows
<1> QED BY <1>2, <1>3, FS_Subset, FS_CardinalityType

LEMMA SavedKeepsCancellations ==
    ASSUME RequestInv, CancellationsInv, NEW r \in Requests, pc[r] = "saving",
           cmd[r] \in Commands, SaveTransaction(cmd[r]),
           NEW answer \in {"ok", "unheard"}, pc' = [pc EXCEPT ![r] = answer], UNCHANGED cmd
    PROVE  CancellationsInv'
<1> DEFINE c == cmd[r]
           n == Len(outbox)
<1> SUFFICES ASSUME NEW o \in Orders
             PROVE  /\ IsFiniteSet(Cancellers(o)')
                    /\ Cardinality(CancelRows(o)') <= Cardinality(Cancellers(o)')
  BY DEF CancellationsInv, CancelRows, Cancellers, Committed, Cancelled
<1>1. TypeOK /\ n \in Nat /\ c \in Commands /\ c.op \in Ops /\ c.order \in Orders
  BY DEF RequestInv, TypeOK, Commands
<1>2. /\ \A i \in 1..n : outbox'[i] = outbox[i]
      /\ c.op = "create" => Len(outbox') = n + 1 /\ outbox'[n + 1] = Placed(c.order)
      /\ c.op = "confirm" => Len(outbox') = n
      /\ c.op = "cancel" => Len(outbox') = n + 1 /\ outbox'[n + 1] = Cancelled(c.order)
  BY <1>1, SaveAppends
<1>3. pc'[r] \in {"ok", "unheard"} /\ \A q \in Requests : q # r => pc'[q] = pc[q]
  BY <1>1 DEF TypeOK
<1>4. IsFiniteSet(Cancellers(o)) /\ Cardinality(Cancellers(o)) \in Nat
  BY FS_CardinalityType DEF CancellationsInv
<1>5. /\ IsFiniteSet(CancelRows(o)) /\ Cardinality(CancelRows(o)) \in Nat
      /\ Cardinality(CancelRows(o)) <= Cardinality(Cancellers(o))
  BY <1>1, CancelRowsFinite DEF CancellationsInv
<1>6. CASE c = [op |-> "cancel", order |-> o]
  <2>1. Cancellers(o)' = Cancellers(o) \cup {r} /\ r \notin Cancellers(o)
    BY <1>3, <1>6 DEF Cancellers, Committed
  <2>2. CancelRows(o)' = CancelRows(o) \cup {n + 1} /\ n + 1 \notin CancelRows(o)
    <3>1. 1..Len(outbox') = 1..n \cup {n + 1} /\ n + 1 \notin 1..n
      BY <1>1, <1>2, <1>6
    <3> QED BY <1>2, <1>6, <3>1 DEF CancelRows, Cancelled
  <2>3. /\ IsFiniteSet(Cancellers(o)')
        /\ Cardinality(Cancellers(o)') = Cardinality(Cancellers(o)) + 1
    BY <1>4, <2>1, FS_AddElement
  <2>4. Cardinality(CancelRows(o)') = Cardinality(CancelRows(o)) + 1
    BY <1>5, <2>2, FS_AddElement
  <2> QED BY <1>4, <1>5, <2>3, <2>4
<1>7. CASE c # [op |-> "cancel", order |-> o]
  <2>1. Cancellers(o)' = Cancellers(o)
    BY <1>3, <1>7 DEF Cancellers, Committed
  <2>2. CancelRows(o)' = CancelRows(o)
    <3>1. ASSUME Len(outbox') = n + 1
          PROVE  outbox'[n + 1] # Cancelled(o)
      BY <1>1, <1>2, <1>7, <3>1 DEF Placed, Cancelled, Commands, Ops
    <3>2. Len(outbox') = n \/ Len(outbox') = n + 1
      BY <1>1, <1>2 DEF Ops
    <3>3. \A i \in 1..Len(outbox') : i \in 1..n \/ (i = n + 1 /\ Len(outbox') = n + 1)
      BY <1>1, <3>2
    <3>4. 1..n \subseteq 1..Len(outbox')
      BY <1>1, <3>2
    <3> QED BY <1>2, <3>1, <3>3, <3>4 DEF CancelRows, Cancelled
  <2> QED BY <1>4, <1>5, <2>1, <2>2
<1> QED BY <1>6, <1>7

LEMMA StepKeepsCancellations ==
    ASSUME RequestInv, CancellationsInv, [Next]_vars
    PROVE  CancellationsInv'
<1>1. CASE UNCHANGED vars
  BY <1>1 DEF vars, CancellationsInv, Cancellers, Committed, CancelRows, Cancelled
<1>2. ASSUME NEW r \in Requests, NEW o \in Orders,
             Create(r, o) \/ Confirm(r, o) \/ Cancel(r, o) \/ \E op \in Ops : Refuse(r, op, o)
      PROVE  CancellationsInv'
  <2>1. PICK op \in Ops, next \in {"saving", "refused"} : Receive(r, op, o, next)
    BY <1>2, ReceptionCases
  <2>2. /\ pc[r] = "idle" /\ pc'[r] \notin {"ok", "unheard"} /\ UNCHANGED outbox
        /\ \A q \in Requests : q # r => pc'[q] = pc[q] /\ cmd'[q] = cmd[q]
    BY <2>1 DEF Receive, Idle, RequestInv, TypeOK
  <2>3. \A p \in Orders : Cancellers(p)' = Cancellers(p)
    BY <2>2 DEF Cancellers, Committed
  <2>4. \A p \in Orders : CancelRows(p)' = CancelRows(p)
    BY <2>2 DEF CancelRows, Cancelled
  <2> QED BY <2>3, <2>4 DEF CancellationsInv
<1>3. ASSUME NEW r \in Requests, SaveOrderFails(r)
      PROVE  CancellationsInv'
  <2> SUFFICES ASSUME NEW o \in Orders
               PROVE  /\ IsFiniteSet(Cancellers(o)')
                      /\ Cardinality(CancelRows(o)') <= Cardinality(Cancellers(o)')
    BY DEF CancellationsInv, CancelRows, Cancellers, Committed, Cancelled
  <2>1. Cancellers(o)' = Cancellers(o)
    BY <1>3 DEF SaveOrderFails, Cancellers, Committed, RequestInv, TypeOK
  <2>2. CancelRows(o)' = CancelRows(o)
    BY <1>3 DEF SaveOrderFails, CancelRows, Cancelled
  <2> QED BY <2>1, <2>2 DEF CancellationsInv
<1>4. ASSUME NEW r \in Requests, SaveOrder(r) \/ SaveOrderAnswerLost(r)
      PROVE  CancellationsInv'
  <2>1. /\ pc[r] = "saving" /\ cmd[r] \in Commands
        /\ SaveTransaction(cmd[r])
        /\ \E answer \in {"ok", "unheard"} : pc' = [pc EXCEPT ![r] = answer]
        /\ UNCHANGED cmd
    BY <1>4 DEF SaveOrder, SaveOrderAnswerLost, RequestInv, CommandsOK
  <2> QED BY <2>1, SavedKeepsCancellations
<1> QED BY <1>1, <1>2, <1>3, <1>4 DEF Next

LEMMA InitCancellationsInv == Init => CancellationsInv
<1> SUFFICES ASSUME Init, NEW o \in Orders
             PROVE  /\ IsFiniteSet(Cancellers(o))
                    /\ Cardinality(CancelRows(o)) <= Cardinality(Cancellers(o))
  BY DEF CancellationsInv
<1>1. Cancellers(o) = {} /\ CancelRows(o) = {}
  BY DEF Init, Cancellers, Committed, CancelRows
<1> QED BY <1>1, FS_EmptySet

\* An OrderCancelled in the outbox has a request behind it.
LEMMA CancelRowsHaveCancellers ==
    ASSUME TypeOK, CancellationsInv, NEW o \in Orders, CancelRows(o) # {}
    PROVE  Cancellers(o) # {}
<1>1. IsFiniteSet(CancelRows(o)) /\ Cardinality(CancelRows(o)) \in Nat
  BY CancelRowsFinite
<1>2. Cardinality(CancelRows(o)) # 0
  BY <1>1, FS_EmptySet
<1>3. Cardinality(CancelRows(o)) <= Cardinality(Cancellers(o))
  BY DEF CancellationsInv
<1> QED BY <1>1, <1>2, <1>3, FS_EmptySet

(***************************************************************************)
(* There are never more OrderCancelled rows of an order than cancel        *)
(* requests that reached their commit.                                     *)
(***************************************************************************)
THEOREM CancellationsCounted == Spec => []CancellationsAccountedFor
<1>1. CancellationsInv => CancellationsAccountedFor
  BY DEF CancellationsInv, CancellationsAccountedFor, CancelRows, Cancellers, Committed
<1> QED BY <1>1, InitCancellationsInv, StepKeepsCancellations, RequestInvariant, PTL DEF Spec
============================================================================
