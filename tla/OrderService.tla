---------------------------- MODULE OrderService ----------------------------
(***************************************************************************)
(* The order service: HTTP requests served concurrently over one orders    *)
(* table and its transactional outbox.                                     *)
(*                                                                         *)
(* A request takes two steps, one per visit to PostgreSQL.  The first      *)
(* loads the order (a plain SELECT, no lock and no version) and lets the   *)
(* aggregate decide; the second is SaveOrder, one transaction that upserts *)
(* the whole row and inserts the integration events.  Anything may happen  *)
(* in between.  Create has nothing to load: its first step only validates. *)
(*                                                                         *)
(* orders and outbox are the two tables.  A row's created_at is the start  *)
(* of its transaction, and the model appends rows when they commit; for    *)
(* one order the two agree, because a Cancel begins after the commit of    *)
(* the Create it loads and two OrderCancelled of one order are alike.      *)
(* Across orders nothing here depends on the order of rows.                *)
(***************************************************************************)
EXTENDS Integers, Sequences, FiniteSets

CONSTANTS
    Orders,        \* order identifiers: each one is the uuid of one NewOrder
    Requests,      \* the HTTP requests the service receives
    Concurrent     \* FALSE: a request starts only when no other is being served

ASSUME ConcurrentAssumption == Concurrent \in BOOLEAN

VARIABLES
    orders,        \* [Orders -> Statuses]: the orders table, "none" for no row
    outbox,        \* the outbox table: a sequence of rows [order, name]
    cmd,           \* [Requests -> Commands]: the command a request carries
    pc             \* [Requests -> PCs]: how far the request has come

vars == <<orders, outbox, cmd, pc>>

(***************************************************************************)
(* The operators named Mutant... are not part of the specification: each   *)
(* is a definition as a plausible mistake would have it (the status stored *)
(* outside the transaction, an error swallowed, an event written before    *)
(* the save), and a property below fails when it takes the real one's      *)
(* place.                                                                  *)
(*                                                                         *)
(* "draft" is a status of the aggregate that Create leaves before its only *)
(* save, so the table never holds it.                                      *)
(***************************************************************************)
Statuses == {"none", "placed", "confirmed", "cancelled"}

Ops == {"create", "confirm", "cancel"}

NoCommand == [op |-> "none", order |-> "none"]
Commands == [op : Ops, order : Orders]

(***************************************************************************)
(* idle: not received yet; saving: the aggregate has changed and SaveOrder *)
(* has not run; ok: answered with 200; refused: answered with an error     *)
(* before SaveOrder; failed: answered with an error, and SaveOrder rolled  *)
(* back; unheard: answered with an error (400, or the 503 of the timeout   *)
(* handler) although SaveOrder committed.                                  *)
(***************************************************************************)
PCs == {"idle", "saving", "ok", "refused", "failed", "unheard"}

\* The requests whose transaction committed, whatever the client was told.
Committed(r) == pc[r] \in {"ok", "unheard"}

OutboxRows == [order : Orders, name : {"OrderPlaced", "OrderCancelled"}]

TypeOK ==
    /\ orders \in [Orders -> Statuses]
    /\ outbox \in Seq(OutboxRows)
    /\ cmd \in [Requests -> Commands \cup {NoCommand}]
    /\ pc \in [Requests -> PCs]

Init ==
    /\ orders = [o \in Orders |-> "none"]
    /\ outbox = <<>>
    /\ cmd = [r \in Requests |-> NoCommand]
    /\ pc = [r \in Requests |-> "idle"]
-----------------------------------------------------------------------------
(***************************************************************************)
(* Receiving a request.                                                    *)
(***************************************************************************)
Idle(r) ==
    /\ pc[r] = "idle"
    /\ Concurrent \/ \A q \in Requests : pc[q] # "saving"

Receive(r, op, o, next) ==
    /\ Idle(r)
    /\ cmd' = [cmd EXCEPT ![r] = [op |-> op, order |-> o]]
    /\ pc' = [pc EXCEPT ![r] = next]
    /\ UNCHANGED <<orders, outbox>>

\* uuid.NewString never returns an identifier that another order was given.
FreshId(o) ==
    \A q \in Requests :
        cmd[q].op = "create" /\ cmd[q].order = o => pc[q] = "refused"

\* NewOrder accepts the input and Place takes the draft to placed.
Create(r, o) ==
    /\ FreshId(o)
    /\ Receive(r, "create", o, "saving")

\* GetOrderById and the aggregate's Confirm, which accepts placed only.
Confirm(r, o) ==
    /\ orders[o] = "placed"
    /\ Receive(r, "confirm", o, "saving")

MutantCancelDualWrite(r, o) ==
    /\ orders[o] = "placed"
    /\ Idle(r)
    /\ cmd' = [cmd EXCEPT ![r] = [op |-> "cancel", order |-> o]]
    /\ pc' = [pc EXCEPT ![r] = "saving"]
    /\ outbox' = Append(outbox, [order |-> o, name |-> "OrderCancelled"])
    /\ UNCHANGED orders

\* GetOrderById and the aggregate's Cancel with a reason that is long enough.
Cancel(r, o) ==
    /\ orders[o] = "placed"
    /\ Receive(r, "cancel", o, "saving")

(***************************************************************************)
(* A request that never reaches SaveOrder: invalid input, a reason shorter *)
(* than five characters, an unknown order, a refused transition, a failed  *)
(* read or the request timeout.  Nothing has been written.                 *)
(***************************************************************************)
Refuse(r, op, o) == Receive(r, op, o, "refused")
-----------------------------------------------------------------------------
(***************************************************************************)
(* Saving.  NewStatus is the status the aggregate has taken in memory;     *)
(* IntegrationEvents is what mapToIntegrationEvents makes of its domain    *)
(* events: OrderConfirmed is internal and is dropped.                      *)
(***************************************************************************)
MutantNewStatusDraft(op) ==
    CASE op = "create" -> "draft"
      [] op = "confirm" -> "confirmed"
      [] op = "cancel" -> "cancelled"

NewStatus(op) ==
    CASE op = "create" -> "placed"
      [] op = "confirm" -> "confirmed"
      [] op = "cancel" -> "cancelled"

MutantIntegrationEventsPlacedOnly(c) ==
    IF c.op = "create" THEN <<[order |-> c.order, name |-> "OrderPlaced"]>> ELSE <<>>

MutantIntegrationEventsReplayed(c) ==
    CASE c.op \in {"create", "confirm"} -> <<[order |-> c.order, name |-> "OrderPlaced"]>>
      [] c.op = "cancel" -> <<[order |-> c.order, name |-> "OrderCancelled"]>>

IntegrationEvents(c) ==
    CASE c.op = "create" -> <<[order |-> c.order, name |-> "OrderPlaced"]>>
      [] c.op = "confirm" -> <<>>
      [] c.op = "cancel" -> <<[order |-> c.order, name |-> "OrderCancelled"]>>

\* The transaction: the whole row is overwritten, whatever it holds by now.
SaveTransaction(c) ==
    /\ orders' = [orders EXCEPT ![c.order] = NewStatus(c.op)]
    /\ outbox' = outbox \o IntegrationEvents(c)

\* SaveOrder commits and the client is told so.
SaveOrder(r) ==
    /\ pc[r] = "saving"
    /\ SaveTransaction(cmd[r])
    /\ pc' = [pc EXCEPT ![r] = "ok"]
    /\ UNCHANGED cmd

MutantSaveOrderFailsUpserted(r) ==
    /\ pc[r] = "saving"
    /\ orders' = [orders EXCEPT ![cmd[r].order] = NewStatus(cmd[r].op)]
    /\ pc' = [pc EXCEPT ![r] = "failed"]
    /\ UNCHANGED <<outbox, cmd>>

MutantSaveOrderFailsSwallowed(r) ==
    /\ pc[r] = "saving"
    /\ pc' = [pc EXCEPT ![r] = "ok"]
    /\ UNCHANGED <<orders, outbox, cmd>>

\* SaveOrder fails before its commit: the transaction rolls back.
SaveOrderFails(r) ==
    /\ pc[r] = "saving"
    /\ pc' = [pc EXCEPT ![r] = "failed"]
    /\ UNCHANGED <<orders, outbox, cmd>>

(***************************************************************************)
(* The transaction commits but the client sees an error: the connection is *)
(* lost during COMMIT, or the timeout handler has already answered 503.    *)
(***************************************************************************)
SaveOrderAnswerLost(r) ==
    /\ pc[r] = "saving"
    /\ SaveTransaction(cmd[r])
    /\ pc' = [pc EXCEPT ![r] = "unheard"]
    /\ UNCHANGED cmd
-----------------------------------------------------------------------------
Next ==
    \E r \in Requests :
        \/ \E o \in Orders :
              \/ Create(r, o)
              \/ Confirm(r, o)
              \/ Cancel(r, o)
              \/ \E op \in Ops : Refuse(r, op, o)
        \/ SaveOrder(r)
        \/ SaveOrderFails(r)
        \/ SaveOrderAnswerLost(r)

Spec == Init /\ [][Next]_vars
-----------------------------------------------------------------------------
Placed(o) == [order |-> o, name |-> "OrderPlaced"]
Cancelled(o) == [order |-> o, name |-> "OrderCancelled"]

Recorded(row) == \E i \in 1..Len(outbox) : outbox[i] = row

(***************************************************************************)
(* The transactional outbox: whatever requests overlap, fail or lose their *)
(* answers, an order has a row in orders exactly when its OrderPlaced is   *)
(* in the outbox, and a cancelled order has its OrderCancelled there       *)
(* (SaveOrder writes both tables in one transaction).                      *)
(***************************************************************************)
OutboxComplete ==
    \A o \in Orders :
        /\ orders[o] # "none" <=> Recorded(Placed(o))
        /\ orders[o] = "cancelled" => Recorded(Cancelled(o))

(***************************************************************************)
(* One order has one OrderPlaced, and every OrderCancelled of it comes     *)
(* after: Cancel loads the row that the creating transaction committed.    *)
(***************************************************************************)
PlacedOnceAndFirst ==
    \A i, j \in 1..Len(outbox) :
        outbox[i].order = outbox[j].order /\ outbox[i].name = "OrderPlaced"
            => /\ i <= j
               /\ outbox[j].name = "OrderPlaced" => i = j

(***************************************************************************)
(* An answer of 200 is never taken back: the order a 200 created is still  *)
(* stored, a decision a 200 confirmed has left placed for good, and the    *)
(* OrderCancelled of a cancellation answered 200 is in the outbox, even if *)
(* a later save overwrote the status.                                      *)
(***************************************************************************)
AnswersHonoured ==
    \A r \in Requests : pc[r] = "ok" =>
        LET o == cmd[r].order IN
        /\ orders[o] # "none"
        /\ cmd[r].op # "create" => orders[o] # "placed"
        /\ cmd[r].op = "cancel" => Recorded(Cancelled(o))

(***************************************************************************)
(* A request that was refused, has not saved or was rolled back has        *)
(* changed nothing: each OrderCancelled row is accounted for by a cancel   *)
(* request whose transaction committed, so there are never more rows than  *)
(* such requests.                                                          *)
(***************************************************************************)
CancellationsAccountedFor ==
    \A o \in Orders :
        Cardinality({i \in 1..Len(outbox) : outbox[i] = Cancelled(o)})
            <= Cardinality({r \in Requests :
                    cmd[r] = [op |-> "cancel", order |-> o] /\ Committed(r)})

Lifecycle == INSTANCE OrderLifecycle

(***************************************************************************)
(* Under any overlap of requests, every step of the service stores one     *)
(* status together with its event, or changes neither table.               *)
(***************************************************************************)
ImplementsOutbox == Lifecycle!OutboxSpec

(***************************************************************************)
(* The whole lifecycle (placed to confirmed or cancelled, once, and the    *)
(* event with it), which the service implements when requests are served   *)
(* one at a time.                                                          *)
(***************************************************************************)
ImplementsLifecycle == Lifecycle!Spec

(***************************************************************************)
(* docs/order-business-rules.md, "Forbidden transitions": confirming a     *)
(* non-placed order and cancelling a confirmed or cancelled one.  A stored *)
(* decision is final.                                                      *)
(***************************************************************************)
DecisionIsFinal ==
    [][\A o \in Orders :
          orders[o] \in {"confirmed", "cancelled"} => orders'[o] = orders[o]]_vars
=============================================================================
