------------------------- MODULE OrderEventsConsumer -------------------------
(***************************************************************************)
(* The consumer of order.events in the payment service: goroutines of one  *)
(* consumer group that fetch a message, run its handler with retries, log  *)
(* the error if the last attempt failed too, and commit the offset in      *)
(* either case.                                                            *)
(*                                                                         *)
(* The handlers look the payment of the order up and then issue commands   *)
(* of PaymentService, each of which loads the payment again; a consumer is *)
(* therefore a caller of that module, next to the HTTP requests.  The      *)
(* topic is one partition, fixed in advance; the consumer that owns it     *)
(* fetches from its own position, and an owner that takes over starts from *)
(* the committed offset, while the previous one may still be handling.     *)
(***************************************************************************)
EXTENDS PaymentService

CONSTANTS
    Consumers,        \* the consumer goroutines, one per replica
    Topics,           \* the contents order.events may have: sequences of messages
    MaxAttempts,      \* PAYMENT_CONSUMER_RETRY_MAX_ATTEMPTS
    MaxFaults,        \* bound: failures, restarts and rebalances in one behaviour
    OrderCancelled    \* the reason "order_cancelled" that the handler gives

ASSUME ConsumersAssumption == Consumers \subseteq Callers
ASSUME MaxAttemptsAssumption == MaxAttempts \in Nat \ {0}
ASSUME ReasonAssumption == OrderCancelled \in Reasons
ASSUME MaxFaultsAssumption == MaxFaults \in Nat

VARIABLES
    fits,             \* whether PAYMENT_DEFAULT_AMOUNT fits the amount column; never changes
    topic,            \* the messages of the partition
    offset,           \* the committed offset: the first message not committed
    owner,            \* the consumer the partition is assigned to
    position,         \* [Consumers -> Nat]: the message to fetch next
    msg,              \* [Consumers -> Nat]: the message in hand, 0 before the first
    stage,            \* [Consumers -> Stages]: where the handler is
    plan,             \* [Consumers -> Plans]: the command to issue, and on what
    attempt,          \* [Consumers -> Nat]: the attempt of the retry policy
    lost,             \* the messages whose handling ended in an error
    faults,           \* how many failures there have been
    handovers         \* history: how many of them were rebalances

groupVars == <<topic, offset, owner, position, lost>>
handlerVars == <<msg, stage, plan, attempt>>
consumerVars == <<fits, groupVars, handlerVars, faults, handovers>>
allVars == <<vars, consumerVars>>

HTTPRequests == Callers \ Consumers

\* Broken: a payload that does not decode; Other: an event name with no handler.
Messages == [name : {"OrderPlaced", "OrderCancelled", "Broken", "Other"}, order : Orders]

ASSUME TopicsAssumption == Topics \subseteq Seq(Messages)

(***************************************************************************)
(* fetching: in FetchMessage; looking: about to call GetByOrderID;         *)
(* issuing: about to run the planned command; waiting: inside it;          *)
(* reloading: about to call GetByID after MarkPaid; committing: the        *)
(* handler has returned.                                                   *)
(***************************************************************************)
Stages == {"fetching", "looking", "issuing", "waiting", "reloading", "committing"}

NoPlan == [op |-> "none"]
Plans == [op : Ops, payment : Payments] \cup {NoPlan, [op |-> "create"]}

ConsumerTypeOK ==
    /\ TypeOK
    /\ fits \in BOOLEAN
    /\ topic \in Seq(Messages)
    /\ offset \in 1..(Len(topic) + 1)
    /\ owner \in Consumers
    /\ position \in [Consumers -> 1..(Len(topic) + 1)]
    /\ msg \in [Consumers -> 0..Len(topic)]
    /\ stage \in [Consumers -> Stages]
    /\ plan \in [Consumers -> Plans]
    /\ attempt \in [Consumers -> 1..MaxAttempts]
    /\ lost \subseteq 1..Len(topic)
    /\ faults \in 0..MaxFaults
    /\ handovers \in 0..faults

ConsumerInit ==
    /\ Init
    /\ fits \in BOOLEAN
    /\ topic \in Topics
    /\ offset = 1
    /\ owner \in Consumers
    /\ position = [c \in Consumers |-> 1]
    /\ msg = [c \in Consumers |-> 0]
    /\ stage = [c \in Consumers |-> "fetching"]
    /\ plan = [c \in Consumers |-> NoPlan]
    /\ attempt = [c \in Consumers |-> 1]
    /\ lost = {}
    /\ faults = 0
    /\ handovers = 0

Fault ==
    /\ faults < MaxFaults
    /\ faults' = faults + 1
-----------------------------------------------------------------------------
\* The consumer's own moves leave the payment service alone.
At(c, st) == stage[c] = st /\ UNCHANGED vars

GoTo(c, st, pl) ==
    /\ stage' = [stage EXCEPT ![c] = st]
    /\ plan' = [plan EXCEPT ![c] = pl]

Return(c) ==
    /\ GoTo(c, "committing", NoPlan)
    /\ UNCHANGED <<msg, attempt, groupVars>>

MutantReturnErrorForever(c) ==
    /\ GoTo(c, "looking", NoPlan)
    /\ UNCHANGED <<msg, attempt, groupVars>>

(***************************************************************************)
(* The handler returns an error: the retry policy starts it again from the *)
(* beginning, or gives up, and Run logs the error.                         *)
(***************************************************************************)
ReturnError(c) ==
    \/ /\ attempt[c] < MaxAttempts
       /\ attempt' = [attempt EXCEPT ![c] = @ + 1]
       /\ GoTo(c, "looking", NoPlan)
       /\ UNCHANGED <<msg, groupVars>>
    \/ /\ attempt[c] = MaxAttempts
       /\ lost' = lost \cup {msg[c]}
       /\ GoTo(c, "committing", NoPlan)
       /\ UNCHANGED <<msg, attempt, topic, offset, owner, position>>

Fetch(c) ==
    /\ At(c, "fetching")
    /\ owner = c /\ position[c] <= Len(topic)
    /\ msg' = [msg EXCEPT ![c] = position[c]]
    /\ position' = [position EXCEPT ![c] = @ + 1]
    /\ attempt' = [attempt EXCEPT ![c] = 1]
    /\ GoTo(c, "looking", NoPlan)
    /\ UNCHANGED <<topic, offset, owner, lost, faults>>

Message(c) == topic[msg[c]]

PaymentsOf(o) == {p \in Payments : payments[p].order = o}

\* GetByOrderID: ORDER BY created_at DESC LIMIT 1.
Latest(o) ==
    LET last == CHOOSE i \in 1..Len(created) :
                    /\ created[i] \in PaymentsOf(o)
                    /\ \A j \in (i + 1)..Len(created) : created[j] \notin PaymentsOf(o)
    IN  created[last]

MutantPlanForAlwaysCreates(m) ==
    IF m.name = "OrderPlaced" THEN [op |-> "create"] ELSE NoPlan

MutantPlanForPaysAgain(m) ==
    LET none == PaymentsOf(m.order) = {}
        p == Latest(m.order)
    IN CASE m.name = "OrderPlaced" /\ none -> [op |-> "create"]
         [] m.name = "OrderPlaced" /\ ~none -> [op |-> "paid", payment |-> p]
         [] m.name = "OrderCancelled" /\ ~none /\ payments[p].status = "paid" ->
              [op |-> "refund", payment |-> p]
         [] m.name = "OrderCancelled" /\ ~none /\ payments[p].status = "pending" ->
              [op |-> "failed", payment |-> p]
         [] OTHER -> NoPlan

MutantPlanForNoRefund(m) ==
    LET none == PaymentsOf(m.order) = {}
        p == Latest(m.order)
    IN CASE m.name = "OrderPlaced" /\ none -> [op |-> "create"]
         [] m.name = "OrderPlaced" /\ ~none /\ payments[p].status = "pending" ->
              [op |-> "paid", payment |-> p]
         [] m.name = "OrderCancelled" /\ ~none /\ payments[p].status = "pending" ->
              [op |-> "failed", payment |-> p]
         [] OTHER -> NoPlan

(***************************************************************************)
(* What the handlers decide on the payment they looked up: OrderPlaced     *)
(* creates a payment or pays a pending one, OrderCancelled refunds a paid  *)
(* one or fails a pending one, and everything else is done already.        *)
(***************************************************************************)
PlanFor(m) ==
    LET none == PaymentsOf(m.order) = {}
        p == Latest(m.order)
        found(status) == ~none /\ payments[p].status = status
    IN CASE m.name = "OrderPlaced" /\ none -> [op |-> "create"]
         [] m.name = "OrderPlaced" /\ found("pending") -> [op |-> "paid", payment |-> p]
         [] m.name = "OrderCancelled" /\ found("paid") -> [op |-> "refund", payment |-> p]
         [] m.name = "OrderCancelled" /\ found("pending") -> [op |-> "failed", payment |-> p]
         [] OTHER -> NoPlan

Look(c) ==
    /\ At(c, "looking")
    /\ Message(c).name # "Broken"
    /\ LET pl == PlanFor(Message(c)) IN
       \/ pl = NoPlan /\ Return(c)
       \/ /\ pl # NoPlan
          /\ GoTo(c, "issuing", pl)
          /\ UNCHANGED <<msg, attempt, groupVars>>
    /\ UNCHANGED faults

\* The payload does not decode, which no retry mends.
DecodeFails(c) ==
    /\ At(c, "looking")
    /\ Message(c).name = "Broken"
    /\ ReturnError(c)
    /\ UNCHANGED faults

\* GetByOrderID fails.
LookFails(c) ==
    /\ At(c, "looking")
    /\ Message(c).name \in {"OrderPlaced", "OrderCancelled"}
    /\ Fault
    /\ ReturnError(c)
-----------------------------------------------------------------------------
(***************************************************************************)
(* Running a command of the payment service.  It loads the payment again   *)
(* and may refuse what the handler saw as possible.                        *)
(***************************************************************************)
Issue(c) ==
    /\ stage[c] = "issuing"
    /\ \/ /\ plan[c].op = "create"
          /\ \E p \in Payments :
                /\ Create(c, p, Message(c).order)
                /\ GoTo(c, "waiting", [op |-> "create", payment |-> p])
       \/ /\ plan[c].op # "create"
          /\ LET p == plan[c].payment IN
             \/ plan[c].op = "paid" /\ MarkPaid(c, p)
             \/ plan[c].op = "failed" /\ MarkFailed(c, p, OrderCancelled)
             \/ plan[c].op = "refund" /\ Refund(c, p)
          /\ GoTo(c, "waiting", plan[c])
    /\ UNCHANGED <<msg, attempt, groupVars, faults>>

Acceptable(op, p) ==
    \/ op = "paid" /\ payments[p].status \in {"pending", "paid"}
    \/ op = "failed" /\ \/ payments[p].status = "pending"
                        \/ payments[p].status = "failed" /\ payments[p].reason = OrderCancelled
    \/ op = "refund" /\ payments[p].status \in {"paid", "refunded"}

IssueRefused(c) ==
    /\ At(c, "issuing")
    /\ plan[c].op # "create" /\ ~Acceptable(plan[c].op, plan[c].payment)
    /\ ReturnError(c)
    /\ UNCHANGED faults

\* The command's own GetByID fails.
IssueFails(c) ==
    /\ At(c, "issuing")
    /\ plan[c].op # "create"
    /\ Fault
    /\ ReturnError(c)

(***************************************************************************)
(* The column is DECIMAL(10, 2): it holds eight digits before the point,   *)
(* and the aggregate's amount is an int64 that only has to be positive.    *)
(* The consumer gives every payment the same configured amount.            *)
(***************************************************************************)
Storable(c) == plan[c].op = "create" => fits

\* A step of the running command; those that need not go wrong are counted if they do.
CommandStep(c) ==
    /\ stage[c] = "waiting"
    /\ \/ ProviderAccepts(c) /\ UNCHANGED faults
       \/ Save(c) /\ Storable(c) /\ UNCHANGED faults
       \/ SaveFails(c) /\ IF Storable(c) THEN Fault ELSE UNCHANGED faults
       \/ ProviderFails(c) /\ Fault
       \/ SaveAnswerLost(c) /\ Storable(c) /\ Fault
    /\ UNCHANGED <<groupVars, handlerVars>>

TakeAnswer(c, answer) ==
    /\ stage[c] = "waiting"
    /\ pc[c] = answer
    /\ pc' = [pc EXCEPT ![c] = "idle"]
    /\ job' = [job EXCEPT ![c] = NoJob]
    /\ UNCHANGED <<tables, ledger, faults>>

(***************************************************************************)
(* The command succeeded.  A payment just created is paid next; a payment  *)
(* just paid is loaded again.                                              *)
(***************************************************************************)
CommandSucceeded(c) ==
    /\ TakeAnswer(c, "ok")
    /\ \/ /\ plan[c].op = "create"
          /\ GoTo(c, "issuing", [op |-> "paid", payment |-> plan[c].payment])
          /\ UNCHANGED <<msg, attempt, groupVars>>
       \/ /\ plan[c].op = "paid"
          /\ GoTo(c, "reloading", plan[c])
          /\ UNCHANGED <<msg, attempt, groupVars>>
       \/ plan[c].op \in {"failed", "refund"} /\ Return(c)

CommandFailed(c) ==
    /\ TakeAnswer(c, "failed")
    /\ ReturnError(c)

(***************************************************************************)
(* handleOrderPlaced would pay again a payment that is still pending here; *)
(* ReloadIsLast says that it never is.                                     *)
(***************************************************************************)
Reload(c) ==
    /\ At(c, "reloading")
    /\ Return(c)
    /\ UNCHANGED faults

ReloadFails(c) ==
    /\ At(c, "reloading")
    /\ Fault
    /\ ReturnError(c)
-----------------------------------------------------------------------------
MutantCommitBeyond(c) ==
    /\ At(c, "committing")
    /\ offset' = msg[c] + 2
    /\ GoTo(c, "fetching", NoPlan)
    /\ UNCHANGED <<msg, attempt, topic, owner, position, lost, faults>>

(***************************************************************************)
(* The reader sends the commit with its current membership of the group,   *)
(* and the coordinator asks for no more: a former owner that is still a    *)
(* member moves the offset as well, forwards or back.                      *)
(***************************************************************************)
Commit(c) ==
    /\ At(c, "committing")
    /\ offset' = msg[c] + 1
    /\ GoTo(c, "fetching", NoPlan)
    /\ UNCHANGED <<msg, attempt, topic, owner, position, lost, faults>>

\* A former owner's membership may be out of date; Run goes on all the same.
CommitRejected(c) ==
    /\ At(c, "committing")
    /\ owner # c
    /\ GoTo(c, "fetching", NoPlan)
    /\ UNCHANGED <<msg, attempt, groupVars, faults>>

CommitFails(c) ==
    /\ At(c, "committing")
    /\ Fault
    /\ GoTo(c, "fetching", NoPlan)
    /\ UNCHANGED <<msg, attempt, groupVars>>

(***************************************************************************)
(* The partition is assigned to d, which starts at the committed offset.   *)
(* Nobody waits for the handler of the previous owner.                     *)
(***************************************************************************)
Rebalance(d) ==
    /\ owner # d
    /\ Fault
    /\ owner' = d
    /\ handovers' = handovers + 1
    /\ position' = [position EXCEPT ![d] = offset]
    /\ UNCHANGED <<vars, topic, offset, lost, handlerVars>>

(***************************************************************************)
(* The process dies and is started again.  A command it was running is     *)
(* first brought to one of its ends, which nobody is left to see.          *)
(***************************************************************************)
Restart(c) ==
    /\ ~Running(c)
    /\ Fault
    /\ GoTo(c, "fetching", NoPlan)
    /\ position' = IF owner = c THEN [position EXCEPT ![c] = offset] ELSE position
    /\ pc' = [pc EXCEPT ![c] = "idle"]
    /\ job' = [job EXCEPT ![c] = NoJob]
    /\ UNCHANGED <<tables, ledger, topic, offset, owner, lost, msg, attempt>>

(***************************************************************************)
(* Shutdown cancels the context in the middle of a message: the handler    *)
(* returns the cancellation, which is not retried, and CommitMessages,     *)
(* called with the same context, finds both the commit queue ready and the *)
(* context done and takes either.  The process is then started again.      *)
(***************************************************************************)
Shutdown(c) ==
    /\ stage[c] \in {"looking", "issuing", "waiting", "reloading"}
    /\ ~Running(c)
    /\ Fault
    /\ GoTo(c, "fetching", NoPlan)
    /\ \/ offset' = msg[c] + 1 /\ lost' = lost \cup {msg[c]}
       \/ UNCHANGED <<offset, lost>>
    /\ position' = IF owner = c THEN [position EXCEPT ![c] = offset'] ELSE position
    /\ pc' = [pc EXCEPT ![c] = "idle"]
    /\ job' = [job EXCEPT ![c] = NoJob]
    /\ UNCHANGED <<tables, ledger, topic, owner, msg, attempt>>
-----------------------------------------------------------------------------
\* What a consumer does by itself.
Work(c) ==
    \/ Fetch(c)
    \/ Look(c)
    \/ DecodeFails(c)
    \/ Issue(c)
    \/ IssueRefused(c)
    \/ CommandStep(c)
    \/ CommandSucceeded(c)
    \/ CommandFailed(c)
    \/ Reload(c)
    \/ Commit(c)
    \/ CommitRejected(c)

\* What goes wrong around it.
Trouble(c) ==
    \/ LookFails(c)
    \/ IssueFails(c)
    \/ ReloadFails(c)
    \/ CommitFails(c)
    \/ Restart(c)
    \/ Shutdown(c)

ConsumerNext ==
    \/ \E c \in Consumers : (Work(c) \/ Trouble(c)) /\ UNCHANGED <<fits, handovers>>
    \/ \E c \in Consumers : Rebalance(c) /\ UNCHANGED fits
    \/ \E r \in HTTPRequests :
          (Command(r) \/ Refuse(r) \/ Progress(r)) /\ UNCHANGED consumerVars

ConsumerSpec == ConsumerInit /\ [][ConsumerNext]_allVars

(***************************************************************************)
(* Run loops in its own goroutine, and every call it makes returns.        *)
(***************************************************************************)
ConsumerFairSpec == ConsumerSpec /\ \A c \in Consumers : WF_allVars(Work(c) /\ UNCHANGED <<fits, handovers>>)
-----------------------------------------------------------------------------
(***************************************************************************)
(* After a successful MarkPaid the payment is not pending, whatever other  *)
(* callers do: no save ever takes a stored payment back to pending.        *)
(***************************************************************************)
ReloadIsLast ==
    \A c \in Consumers :
        stage[c] = "reloading" => payments[plan[c].payment].status \in Statuses \ {"pending"}

RequestsDoing(op, o) == {r \in HTTPRequests : job[r] # NoJob /\ job[r].op = op /\ job[r].order = o}

(***************************************************************************)
(* Redelivery does not charge again: messages repeated in the topic, or    *)
(* fetched again after a lost commit, add no payment and no capture by     *)
(* themselves.  An order gets at most one payment more for each time the   *)
(* partition changed hands, whether or not that overtook a handler, and    *)
(* for each request that creates one; its payments together are captured   *)
(* by one command, and by another for each failure, each change of hands   *)
(* and each request.  (One command may capture up to Attempts times, as    *)
(* the client retries.  Refunds are not counted.)                          *)
(***************************************************************************)
ExtraPaymentsExplained ==
    \A o \in Orders :
        Cardinality(PaymentsOf(o)) <= 1 + handovers + Cardinality(RequestsDoing("create", o))

\* The captures of an order's payments, each with its number.
Charges(o) == UNION {{p} \X (1..captures[p]) : p \in PaymentsOf(o)}

ChargesExplained ==
    \A o \in Orders :
        Cardinality(Charges(o))
            <= Attempts * (1 + faults + handovers + Cardinality(RequestsDoing("create", o))
                             + Cardinality(RequestsDoing("paid", o)))

(***************************************************************************)
(* docs/order-business-rules.md, "Consumers must treat duplicate events as *)
(* normal and handle them idempotently": however often OrderPlaced is      *)
(* delivered, the order has one payment.                                   *)
(***************************************************************************)
OnePaymentPerOrder == \A o \in Orders : Cardinality(PaymentsOf(o)) <= 1

(***************************************************************************)
(* A committed OrderPlaced whose handling was not abandoned has paid for   *)
(* its order, or found the payment decided: a commit never overtakes the   *)
(* handler, not even when earlier commits failed.                          *)
(***************************************************************************)
CommittedOrdersDecided ==
    \A i \in 1..(offset - 1) :
        topic[i].name = "OrderPlaced" /\ i \notin lost =>
            \E p \in PaymentsOf(topic[i].order) : payments[p].status # "pending"

(***************************************************************************)
(* A cancelled order does not stay charged: once its OrderCancelled is     *)
(* committed, after its OrderPlaced and with no handling abandoned, its    *)
(* payment is failed or refunded, and redelivered events do not pay it     *)
(* again.  (Unless a rebalance or a request interferes.)                   *)
(***************************************************************************)
PlacedBefore(i) ==
    \E j \in 1..(i - 1) : topic[j] = [name |-> "OrderPlaced", order |-> topic[i].order]

CancelledOrdersSettled ==
    lost = {} /\ handovers = 0 /\ (\A r \in HTTPRequests : job[r] = NoJob) =>
        \A i \in 1..(offset - 1) :
            topic[i].name = "OrderCancelled" /\ PlacedBefore(i) =>
                \A p \in PaymentsOf(topic[i].order) : payments[p].status \in {"failed", "refunded"}

(***************************************************************************)
(* docs/resilience.md: the consumer "retries HandleMessage before logging  *)
(* the failure and committing the message".  A message is committed with   *)
(* its handling abandoned only after MaxAttempts attempts.                 *)
(***************************************************************************)
AbandonedAfterRetries ==
    [][\A i \in lost' \ lost :
          \E c \in Consumers : msg[c] = i /\ attempt[c] = MaxAttempts]_allVars

(***************************************************************************)
(* No message blocks the partition: its owner comes to the end, even past  *)
(* a message whose handler always fails.                                   *)
(***************************************************************************)
PartitionDrains ==
    <>[](position[owner] = Len(topic) + 1 /\ stage[owner] = "fetching")
=============================================================================
