---------------------------- MODULE OrderPipeline ----------------------------
(***************************************************************************)
(* The way of an order from the HTTP request to its payment: the order     *)
(* service, its relays and the consumers of the payment service, composed. *)
(*                                                                         *)
(* The parts meet in two places and nowhere else.  The service inserts     *)
(* rows into the outbox that the relays read, and what the relays have     *)
(* sent is the partition that the consumers read.  Every step is one part  *)
(* moving while the others stand still.  All orders share the partition,   *)
(* as the orders that hash to one partition do.                            *)
(***************************************************************************)
EXTENDS Integers, Sequences, FiniteSets

CONSTANTS
    Orders, Requests,               \* of the order service
    Relays, BatchSize,              \* of the relays
    Consumers, Payments, Attempts,  \* of the payment service
    Reasons, OrderCancelled, MaxAttempts,
    ConnectTimeouts,                \* whether a relay's connection may time out
    MaxRelayFaults,                 \* bound: failures of the relays' PostgreSQL and of Kafka
    MaxConsumerFaults               \* bound: failures, restarts and rebalances of consumers

ASSUME BatchSizeAssumption == BatchSize \in Nat \ {0}
ASSUME ConnectTimeoutsAssumption == ConnectTimeouts \in BOOLEAN
ASSUME AttemptsAssumption == Attempts \in Nat \ {0} /\ MaxAttempts \in Nat \ {0}
ASSUME ReasonsAssumption == OrderCancelled \in Reasons /\ "none" \notin Reasons
ASSUME NoOrderAssumption == "none" \notin Orders
ASSUME BoundsAssumption == MaxRelayFaults \in Nat /\ MaxConsumerFaults \in Nat

VARIABLES
    orders, outbox, cmd, pc,                             \* OrderService
    published, sent, late, relay, held, todo, marked,    \* OutboxRelay
    relayFaults,
    payments, created, paymentOutbox, captures, refunds, \* PaymentService
    job, jobPC,
    fits, offset, owner, position, lost,                 \* OrderEventsConsumer
    msg, stage, plan, attempt, consumerFaults, handovers

serviceVars == <<orders, cmd, pc>>
relayVars == <<published, sent, late, relay, held, todo, marked, relayFaults>>
consumerVars == <<payments, created, paymentOutbox, captures, refunds, job, jobPC, fits, offset,
                  owner, position, lost, msg, stage, plan, attempt, consumerFaults, handovers>>
vars == <<serviceVars, outbox, relayVars, consumerVars>>

\* The relay's view of the outbox: a row's key is its aggregate_id.
Keyed == [i \in 1..Len(outbox) |-> outbox[i].order]

\* The consumer's view of the topic: the event in the headers and the payload.
Partition == [n \in 1..Len(sent) |-> outbox[sent[n]]]

Service == INSTANCE OrderService WITH Concurrent <- TRUE

Relaying == INSTANCE OutboxRelay WITH
    Keys <- Orders, RefusedKeys <- {}, MaxRows <- Cardinality(Requests),
    MaxFaults <- MaxRelayFaults, outbox <- Keyed, topic <- sent, faults <- relayFaults

Consuming == INSTANCE OrderEventsConsumer WITH
    Callers <- Consumers, Concurrent <- TRUE, Topics <- {<<>>},
    MaxFaults <- MaxConsumerFaults, outbox <- paymentOutbox, topic <- Partition,
    pc <- jobPC, faults <- consumerFaults

PipelineTypeOK == Service!TypeOK /\ Relaying!TypeOK /\ Consuming!ConsumerTypeOK

PipelineInit == Service!Init /\ Relaying!RelayInit /\ Consuming!ConsumerInit
-----------------------------------------------------------------------------
Serve ==
    /\ UNCHANGED <<relayVars, consumerVars>>
    /\ Service!Next

Relay(r) ==
    /\ UNCHANGED <<serviceVars, outbox, consumerVars>>
    /\ Relaying!RelayStep(r)

Consume(c) ==
    /\ UNCHANGED <<serviceVars, outbox, relayVars, fits, handovers>>
    /\ Consuming!Work(c)

\* A message that a relay no longer waits for reaches the topic.
ArriveLate(m) ==
    /\ UNCHANGED <<serviceVars, outbox, consumerVars>>
    /\ Relaying!Arrive(m)

ConsumeBadly(c) ==
    /\ UNCHANGED <<serviceVars, outbox, relayVars, fits>>
    /\ \/ Consuming!Trouble(c) /\ UNCHANGED handovers
       \/ Consuming!Rebalance(c)

PipelineNext ==
    \/ Serve
    \/ \E r \in Relays : Relay(r)
    \/ \E m \in late : ArriveLate(m)
    \/ \E c \in Consumers : Consume(c) \/ ConsumeBadly(c)

(***************************************************************************)
(* Each relay and each consumer is a goroutine in a loop of its own.       *)
(* Nobody has to send requests, nothing has to fail, and what was left     *)
(* unanswered need not arrive.                                             *)
(***************************************************************************)
PipelineSpec ==
    /\ PipelineInit
    /\ [][PipelineNext]_vars
    /\ \A r \in Relays : WF_vars(Relay(r))
    /\ \A c \in Consumers : WF_vars(Consume(c))
-----------------------------------------------------------------------------
PaymentsOf(o) == {p \in Payments : payments[p].order = o}

CancelledByRequest(o) ==
    \E r \in Requests : cmd[r] = [op |-> "cancel", order |-> o] /\ Service!Committed(r)

(***************************************************************************)
(* Nothing happens to money that no request asked for.  Across three       *)
(* processes, duplicates and reordering, a payment's order is stored in    *)
(* the order service, and it is refunded or given up only when a cancel    *)
(* request has committed (answered 200, or an error after its commit); one *)
(* that was rolled back sets nothing off.                                  *)
(***************************************************************************)
MoneyFollowsRequests ==
    \A o \in Orders :
        /\ PaymentsOf(o) # {} => orders[o] # "none"
        /\ \A p \in PaymentsOf(o) :
              payments[p].status \in {"failed", "refunded"} => CancelledByRequest(o)

(***************************************************************************)
(* Everything recorded has been handled.                                   *)
(***************************************************************************)
Quiet ==
    /\ published = 1..Len(outbox)
    /\ offset = Len(sent) + 1
    /\ \A c \in Consumers : stage[c] = "fetching"

Paid(o) == Cardinality(PaymentsOf(o)) = 1 /\ \A p \in PaymentsOf(o) : payments[p].status = "paid"

Returned(o) ==
    /\ Cardinality(PaymentsOf(o)) = 1
    /\ \A p \in PaymentsOf(o) : payments[p].status \in {"failed", "refunded"}

(***************************************************************************)
(* The two services agree in the end: with every event handled, none       *)
(* abandoned, in order per order, and no rebalance in the middle, a stored *)
(* order has one payment, which is paid, or given back if the order was    *)
(* ever cancelled.  (Repeated publications, restarts of consumers, lost    *)
(* commits and repeated attempts are all allowed.)                         *)
(***************************************************************************)
Agree ==
    \A o \in Orders : orders[o] # "none" =>
        IF \E i \in 1..Len(outbox) : outbox[i] = Service!Cancelled(o)
        THEN Returned(o)
        ELSE Paid(o)

ServicesAgree ==
    Quiet /\ lost = {} /\ handovers = 0 /\ Relaying!InOrderPerKey => Agree

(***************************************************************************)
(* The same without the order per order, as docs/order-business-rules.md,  *)
(* "Ordering is guaranteed only per order_id", lets the payment service    *)
(* assume it.                                                              *)
(***************************************************************************)
ServicesAgreeInAnyOrder == Quiet /\ lost = {} /\ handovers = 0 => Agree

(***************************************************************************)
(* What the order service stored is what was paid: a confirmed order is    *)
(* not one whose money was given back.                                     *)
(***************************************************************************)
ConfirmedOrdersStayPaid ==
    Quiet /\ lost = {} /\ handovers = 0 /\ Relaying!InOrderPerKey =>
        \A o \in Orders : orders[o] = "confirmed" => Paid(o)

(***************************************************************************)
(* Every event of an order gets through: once it is recorded, a copy of it *)
(* is fetched and its handling ends, also behind messages whose payment    *)
(* can never be stored.  The exception is a relay that has stopped.        *)
(***************************************************************************)
Handled(i) ==
    \E n \in 1..(position[owner] - 1) :
        sent[n] = i /\ (stage[owner] = "fetching" \/ msg[owner] # n)

EventsGetThrough ==
    \A i \in 1..Cardinality(Requests) :
        i <= Len(outbox) ~> Handled(i) \/ \A r \in Relays : relay[r] = "stopped"
=============================================================================
