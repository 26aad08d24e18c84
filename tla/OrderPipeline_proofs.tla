------------------------- MODULE OrderPipeline_proofs -------------------------
(***************************************************************************)
(* Proofs about the order service, its relays and the consumers of its     *)
(* events put together, for every number of requests, relays, consumers    *)
(* and orders, and any number of failures, restarts and rebalances.        *)
(*                                                                         *)
(* The invariants of the parts are those of their own proof modules, each  *)
(* instantiated as OrderPipeline instantiates the part.  What is proved    *)
(* here is that the parts meet as each one assumes: the service gives the  *)
(* relays an outbox that only grows, and the relays give the consumers a   *)
(* topic that only grows.                                                  *)
(***************************************************************************)
EXTENDS OrderPipeline, FiniteSetTheorems, TLAPS

ServiceP == INSTANCE OrderService_proofs WITH Concurrent <- TRUE

\* MaxRows bounds only Insert, which Serve stands for here.
RelayingP == INSTANCE OutboxRelay_proofs WITH
    Keys <- Orders, RefusedKeys <- {}, MaxRows <- 0,
    MaxFaults <- MaxRelayFaults, outbox <- Keyed, topic <- sent, faults <- relayFaults

ConsumingP == INSTANCE OrderEventsConsumer_proofs WITH
    Callers <- Consumers, Concurrent <- TRUE, Topics <- {<<>>},
    MaxFaults <- MaxConsumerFaults, outbox <- paymentOutbox, topic <- Partition,
    pc <- jobPC, faults <- consumerFaults

(***************************************************************************)
(* The instances of the proof modules are those of OrderPipeline.          *)
(***************************************************************************)
LEMMA SameService ==
    /\ Service!Init <=> ServiceP!Init
    /\ Service!TypeOK <=> ServiceP!TypeOK
BY DEF
   Service!Init, ServiceP!Init, Service!TypeOK, ServiceP!TypeOK, Service!Statuses, ServiceP!Statuses,
   Service!OutboxRows, ServiceP!OutboxRows, Service!Commands, ServiceP!Commands,
   Service!NoCommand, ServiceP!NoCommand, Service!PCs, ServiceP!PCs, Service!Ops, ServiceP!Ops

LEMMA SameServiceSteps == Service!Next <=> ServiceP!Next
BY DEF
   Service!Next, ServiceP!Next, Service!vars, ServiceP!vars, Service!Create, ServiceP!Create,
   Service!Confirm, ServiceP!Confirm, Service!Cancel, ServiceP!Cancel, Service!Refuse, ServiceP!Refuse,
   Service!FreshId, ServiceP!FreshId, Service!Receive, ServiceP!Receive, Service!Idle, ServiceP!Idle,
   Service!SaveOrder, ServiceP!SaveOrder, Service!SaveOrderFails, ServiceP!SaveOrderFails,
   Service!SaveOrderAnswerLost, ServiceP!SaveOrderAnswerLost,
   Service!SaveTransaction, ServiceP!SaveTransaction, Service!NewStatus, ServiceP!NewStatus,
   Service!IntegrationEvents, ServiceP!IntegrationEvents, Service!Ops, ServiceP!Ops

LEMMA SameRelays ==
    /\ Relaying!RelayInit <=> RelayingP!RelayInit
    /\ Relaying!TypeOK <=> RelayingP!TypeOK
BY DEF
   Relaying!RelayInit, RelayingP!RelayInit, Relaying!TypeOK, RelayingP!TypeOK,
   Relaying!RelayStates, RelayingP!RelayStates, Relaying!Rows, RelayingP!Rows,
   Relaying!Messages, RelayingP!Messages

LEMMA SameRelaySteps ==
    ASSUME NEW r \in Relays
    PROVE  Relaying!RelayStep(r) <=> RelayingP!RelayStep(r)
<1>1. \A n, S : Relaying!Oldest(n, S) = RelayingP!Oldest(n, S)
  <2>1. \A S : Relaying!Cardinality(S) = RelayingP!Cardinality(S)
    BY DEF Relaying!Cardinality, RelayingP!Cardinality, Relaying!IsFiniteSet, RelayingP!IsFiniteSet
  <2> QED BY <2>1 DEF Relaying!Oldest, RelayingP!Oldest
<1>2. Relaying!Pending(r) = RelayingP!Pending(r)
  BY DEF Relaying!Pending, RelayingP!Pending, Relaying!Rows, RelayingP!Rows
<1>3. Relaying!LockPendingEvents(r) <=> RelayingP!LockPendingEvents(r)
  BY <1>1, <1>2 DEF Relaying!LockPendingEvents, RelayingP!LockPendingEvents
<1>4. ASSUME NEW i
      PROVE  /\ Relaying!Publish(r, i) <=> RelayingP!Publish(r, i)
             /\ Relaying!PublishFails(r, i) <=> RelayingP!PublishFails(r, i)
             /\ Relaying!PublishUnanswered(r, i) <=> RelayingP!PublishUnanswered(r, i)
  BY DEF
   Relaying!Publish, RelayingP!Publish, Relaying!PublishFails, RelayingP!PublishFails,
   Relaying!PublishUnanswered, RelayingP!PublishUnanswered, Relaying!Current, RelayingP!Current,
   Relaying!Refused, RelayingP!Refused, Relaying!Fault, RelayingP!Fault,
   Relaying!Unanswered, RelayingP!Unanswered
<1>5. /\ Relaying!Commit(r) <=> RelayingP!Commit(r)
      /\ Relaying!RollBack(r) <=> RelayingP!RollBack(r)
      /\ Relaying!ConnectTimesOut(r) <=> RelayingP!ConnectTimesOut(r)
  BY DEF
   Relaying!Commit, RelayingP!Commit, Relaying!RollBack, RelayingP!RollBack,
   Relaying!ConnectTimesOut, RelayingP!ConnectTimesOut,
   Relaying!EndTransaction, RelayingP!EndTransaction, Relaying!Fault, RelayingP!Fault,
   Relaying!Current, RelayingP!Current, Relaying!Refused, RelayingP!Refused,
   Relaying!Unanswered, RelayingP!Unanswered
<1> QED BY <1>3, <1>4, <1>5 DEF Relaying!RelayStep, RelayingP!RelayStep

LEMMA SameArrivals == \A m : Relaying!Arrive(m) <=> RelayingP!Arrive(m)
BY DEF Relaying!Arrive, RelayingP!Arrive, Relaying!Fault, RelayingP!Fault,
       Relaying!Unanswered, RelayingP!Unanswered

LEMMA SameConsumers ==
    /\ Consuming!ConsumerInit <=> ConsumingP!ConsumerInit
    /\ Consuming!ConsumerTypeOK <=> ConsumingP!ConsumerTypeOK
<1>1. /\ Consuming!NoRow = ConsumingP!NoRow /\ Consuming!NoJob = ConsumingP!NoJob
      /\ Consuming!NoPlan = ConsumingP!NoPlan
      /\ Consuming!Events = ConsumingP!Events /\ Consuming!PCs = ConsumingP!PCs
      /\ Consuming!Stages = ConsumingP!Stages
  BY DEF
   Consuming!NoRow, ConsumingP!NoRow, Consuming!NoJob, ConsumingP!NoJob,
   Consuming!NoPlan, ConsumingP!NoPlan, Consuming!Events, ConsumingP!Events,
   Consuming!PCs, ConsumingP!PCs, Consuming!Stages, ConsumingP!Stages
<1>2. /\ Consuming!Rows = ConsumingP!Rows /\ Consuming!Jobs = ConsumingP!Jobs
      /\ Consuming!Plans = ConsumingP!Plans /\ Consuming!Messages = ConsumingP!Messages
  BY <1>1 DEF
   Consuming!Rows, ConsumingP!Rows, Consuming!Jobs, ConsumingP!Jobs, Consuming!Plans, ConsumingP!Plans,
   Consuming!Messages, ConsumingP!Messages, Consuming!Statuses, ConsumingP!Statuses,
   Consuming!Ops, ConsumingP!Ops, Consuming!Events, ConsumingP!Events
<1>3. Consuming!ConsumerInit <=> ConsumingP!ConsumerInit
  BY <1>1 DEF Consuming!ConsumerInit, ConsumingP!ConsumerInit, Consuming!Init, ConsumingP!Init
<1>4. Consuming!ConsumerTypeOK <=> ConsumingP!ConsumerTypeOK
  BY <1>1, <1>2 DEF
   Consuming!ConsumerTypeOK, ConsumingP!ConsumerTypeOK, Consuming!TypeOK, ConsumingP!TypeOK
<1> QED BY <1>3, <1>4

LEMMA SameConsumerSteps ==
    ASSUME NEW c \in Consumers
    PROVE  /\ Consuming!Work(c) <=> ConsumingP!Work(c)
           /\ Consuming!Trouble(c) <=> ConsumingP!Trouble(c)
           /\ Consuming!Rebalance(c) <=> ConsumingP!Rebalance(c)
BY DEF
   Consuming!Work, ConsumingP!Work, Consuming!Trouble, ConsumingP!Trouble,
   Consuming!Rebalance, ConsumingP!Rebalance, Consuming!Fetch, ConsumingP!Fetch,
   Consuming!Look, ConsumingP!Look, Consuming!DecodeFails, ConsumingP!DecodeFails,
   Consuming!Issue, ConsumingP!Issue, Consuming!IssueRefused, ConsumingP!IssueRefused,
   Consuming!CommandStep, ConsumingP!CommandStep,
   Consuming!CommandSucceeded, ConsumingP!CommandSucceeded,
   Consuming!CommandFailed, ConsumingP!CommandFailed, Consuming!Reload, ConsumingP!Reload,
   Consuming!Commit, ConsumingP!Commit, Consuming!CommitRejected, ConsumingP!CommitRejected,
   Consuming!LookFails, ConsumingP!LookFails, Consuming!IssueFails, ConsumingP!IssueFails,
   Consuming!ReloadFails, ConsumingP!ReloadFails, Consuming!CommitFails, ConsumingP!CommitFails,
   Consuming!Restart, ConsumingP!Restart, Consuming!Shutdown, ConsumingP!Shutdown,
   Consuming!Fault, ConsumingP!Fault, Consuming!vars, ConsumingP!vars,
   Consuming!handlerVars, ConsumingP!handlerVars, Consuming!At, ConsumingP!At,
   Consuming!GoTo, ConsumingP!GoTo, Consuming!NoPlan, ConsumingP!NoPlan,
   Consuming!Message, ConsumingP!Message, Consuming!PlanFor, ConsumingP!PlanFor,
   Consuming!Return, ConsumingP!Return, Consuming!groupVars, ConsumingP!groupVars,
   Consuming!ReturnError, ConsumingP!ReturnError, Consuming!Create, ConsumingP!Create,
   Consuming!MarkPaid, ConsumingP!MarkPaid, Consuming!MarkFailed, ConsumingP!MarkFailed,
   Consuming!Refund, ConsumingP!Refund, Consuming!Acceptable, ConsumingP!Acceptable,
   Consuming!ProviderAccepts, ConsumingP!ProviderAccepts, Consuming!Save, ConsumingP!Save,
   Consuming!Storable, ConsumingP!Storable, Consuming!SaveFails, ConsumingP!SaveFails,
   Consuming!ProviderFails, ConsumingP!ProviderFails,
   Consuming!SaveAnswerLost, ConsumingP!SaveAnswerLost, Consuming!TakeAnswer, ConsumingP!TakeAnswer,
   Consuming!Running, ConsumingP!Running, Consuming!NoJob, ConsumingP!NoJob,
   Consuming!tables, ConsumingP!tables, Consuming!ledger, ConsumingP!ledger,
   Consuming!PaymentsOf, ConsumingP!PaymentsOf, Consuming!Latest, ConsumingP!Latest,
   Consuming!FreshId, ConsumingP!FreshId, Consuming!Idle, ConsumingP!Idle,
   Consuming!Decide, ConsumingP!Decide, Consuming!Loaded, ConsumingP!Loaded,
   Consuming!CarryOut, ConsumingP!CarryOut, Consuming!SaveTransaction, ConsumingP!SaveTransaction,
   Consuming!Without, ConsumingP!Without, Consuming!RowAfter, ConsumingP!RowAfter,
   Consuming!EventsOf, ConsumingP!EventsOf, Consuming!Stored, ConsumingP!Stored,
   Consuming!NoRow, ConsumingP!NoRow

----------------------------------------------------------------------------
(***************************************************************************)
(* The invariants of the parts, each over its view of the others' state.   *)
(***************************************************************************)
ServiceInv == ServiceP!RequestInv /\ ServiceP!TablesInv /\ ServiceP!CancellationsInv

DeliveryInv == RelayingP!RelaysInv /\ RelayingP!MarkedSent

PaymentsInv == ConsumingP!CountsInv /\ ConsumingP!AskedInv /\ ConsumingP!QuietInv

PartsInv == ServiceInv /\ DeliveryInv /\ PaymentsInv

LEMMA InitPartsInv == PipelineInit => PartsInv
<1> SUFFICES ASSUME PipelineInit PROVE PartsInv
  OBVIOUS
<1>1. ServiceP!Init /\ RelayingP!RelayInit /\ ConsumingP!ConsumerInit
  BY SameService, SameRelays, SameConsumers DEF PipelineInit
<1>2. ServiceInv
  BY <1>1, ServiceP!InitRequestInv, ServiceP!InitTablesInv, ServiceP!InitCancellationsInv
     DEF ServiceInv
<1>3. DeliveryInv
  <2>1. Keyed = <<>>
    BY <1>1 DEF Keyed, ServiceP!Init
  <2>2. RelayingP!Init
    BY <1>1, <2>1 DEF RelayingP!Init
  <2> QED BY <2>2, RelayingP!InitRelaysInv, RelayingP!InitMarkedSent, BatchSizeAssumption,
             ConnectTimeoutsAssumption, BoundsAssumption DEF DeliveryInv
<1>4. PaymentsInv
  BY <1>1, ConsumingP!InitCountsInv, ConsumingP!InitAskedInv, ConsumingP!InitQuietInv,
     AttemptsAssumption, ReasonsAssumption, NoOrderAssumption, BoundsAssumption DEF PaymentsInv
<1> QED BY <1>2, <1>3, <1>4 DEF PartsInv

\* What the parts know of the two places where they meet.
LEMMA Meeting ==
    ASSUME PartsInv
    PROVE  /\ outbox \in Seq(ServiceP!OutboxRows) /\ Len(outbox) \in Nat
           /\ sent \in Seq(1..Len(outbox)) /\ Len(sent) \in Nat
           /\ Len(Keyed) = Len(outbox) /\ Keyed \in Seq(Orders)
           /\ \A i \in 1..Len(outbox) : Keyed[i] = outbox[i].order
           /\ Len(Partition) = Len(sent)
           /\ \A n \in 1..Len(sent) : sent[n] \in 1..Len(outbox) /\ Partition[n] = outbox[sent[n]]
<1>1. outbox \in Seq(ServiceP!OutboxRows) /\ Len(outbox) \in Nat
  BY DEF PartsInv, ServiceInv, ServiceP!RequestInv, ServiceP!TypeOK
<1>2. Len(Keyed) = Len(outbox) /\ \A i \in 1..Len(outbox) : Keyed[i] = outbox[i].order
  BY <1>1 DEF Keyed
<1>3. sent \in Seq(1..Len(outbox)) /\ Len(sent) \in Nat /\ Keyed \in Seq(Orders)
  BY <1>2 DEF PartsInv, DeliveryInv, RelayingP!RelaysInv, RelayingP!TypeOK, RelayingP!Rows
<1>4. /\ Len(Partition) = Len(sent)
      /\ \A n \in 1..Len(sent) : sent[n] \in 1..Len(outbox) /\ Partition[n] = outbox[sent[n]]
  BY <1>3 DEF Partition
<1> QED BY <1>1, <1>2, <1>3, <1>4

----------------------------------------------------------------------------
(***************************************************************************)
(* One part moves while the others stand still, or see only a longer       *)
(* outbox or a longer topic.                                               *)
(***************************************************************************)
LEMMA ServiceStands ==
    ASSUME ServiceInv, UNCHANGED <<serviceVars, outbox>>
    PROVE  ServiceInv'
<1>1. [ServiceP!Next]_(ServiceP!vars)
  BY DEF serviceVars, ServiceP!vars
<1> QED BY <1>1, ServiceP!NextKeepsRequestInv, ServiceP!NextKeepsTablesInv,
           ServiceP!StepKeepsCancellations DEF ServiceInv

LEMMA RelaysStand ==
    ASSUME DeliveryInv, UNCHANGED <<outbox, relayVars>>
    PROVE  DeliveryInv'
<1>1. Keyed' = Keyed
  BY DEF Keyed
<1>2. [RelayingP!Next]_(RelayingP!vars)
  BY <1>1 DEF relayVars, RelayingP!vars, RelayingP!relayVars
<1> QED BY <1>2, RelayingP!NextKeepsRelaysInv, RelayingP!StepKeepsMarkedSent, BatchSizeAssumption,
           ConnectTimeoutsAssumption, BoundsAssumption DEF DeliveryInv

LEMMA ConsumerStepKeeps ==
    ASSUME PaymentsInv, [ConsumingP!ConsumerNext]_(ConsumingP!allVars)
    PROVE  PaymentsInv'
BY ConsumingP!NextKeepsCounts, ConsumingP!NextKeepsAsked, ConsumingP!NextKeepsQuiet,
   AttemptsAssumption, ReasonsAssumption, NoOrderAssumption, BoundsAssumption DEF PaymentsInv

LEMMA ConsumersStand ==
    ASSUME PaymentsInv, UNCHANGED <<consumerVars, Partition>>
    PROVE  PaymentsInv'
<1>1. UNCHANGED ConsumingP!allVars
  BY DEF consumerVars, ConsumingP!allVars, ConsumingP!vars, ConsumingP!consumerVars,
         ConsumingP!groupVars, ConsumingP!handlerVars
<1> QED BY <1>1, ConsumerStepKeeps

LEMMA ServeKeepsPartsInv ==
    ASSUME PartsInv, Serve
    PROVE  PartsInv'
<1>1. ServiceP!Next /\ UNCHANGED <<relayVars, consumerVars>>
  BY SameServiceSteps DEF Serve
<1>2. ServiceInv'
  BY <1>1, ServiceP!NextKeepsRequestInv, ServiceP!NextKeepsTablesInv,
     ServiceP!StepKeepsCancellations DEF PartsInv, ServiceInv
<1>3. /\ Len(outbox) \in Nat /\ Len(outbox') \in Nat /\ Len(outbox) <= Len(outbox')
      /\ \A i \in 1..Len(outbox) : outbox'[i] = outbox[i]
  BY <1>1, ServiceP!OutboxGrows DEF PartsInv, ServiceInv
<1>4. Len(Keyed) = Len(outbox) /\ Len(Keyed') = Len(outbox') /\ Keyed' \in Seq(Orders)
  <2>1. outbox' \in Seq(ServiceP!OutboxRows)
    BY <1>2 DEF ServiceInv, ServiceP!RequestInv, ServiceP!TypeOK
  <2>2. \A i \in 1..Len(outbox') : outbox'[i] \in ServiceP!OutboxRows
    BY <2>1
  <2>3. \A row \in ServiceP!OutboxRows : row.order \in Orders
    BY DEF ServiceP!OutboxRows
  <2> QED BY <1>3, <2>2, <2>3 DEF Keyed
<1>5. RelayingP!RowsGrow
  BY <1>1, <1>3, <1>4 DEF RelayingP!RowsGrow, RelayingP!relayVars, relayVars
<1>6. DeliveryInv'
  BY <1>5, RelayingP!GrowthKeepsRelaysInv, RelayingP!GrowthKeepsMarkedSent, BatchSizeAssumption,
     ConnectTimeoutsAssumption, BoundsAssumption DEF PartsInv, DeliveryInv
<1>7. Partition' = Partition
  <2>1. sent' = sent /\ \A n \in 1..Len(sent) : sent[n] \in 1..Len(outbox)
    BY <1>1, Meeting DEF relayVars
  <2> QED BY <1>3, <2>1 DEF Partition
<1>8. PaymentsInv'
  BY <1>1, <1>7, ConsumersStand DEF PartsInv
<1> QED BY <1>2, <1>6, <1>8 DEF PartsInv

LEMMA RelayKeepsPartsInv ==
    ASSUME PartsInv, (\E r \in Relays : Relay(r)) \/ \E m \in late : ArriveLate(m)
    PROVE  PartsInv'
<1>1. /\ (\E r \in Relays : RelayingP!RelayStep(r)) \/ \E m \in late : RelayingP!Arrive(m)
      /\ UNCHANGED <<serviceVars, outbox, consumerVars>>
  BY SameRelaySteps, SameArrivals DEF Relay, ArriveLate
<1>2. ServiceInv'
  BY <1>1, ServiceStands DEF PartsInv
<1>3. DeliveryInv'
  <2>1. RelayingP!Next
    BY <1>1 DEF RelayingP!Next
  <2> QED BY <2>1, RelayingP!NextKeepsRelaysInv, RelayingP!StepKeepsMarkedSent, BatchSizeAssumption,
             ConnectTimeoutsAssumption, BoundsAssumption DEF PartsInv, DeliveryInv
<1>4. sent' = sent \/ \E i : sent' = Append(sent, i)
  BY <1>1, RelayingP!StepAppends, BatchSizeAssumption, ConnectTimeoutsAssumption, BoundsAssumption
<1>5. /\ outbox \in Seq(ServiceP!OutboxRows) /\ Len(sent) \in Nat
      /\ sent \in Seq(1..Len(outbox)) /\ Len(Keyed) = Len(outbox) /\ Keyed' = Keyed
  BY <1>1, Meeting DEF Keyed
<1>6. sent' \in Seq(1..Len(outbox))
  BY <1>3, <1>5 DEF DeliveryInv, RelayingP!RelaysInv, RelayingP!TypeOK, RelayingP!Rows
<1>7. /\ Len(sent') \in Nat /\ Len(sent) <= Len(sent')
      /\ \A n \in 1..Len(sent) : sent'[n] = sent[n]
  BY <1>4, <1>5
<1>8. /\ Len(Partition) = Len(sent) /\ Len(Partition') = Len(sent')
      /\ \A n \in 1..Len(sent) : Partition'[n] = Partition[n]
  BY <1>1, <1>5, <1>7 DEF Partition
<1>9. Partition' \in Seq(ConsumingP!Messages)
  <2>1. ServiceP!OutboxRows \subseteq ConsumingP!Messages
    BY DEF ServiceP!OutboxRows, ConsumingP!Messages
  <2>2. \A n \in 1..Len(sent') : outbox[sent'[n]] \in ConsumingP!Messages
    BY <1>5, <1>6, <2>1
  <2> QED BY <1>1, <1>7, <2>2 DEF Partition
<1>10. ConsumingP!TopicGrows
  BY <1>1, <1>7, <1>8, <1>9 DEF consumerVars, ConsumingP!TopicGrows, ConsumingP!vars, ConsumingP!tables,
     ConsumingP!ledger, ConsumingP!handlerVars
<1>11. PaymentsInv'
  BY <1>10, ConsumingP!GrowthKeepsCounts, ConsumingP!GrowthKeepsAsked, ConsumingP!GrowthKeepsQuiet,
     AttemptsAssumption, ReasonsAssumption, NoOrderAssumption, BoundsAssumption
     DEF PartsInv, PaymentsInv, ConsumingP!CountsInv
<1> QED BY <1>2, <1>3, <1>11 DEF PartsInv

LEMMA ConsumeKeepsPartsInv ==
    ASSUME PartsInv, NEW c \in Consumers, Consume(c) \/ ConsumeBadly(c)
    PROVE  PartsInv'
<1>1. UNCHANGED <<serviceVars, outbox, relayVars, fits>>
  BY DEF Consume, ConsumeBadly
<1>2. ServiceInv' /\ DeliveryInv'
  BY <1>1, ServiceStands, RelaysStand DEF PartsInv
<1>3. ConsumingP!ConsumerNext
  BY SameConsumerSteps DEF Consume, ConsumeBadly, ConsumingP!ConsumerNext
<1>4. PaymentsInv'
  BY <1>3, ConsumerStepKeeps DEF PartsInv
<1> QED BY <1>2, <1>4 DEF PartsInv

LEMMA NextKeepsPartsInv == PartsInv /\ [PipelineNext]_vars => PartsInv'
<1> SUFFICES ASSUME PartsInv, [PipelineNext]_vars PROVE PartsInv'
  OBVIOUS
<1>1. CASE UNCHANGED vars
  <2>1. UNCHANGED <<serviceVars, outbox, relayVars, consumerVars>> /\ Partition' = Partition
    BY <1>1 DEF vars, serviceVars, relayVars, consumerVars, Partition
  <2> QED BY <2>1, ServiceStands, RelaysStand, ConsumersStand DEF PartsInv
<1> QED BY <1>1, ServeKeepsPartsInv, RelayKeepsPartsInv, ConsumeKeepsPartsInv DEF PipelineNext

THEOREM PartsInvariant == PipelineSpec => []PartsInv
BY InitPartsInv, NextKeepsPartsInv, PTL DEF PipelineSpec

(***************************************************************************)
(* The parts stay well typed when they are put together.                   *)
(***************************************************************************)
THEOREM PipelineTypeCorrect == PipelineSpec => []PipelineTypeOK
<1>1. PartsInv => PipelineTypeOK
  BY SameService, SameRelays, SameConsumers
     DEF PartsInv, ServiceInv, DeliveryInv, PaymentsInv, ServiceP!RequestInv, RelayingP!RelaysInv,
         ConsumingP!CountsInv, ConsumingP!ConsumerInv, PipelineTypeOK
<1> QED BY <1>1, PartsInvariant, PTL

----------------------------------------------------------------------------
(***************************************************************************)
(* Where money comes from.  No HTTP request reaches the payment service    *)
(* here, so a payment has a message behind it, a message a row of the      *)
(* outbox, and a row the request that committed it.                        *)
(***************************************************************************)
LEMMA EventBehindMessage ==
    ASSUME PartsInv, NEW name, NEW o, ConsumingP!InTopic(name, o)
    PROVE  \E i \in 1..Len(outbox) : outbox[i] = [order |-> o, name |-> name]
<1>1. PICK n \in 1..Len(Partition) : Partition[n] = [name |-> name, order |-> o]
  BY DEF ConsumingP!InTopic
<1>2. sent[n] \in 1..Len(outbox) /\ Partition[n] = outbox[sent[n]]
  BY Meeting
<1> QED BY <1>1, <1>2

LEMMA PaymentsHaveEvents ==
    ASSUME PartsInv, NEW o \in Orders, NEW p \in PaymentsOf(o)
    PROVE  /\ \E i \in 1..Len(outbox) : outbox[i] = [order |-> o, name |-> "OrderPlaced"]
           /\ payments[p].status \in {"failed", "refunded"} =>
                \E i \in 1..Len(outbox) : outbox[i] = [order |-> o, name |-> "OrderCancelled"]
           /\ payments[p].status \in {"pending", "paid", "failed", "refunded"}
<1>1. p \in Payments /\ payments[p].order = o
  BY DEF PaymentsOf
<1>2. \A op : ConsumingP!RequestsDoing(op, o) = {}
  BY DEF ConsumingP!RequestsDoing, ConsumingP!HTTPRequests
<1>3. ConsumingP!Stored(p)
  BY <1>1, NoOrderAssumption DEF ConsumingP!Stored, ConsumingP!NoRow
<1>4. /\ ConsumingP!InTopic("OrderPlaced", o)
      /\ payments[p].status \in {"failed", "refunded"} => ConsumingP!InTopic("OrderCancelled", o)
  BY <1>1, <1>2, <1>3 DEF PartsInv, PaymentsInv, ConsumingP!AskedInv, ConsumingP!PaymentsAskedFor,
     ConsumingP!PlacedAsked, ConsumingP!CancelAsked
<1>5. payments[p].status \in {"pending", "paid", "failed", "refunded"}
  <2>1. payments[p] \in ConsumingP!Rows
    BY <1>1, <1>3 DEF ConsumingP!Stored, PartsInv, PaymentsInv, ConsumingP!CountsInv,
       ConsumingP!ConsumerInv, ConsumingP!ConsumerTypeOK, ConsumingP!TypeOK
  <2> QED BY <2>1 DEF ConsumingP!Rows, ConsumingP!Statuses
<1> QED BY <1>4, <1>5, EventBehindMessage

(***************************************************************************)
(* Nothing happens to money that no request asked for, for every number of *)
(* relays and consumers, all failures of PostgreSQL and Kafka, duplicates, *)
(* restarts and rebalances.                                                *)
(***************************************************************************)
THEOREM MoneyFollows == PipelineSpec => []MoneyFollowsRequests
<1>1. PartsInv => MoneyFollowsRequests
  <2> SUFFICES ASSUME PartsInv, NEW o \in Orders, NEW p \in PaymentsOf(o)
               PROVE  /\ orders[o] # "none"
                      /\ payments[p].status \in {"failed", "refunded"} => CancelledByRequest(o)
    BY DEF MoneyFollowsRequests
  <2>1. orders[o] # "none"
    <3>1. PICK i \in 1..Len(outbox) : outbox[i] = [order |-> o, name |-> "OrderPlaced"]
      BY PaymentsHaveEvents
    <3> QED BY <3>1 DEF PartsInv, ServiceInv, ServiceP!TablesInv, ServiceP!RowsOfStoredOrders
  <2>2. ASSUME payments[p].status \in {"failed", "refunded"} PROVE CancelledByRequest(o)
    <3>1. ServiceP!CancelRows(o) # {}
      BY <2>2, PaymentsHaveEvents DEF ServiceP!CancelRows, ServiceP!Cancelled
    <3>2. ServiceP!Cancellers(o) # {}
      BY <3>1, ServiceP!CancelRowsHaveCancellers DEF PartsInv, ServiceInv, ServiceP!RequestInv
    <3> QED BY <3>2
        DEF ServiceP!Cancellers, ServiceP!Committed, Service!Committed, CancelledByRequest
  <2> QED BY <2>1, <2>2
<1> QED BY <1>1, PartsInvariant, PTL

----------------------------------------------------------------------------
(***************************************************************************)
(* Agreement.  When all is quiet, every row of the outbox is in the topic  *)
(* and handled; CommitsOK and CancelsOK say what the handlers have left.   *)
(***************************************************************************)
LEMMA AllHandled ==
    ASSUME PartsInv, Quiet, NEW i \in 1..Len(outbox)
    PROVE  \E n \in Relaying!Sent(i) :
             n \in 1..(offset - 1) /\ n \in 1..Len(sent) /\ Partition[n] = outbox[i]
<1>1. RelayingP!Claimed(i) /\ i \in RelayingP!Rows
  BY Meeting DEF Quiet, RelayingP!Claimed, RelayingP!Rows
<1>2. PICK n \in 1..Len(sent) : sent[n] = i
  BY <1>1 DEF PartsInv, DeliveryInv, RelayingP!MarkedSent
<1>3. n \in Relaying!Sent(i)
  BY <1>2 DEF Relaying!Sent
<1>4. Len(sent) \in Nat /\ Partition[n] = outbox[i]
  BY <1>2, Meeting
<1>5. n \in 1..(offset - 1)
  BY <1>2, <1>4 DEF Quiet
<1> QED BY <1>2, <1>3, <1>4, <1>5

LEMMA OrdersAreDecided ==
    ASSUME PartsInv, Quiet, lost = {}, handovers = 0, NEW o \in Orders, orders[o] # "none"
    PROVE  \E p \in Payments : PaymentsOf(o) = {p} /\ payments[p].status # "pending"
<1>1. PICK i \in 1..Len(outbox) : outbox[i] = [order |-> o, name |-> "OrderPlaced"]
  BY DEF PartsInv, ServiceInv, ServiceP!TablesInv, ServiceP!OutboxComplete, ServiceP!Recorded,
         ServiceP!Placed
<1>2. PICK n \in 1..(offset - 1) : Partition[n] = outbox[i]
  BY AllHandled
<1>3. ConsumingP!Decided(o)
  BY <1>1, <1>2 DEF PartsInv, PaymentsInv, ConsumingP!CountsInv, ConsumingP!ConsumerInv,
     ConsumingP!CommitsOK, ConsumingP!Settled
<1>4. PICK p \in PaymentsOf(o) : payments[p].status # "pending"
  BY <1>3 DEF ConsumingP!Decided, ConsumingP!PaymentsOf, PaymentsOf
<1>5. \A q \in PaymentsOf(o) : q = p
  <2>1. ConsumingP!Quiet
    BY DEF ConsumingP!Quiet, ConsumingP!HTTPRequests
  <2>2. \A q, r \in ConsumingP!PaymentsOf(o) : q = r
    BY <2>1, ConsumingP!QuietFacts, AttemptsAssumption, ReasonsAssumption, NoOrderAssumption,
       BoundsAssumption DEF PartsInv, PaymentsInv
  <2> QED BY <2>2 DEF ConsumingP!PaymentsOf, PaymentsOf
<1> QED BY <1>4, <1>5 DEF PaymentsOf

\* In order per order, the first copy of an OrderPlaced is before that of an OrderCancelled.
LEMMA PlacedIsSentFirst ==
    ASSUME PartsInv, Quiet, Relaying!InOrderPerKey, NEW o \in Orders,
           NEW k \in 1..Len(outbox), outbox[k] = [order |-> o, name |-> "OrderCancelled"]
    PROVE  \E n, m \in 1..(offset - 1) :
             /\ n < m
             /\ Partition[n] = [order |-> o, name |-> "OrderPlaced"]
             /\ Partition[m] = [order |-> o, name |-> "OrderCancelled"]
<1>1. PICK i \in 1..Len(outbox) : outbox[i] = [order |-> o, name |-> "OrderPlaced"]
  <2>1. orders[o] # "none"
    BY DEF PartsInv, ServiceInv, ServiceP!TablesInv, ServiceP!RowsOfStoredOrders
  <2> QED BY <2>1 DEF PartsInv, ServiceInv, ServiceP!TablesInv, ServiceP!OutboxComplete,
                      ServiceP!Recorded, ServiceP!Placed
<1>2. i < k
  <2>1. i <= k /\ i # k
    BY <1>1 DEF PartsInv, ServiceInv, ServiceP!TablesInv, ServiceP!PlacedOnceAndFirst
  <2> QED BY <2>1, Meeting
<1>3. ASSUME NEW j \in 1..Len(outbox)
      PROVE  /\ Relaying!Sent(j) # {}
             /\ Relaying!FirstSent(j) \in 1..(offset - 1)
             /\ Partition[Relaying!FirstSent(j)] = outbox[j]
  <2> DEFINE S == Relaying!Sent(j)
  <2>1. S # {}
    BY AllHandled
  <2>2. S \in SUBSET Nat
    BY Meeting DEF Relaying!Sent
  <2>3. \E n \in S : \A m \in S : n <= m
    <3> HIDE DEF S
    <3> QED BY <2>1, <2>2, ConsumingP!LeastElement, AttemptsAssumption, ReasonsAssumption,
               NoOrderAssumption, BoundsAssumption
  <2>4. Relaying!FirstSent(j) \in S
    BY <2>3 DEF Relaying!FirstSent
  <2> QED BY <2>1, <2>4, Meeting DEF Relaying!Sent, Quiet
<1>4. Relaying!FirstSent(i) < Relaying!FirstSent(k)
  BY <1>1, <1>2, <1>3, Meeting DEF Relaying!InOrderPerKey, Relaying!Rows
<1> QED BY <1>1, <1>3, <1>4

(***************************************************************************)
(* The two services agree: with every event handled, none abandoned and no *)
(* rebalance in the middle, what the relays delivered in order per order   *)
(* has left each stored order paid once, or given back if it was ever      *)
(* cancelled.                                                              *)
(***************************************************************************)
THEOREM ServicesAgreeInTheEnd == PipelineSpec => []ServicesAgree
<1>1. PartsInv => ServicesAgree
  <2> SUFFICES ASSUME PartsInv, Quiet, lost = {}, handovers = 0, Relaying!InOrderPerKey,
                      NEW o \in Orders, orders[o] # "none"
               PROVE  IF \E i \in 1..Len(outbox) : outbox[i] = Service!Cancelled(o)
                      THEN Returned(o) ELSE Paid(o)
    BY DEF ServicesAgree, Agree
  <2>1. PICK p \in Payments : PaymentsOf(o) = {p} /\ payments[p].status # "pending"
    BY OrdersAreDecided
  <2>2. Cardinality(PaymentsOf(o)) = 1
    BY <2>1, FS_Singleton
  <2>3. ASSUME NEW k \in 1..Len(outbox), outbox[k] = Service!Cancelled(o) PROVE Returned(o)
    <3>1. PICK n, m \in 1..(offset - 1) :
                 /\ n < m
                 /\ Partition[n] = [order |-> o, name |-> "OrderPlaced"]
                 /\ Partition[m] = [order |-> o, name |-> "OrderCancelled"]
      BY <2>3, PlacedIsSentFirst DEF Service!Cancelled
    <3>2. n \in 1..(m - 1)
      BY <3>1, Meeting DEF Quiet
    <3>3. ConsumingP!CancelSettled(m)
      BY DEF PartsInv, PaymentsInv, ConsumingP!QuietInv, ConsumingP!Quiet, ConsumingP!HTTPRequests,
             ConsumingP!CancelsOK
    <3>4. ConsumingP!PlacedBefore(m)
      BY <3>1, <3>2 DEF ConsumingP!PlacedBefore
    <3>5. ConsumingP!Closed(o)
      BY <3>1, <3>3, <3>4 DEF ConsumingP!CancelSettled
    <3> QED BY <2>2, <3>5 DEF Returned, ConsumingP!Closed, ConsumingP!PaymentsOf, PaymentsOf
  <2>4. ASSUME ~\E i \in 1..Len(outbox) : outbox[i] = Service!Cancelled(o) PROVE Paid(o)
    <3>1. payments[p].status = "paid"
      BY <2>1, <2>4, PaymentsHaveEvents DEF Service!Cancelled
    <3> QED BY <2>1, <2>2, <3>1 DEF Paid
  <2> QED BY <2>3, <2>4
<1> QED BY <1>1, PartsInvariant, PTL
=============================================================================
