----------------------------- MODULE OutboxRelay -----------------------------
(***************************************************************************)
(* The polling relay of the order service: goroutines, one per process,    *)
(* that move rows of the outbox table to the Kafka topic.                  *)
(*                                                                         *)
(* A relay's batch is one database transaction.  It locks the oldest       *)
(* unpublished rows nobody else holds (FOR UPDATE SKIP LOCKED), publishes  *)
(* them one by one, sets published_at on those Kafka accepted, and         *)
(* commits.  Kafka is not part of the transaction: a rollback forgets the  *)
(* marks and not the messages, and a message handed to Kafka's writer may  *)
(* be appended when the relay has long stopped waiting for it.             *)
(*                                                                         *)
(* A row is its position in the outbox, which is its rank by created_at;   *)
(* its content here is its key, the aggregate identifier.  (Rows of one    *)
(* key become visible in this order, see OrderService; a row of another    *)
(* key that becomes visible late stands where it became visible.)          *)
(* The topic is the order in which Kafka appended the rows; rows of one    *)
(* key share a partition, so that order is the one their consumers see.    *)
(* retry_count is left out: only a log line reads it.  Nothing limits a     *)
(* payload, so there are rows Kafka refuses every time, as too large; here *)
(* they are the rows of some of the keys.                                  *)
(*                                                                         *)
(* The operators named Mutant... are not part of the specification: each   *)
(* is a definition as a plausible mistake would have it, and a property    *)
(* below fails when it takes the real one's place.                         *)
(***************************************************************************)
EXTENDS Integers, Sequences, FiniteSets

CONSTANTS
    Keys,             \* the aggregate identifiers
    RefusedKeys,      \* those of them whose rows Kafka never accepts
    Relays,           \* the relay goroutines, one per replica of the service
    BatchSize,        \* OUTBOX_BATCH_SIZE
    MaxRows,          \* bound: rows the order service ever inserts
    MaxFaults,        \* bound: failures of PostgreSQL or Kafka and restarts, in one behaviour
    ConnectTimeouts   \* whether opening a database connection may time out

ASSUME BatchSizeAssumption == BatchSize \in Nat \ {0}
ASSUME RefusedAssumption == RefusedKeys \subseteq Keys
ASSUME BoundsAssumption == MaxRows \in Nat /\ MaxFaults \in Nat
ASSUME ConnectTimeoutsAssumption == ConnectTimeouts \in BOOLEAN

VARIABLES
    outbox,           \* the outbox table: a sequence of keys
    published,        \* the rows whose published_at is set and committed
    topic,            \* the rows in the topic, in the order Kafka has them
    late,             \* messages handed over and not answered: Kafka may append them yet
    relay,            \* [Relays -> RelayStates]
    held,             \* the rows a relay's transaction has locked
    todo,             \* those of them the relay has yet to publish
    marked,           \* those it has marked published, not yet committed
    faults            \* how many failures there have been

relayVars == <<published, topic, late, relay, held, todo, marked, faults>>
vars == <<outbox, relayVars>>

RelayStates == {"polling", "publishing", "stopped"}

Rows == 1..Len(outbox)

\* A message not answered: its row, and the failure that left it so.
Messages == [row : Rows, fault : 1..MaxFaults]

TypeOK ==
    /\ outbox \in Seq(Keys)
    /\ published \subseteq Rows
    /\ topic \in Seq(Rows)
    /\ late \subseteq Messages
    /\ relay \in [Relays -> RelayStates]
    /\ held \in [Relays -> SUBSET Rows]
    /\ todo \in [Relays -> SUBSET Rows]
    /\ marked \in [Relays -> SUBSET Rows]
    /\ faults \in 0..MaxFaults

RelayInit ==
    /\ published = {}
    /\ topic = <<>>
    /\ late = {}
    /\ relay = [r \in Relays |-> "polling"]
    /\ held = [r \in Relays |-> {}]
    /\ todo = [r \in Relays |-> {}]
    /\ marked = [r \in Relays |-> {}]
    /\ faults = 0

Init == outbox = <<>> /\ RelayInit

\* A transaction of the order service commits a row.
Insert(k) ==
    /\ Len(outbox) < MaxRows
    /\ outbox' = Append(outbox, k)
    /\ UNCHANGED relayVars
-----------------------------------------------------------------------------
MutantOldestShifted(n, S) == {i + 1 : i \in {k \in S : Cardinality({j \in S : j < k}) < n}}

MutantOldestPastCursor(n, S) ==
    {i \in S : Cardinality({j \in S : j < i}) < n /\ \A j \in published : j < i}

\* The n smallest rows of S: ORDER BY created_at LIMIT n.
Oldest(n, S) == {i \in S : Cardinality({j \in S : j < i}) < n}

MutantPendingLocked(r) == Rows \ published

\* Rows with no published_at that no other transaction has locked.
Pending(r) == (Rows \ published) \ UNION {held[q] : q \in Relays}

(***************************************************************************)
(* lockPendingEvents opens the batch.  An empty batch is one too.          *)
(***************************************************************************)
LockPendingEvents(r) ==
    /\ relay[r] = "polling"
    /\ relay' = [relay EXCEPT ![r] = "publishing"]
    /\ held' = [held EXCEPT ![r] = Oldest(BatchSize, Pending(r))]
    /\ todo' = [todo EXCEPT ![r] = Oldest(BatchSize, Pending(r))]
    /\ UNCHANGED <<outbox, published, topic, late, marked, faults>>

\* The row the loop over the batch is at.
Current(r, i) ==
    /\ relay[r] = "publishing"
    /\ i \in todo[r]
    /\ \A j \in todo[r] : i <= j

Refused(i) == outbox[i] \in RefusedKeys

\* Kafka accepts the row and markPublished sets its published_at.
Publish(r, i) ==
    /\ Current(r, i)
    /\ ~Refused(i)
    /\ topic' = Append(topic, i)
    /\ todo' = [todo EXCEPT ![r] = @ \ {i}]
    /\ marked' = [marked EXCEPT ![r] = @ \cup {i}]
    /\ UNCHANGED <<outbox, published, late, relay, held, faults>>

Fault ==
    /\ faults < MaxFaults
    /\ faults' = faults + 1

(***************************************************************************)
(* Publish returns an error: the message is refused, or Kafka fails.  The  *)
(* row is counted as retried and the loop goes on with the next one.       *)
(***************************************************************************)
PublishFails(r, i) ==
    /\ Current(r, i)
    /\ IF Refused(i) THEN UNCHANGED faults ELSE Fault
    /\ todo' = [todo EXCEPT ![r] = @ \ {i}]
    /\ UNCHANGED <<outbox, published, topic, late, relay, held, marked>>

\* The message of row i that the failure of this step leaves unanswered.
Unanswered(i) == [row |-> i, fault |-> faults + 1]

(***************************************************************************)
(* A request to Kafka goes unanswered, and nobody knows whether the        *)
(* message is, or will be, in the topic.  WriteMessages tries again, or    *)
(* this was its last attempt and Publish returns an error.                 *)
(***************************************************************************)
PublishUnanswered(r, i) ==
    /\ Current(r, i)
    /\ ~Refused(i)
    /\ Fault
    /\ late' = late \cup {Unanswered(i)}
    /\ todo' \in {todo, [todo EXCEPT ![r] = @ \ {i}]}
    /\ UNCHANGED <<outbox, published, topic, relay, held, marked>>

\* The end of the transaction, either way: its locks and its marks are gone.
EndTransaction(r) ==
    /\ relay[r] = "publishing"
    /\ relay' = [relay EXCEPT ![r] = "polling"]
    /\ held' = [held EXCEPT ![r] = {}]
    /\ todo' = [todo EXCEPT ![r] = {}]
    /\ marked' = [marked EXCEPT ![r] = {}]

MutantCommitHeld(r) ==
    /\ EndTransaction(r)
    /\ todo[r] = {}
    /\ published' = published \cup held[r]
    /\ UNCHANGED <<outbox, topic, late, faults>>

MutantCommitForgetsMarks(r) ==
    /\ EndTransaction(r)
    /\ todo[r] = {}
    /\ UNCHANGED <<outbox, topic, late, faults, published>>

\* The whole batch has been tried.
Commit(r) ==
    /\ EndTransaction(r)
    /\ todo[r] = {}
    /\ published' = published \cup marked[r]
    /\ UNCHANGED <<outbox, topic, late, faults>>

(***************************************************************************)
(* Any database error inside the transaction, or the end of the process,   *)
(* which is started again: the transaction rolls back.  If the relay was   *)
(* waiting for Kafka's writer, the writer keeps the message: WriteMessages *)
(* returns as soon as its context is cancelled, and what it queued is      *)
(* flushed by the Close that main deferred, or by the writer's own timer.  *)
(***************************************************************************)
RollBack(r) ==
    /\ EndTransaction(r)
    /\ Fault
    /\ \/ UNCHANGED late
       \/ \E i \in todo[r] :
             Current(r, i) /\ ~Refused(i) /\ late' = late \cup {Unanswered(i)}
    /\ UNCHANGED <<outbox, published, topic>>

(***************************************************************************)
(* Beginning the transaction needs a connection, and DB_CONNECT_TIMEOUT    *)
(* runs out: the error is a context.DeadlineExceeded, which Run takes for  *)
(* the end of its own context, and the goroutine returns.                  *)
(***************************************************************************)
ConnectTimesOut(r) ==
    /\ ConnectTimeouts
    /\ relay[r] = "polling"
    /\ Fault
    /\ relay' = [relay EXCEPT ![r] = "stopped"]
    /\ UNCHANGED <<outbox, published, topic, late, held, todo, marked>>

(***************************************************************************)
(* Kafka appends a message nobody waits for any more, whoever may have     *)
(* published, marked and committed its row by now.  If the writer still    *)
(* has it and loses the answer, it sends the message again.                *)
(***************************************************************************)
Arrive(m) ==
    /\ topic' = Append(topic, m.row)
    /\ \/ late' = late \ {m} /\ UNCHANGED faults
       \/ late' = (late \ {m}) \cup {Unanswered(m.row)} /\ Fault
    /\ UNCHANGED <<outbox, published, relay, held, todo, marked>>
-----------------------------------------------------------------------------
RelayStep(r) ==
    \/ LockPendingEvents(r)
    \/ \E i \in todo[r] :
          Publish(r, i) \/ PublishFails(r, i) \/ PublishUnanswered(r, i)
    \/ Commit(r)
    \/ RollBack(r)
    \/ ConnectTimesOut(r)

Next ==
    \/ \E k \in Keys : Insert(k)
    \/ \E r \in Relays : RelayStep(r)
    \/ \E m \in late : Arrive(m)

(***************************************************************************)
(* Run is a loop in a goroutine of its own and its calls return, so each   *)
(* relay keeps moving; nothing makes the order service insert rows, a late *)
(* message arrive, or anything fail.                                       *)
(***************************************************************************)
Fairness == \A r \in Relays : WF_vars(RelayStep(r))

Spec == Init /\ [][Next]_vars
FairSpec == Spec /\ Fairness
-----------------------------------------------------------------------------
Sent(i) == {n \in 1..Len(topic) : topic[n] = i}

(***************************************************************************)
(* A row that two relays could hand to Kafka, or one again after it was    *)
(* marked, would show up here: rows in the hands of a relay                *)
(* are its own and not yet published, and what it has marked is in Kafka.  *)
(***************************************************************************)
BatchesDisjoint ==
    \A r \in Relays :
        /\ held[r] \cap published = {}
        /\ \A q \in Relays \ {r} : held[r] \cap held[q] = {}
        /\ todo[r] \cup marked[r] \subseteq held[r]
        /\ todo[r] \cap marked[r] = {}

(***************************************************************************)
(* Duplicates are the price of failures only: a row is in the topic at     *)
(* most once more than the failures so far, whatever the relays do at the  *)
(* same time (locks, and published_at committed with them) and however     *)
(* late its messages arrive.                                               *)
(***************************************************************************)
DuplicatesNeedFaults == \A i \in Rows : Cardinality(Sent(i)) <= 1 + faults

Delivery == INSTANCE EventDelivery WITH
    log <- outbox, acked <- published, underway <- {m.row : m \in late}

(***************************************************************************)
(* The relays together deliver at least once: published_at is set only on  *)
(* rows in the topic, and no relay hands Kafka a row so marked.  (What was *)
(* handed over before may arrive after the mark: see Arrive.)              *)
(***************************************************************************)
ImplementsDelivery == Delivery!Spec

(***************************************************************************)
(* The first copies of two rows of one key are in the topic in the order   *)
(* in which the order service recorded them.                               *)
(***************************************************************************)
FirstSent(i) == CHOOSE n \in Sent(i) : \A m \in Sent(i) : n <= m

InOrderPerKey ==
    \A i, j \in Rows :
        i < j /\ outbox[i] = outbox[j] /\ Sent(j) # {}
            => Sent(i) # {} /\ FirstSent(i) < FirstSent(j)

(***************************************************************************)
(* A row does not stay behind while a relay runs: once PostgreSQL and      *)
(* Kafka stop failing it is published, whichever relay held it when it     *)
(* failed or stopped, and past older rows that Kafka refuses every time,   *)
(* as long as these do not fill a batch of their own.                      *)
(***************************************************************************)
OlderRefused(i) == {j \in 1..(i - 1) : Refused(j)}

PublishedWhileARelayRuns ==
    \A i \in 1..MaxRows :
        i \in Rows /\ ~Refused(i) /\ Cardinality(OlderRefused(i)) < BatchSize
            ~> i \in published \/ \A r \in Relays : relay[r] = "stopped"

(***************************************************************************)
(* docs/order-business-rules.md, "emits reliable integration events":      *)
(* every recorded event that Kafka can take reaches the topic and is       *)
(* marked, once PostgreSQL and Kafka stop failing.                         *)
(***************************************************************************)
EventuallyPublished ==
    \A i \in 1..MaxRows : i \in Rows /\ ~Refused(i) ~> i \in published
=============================================================================
