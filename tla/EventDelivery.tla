---------------------------- MODULE EventDelivery ----------------------------
(***************************************************************************)
(* At-least-once delivery of a log of events, as a reader of the topic may *)
(* rely on it: only recorded events are sent, only what is in the topic is *)
(* acknowledged, and no sending of an event begins after it was            *)
(* acknowledged.  One that began before may reach the topic afterwards, so *)
(* a reader sees copies of an event at any later time.                     *)
(***************************************************************************)
EXTENDS Naturals, Sequences

CONSTANT Keys         \* what an event is keyed by: the aggregate identifiers

VARIABLES
    log,              \* the recorded events, oldest first, each one its key
    topic,            \* the positions in log of the events sent, in order of sending
    underway,         \* the positions of which a copy may still reach the topic
    acked             \* the positions of which no more copies are sent

deliveryVars == <<log, topic, underway, acked>>

DeliveryInit ==
    /\ log = <<>>
    /\ topic = <<>>
    /\ underway = {}
    /\ acked = {}

Record(k) ==
    /\ log' = Append(log, k)
    /\ UNCHANGED <<topic, underway, acked>>

\* A copy is sent and is in the topic at once.
Send(i) ==
    /\ i \notin acked
    /\ topic' = Append(topic, i)
    /\ UNCHANGED <<log, underway, acked>>

\* A copy is sent, and reaches the topic later or never.
HandOver(i) ==
    /\ i \notin acked
    /\ underway' = underway \cup {i}
    /\ UNCHANGED <<log, topic, acked>>

\* It was not the last copy under way, perhaps.
Arrive(i) ==
    /\ topic' = Append(topic, i)
    /\ underway' \in {underway, underway \ {i}}
    /\ UNCHANGED <<log, acked>>

Acknowledge(S) ==
    /\ \A i \in S : \E n \in 1..Len(topic) : topic[n] = i
    /\ acked' = acked \cup S
    /\ UNCHANGED <<log, topic, underway>>

DeliveryNext ==
    \/ \E k \in Keys : Record(k)
    \/ \E i \in 1..Len(log) : Send(i) \/ HandOver(i)
    \/ \E i \in underway : Arrive(i)
    \/ \E S \in SUBSET (1..Len(log)) : Acknowledge(S)

Spec == DeliveryInit /\ [][DeliveryNext]_deliveryVars
=============================================================================
