------------------------- MODULE OutboxRelay_proofs -------------------------
(***************************************************************************)
(* Proofs about the relay for every number of replicas, rows, keys and     *)
(* failures, and every size of a batch.                                    *)
(***************************************************************************)
EXTENDS OutboxRelay, FiniteSetTheorems, TLAPS

(***************************************************************************)
(* Outside a transaction a relay has no row: without this the next batch   *)
(* would begin with the marks of the last.                                 *)
(***************************************************************************)
NothingBetweenBatches ==
    \A r \in Relays :
        relay[r] # "publishing" => held[r] = {} /\ todo[r] = {} /\ marked[r] = {}

RelaysInv == TypeOK /\ BatchesDisjoint /\ NothingBetweenBatches

----------------------------------------------------------------------------
(***************************************************************************)
(* RelaysInv is inductive: one lemma per kind of step.                     *)
(***************************************************************************)
LEMMA InitRelaysInv == Init => RelaysInv
<1> SUFFICES ASSUME Init PROVE RelaysInv
  OBVIOUS
<1>1. outbox = <<>> /\ topic = <<>> /\ faults = 0 /\ published = {}
  BY DEF Init, RelayInit
<1>2. TypeOK
  <2>1. outbox \in Seq(Keys) /\ topic \in Seq(Rows) /\ faults \in 0..MaxFaults
    BY <1>1, BoundsAssumption
  <2> QED BY <1>1, <2>1 DEF Init, RelayInit, TypeOK, RelayStates
<1>3. BatchesDisjoint /\ NothingBetweenBatches
  BY DEF Init, RelayInit, BatchesDisjoint, NothingBetweenBatches
<1> QED BY <1>2, <1>3 DEF RelaysInv

\* New rows disturb no relay, whoever inserts them and however many at once.
RowsGrow ==
    /\ outbox' \in Seq(Keys)
    /\ Len(outbox) <= Len(outbox')
    /\ UNCHANGED relayVars

LEMMA GrowthKeepsRelaysInv ==
    ASSUME RelaysInv, RowsGrow
    PROVE  RelaysInv' /\ Rows \subseteq Rows'
<1>1. /\ Len(outbox) \in Nat /\ Len(outbox') \in Nat
      /\ UNCHANGED <<published, topic, late, relay, held, todo, marked, faults>>
  BY DEF RowsGrow, relayVars, RelaysInv, TypeOK
<1>2. Rows \subseteq Rows'
  BY <1>1 DEF RowsGrow, Rows
<1>3. topic' \in Seq(Rows')
  BY <1>1, <1>2 DEF RelaysInv, TypeOK
<1>4. TypeOK'
  <2>1. \A f \in [Relays -> SUBSET Rows] : f \in [Relays -> SUBSET Rows']
    BY <1>2
  <2>2. late' \subseteq Messages'
    BY <1>1, <1>2 DEF RelaysInv, TypeOK, Messages
  <2> QED BY <1>1, <1>2, <1>3, <2>1, <2>2 DEF RowsGrow, RelaysInv, TypeOK
<1>5. BatchesDisjoint' /\ NothingBetweenBatches'
  BY <1>1 DEF RelaysInv, BatchesDisjoint, NothingBetweenBatches
<1> QED BY <1>2, <1>4, <1>5 DEF RelaysInv

LEMMA InsertKeepsRelaysInv ==
    ASSUME RelaysInv, NEW k \in Keys, Insert(k)
    PROVE  RelaysInv' /\ Rows \subseteq Rows'
BY GrowthKeepsRelaysInv DEF Insert, RowsGrow, RelaysInv, TypeOK

LEMMA LockKeepsRelaysInv ==
    ASSUME RelaysInv, NEW r \in Relays, LockPendingEvents(r)
    PROVE  RelaysInv'
<1> DEFINE batch == Oldest(BatchSize, Pending(r))
<1> USE DEF RelaysInv
<1>1. /\ batch \subseteq Rows /\ batch \cap published = {}
      /\ \A q \in Relays : batch \cap held[q] = {}
  BY DEF Oldest, Pending
<1>2. /\ relay[r] = "polling"
      /\ relay' = [relay EXCEPT ![r] = "publishing"]
      /\ held' = [held EXCEPT ![r] = batch] /\ todo' = [todo EXCEPT ![r] = batch]
      /\ UNCHANGED <<outbox, published, topic, late, marked, faults>>
  BY DEF LockPendingEvents
<1> HIDE DEF batch
<1>3. TypeOK'
  BY <1>1, <1>2 DEF TypeOK, RelayStates, Rows, Messages
<1>4. BatchesDisjoint'
  BY <1>1, <1>2 DEF TypeOK, BatchesDisjoint, NothingBetweenBatches
<1>5. NothingBetweenBatches'
  BY <1>2 DEF TypeOK, NothingBetweenBatches
<1> QED BY <1>3, <1>4, <1>5

\* One round of the loop over the batch, whatever came of it.
LEMMA RoundKeepsRelaysInv ==
    ASSUME RelaysInv, NEW r \in Relays, NEW i \in todo[r], relay[r] = "publishing",
           topic' = topic \/ topic' = Append(topic, i),
           late' \subseteq Messages,
           \/ todo' = [todo EXCEPT ![r] = @ \ {i}]
           \/ todo' = todo /\ marked' = marked,
           marked' = marked \/ marked' = [marked EXCEPT ![r] = @ \cup {i}],
           faults' \in 0..MaxFaults,
           UNCHANGED <<outbox, published, relay, held>>
    PROVE  RelaysInv'
<1> USE DEF RelaysInv
<1>1. i \in Rows /\ Rows' = Rows
  BY DEF TypeOK, Rows
<1>2. topic' \in Seq(Rows)
  <2>1. topic \in Seq(Rows)
    BY DEF TypeOK
  <2> HIDE DEF RelaysInv
  <2> QED BY <1>1, <2>1
<1>3. TypeOK'
  BY <1>1, <1>2 DEF TypeOK, Messages
<1>4. BatchesDisjoint'
  BY DEF TypeOK, BatchesDisjoint
<1>5. NothingBetweenBatches'
  BY DEF TypeOK, NothingBetweenBatches
<1> QED BY <1>3, <1>4, <1>5

\* The end of a transaction, the marks committed or forgotten.
LEMMA EndKeepsRelaysInv ==
    ASSUME RelaysInv, NEW r \in Relays, EndTransaction(r),
           published' = published \/ published' = published \cup marked[r],
           late' \subseteq Messages, faults' \in 0..MaxFaults,
           UNCHANGED <<outbox, topic>>
    PROVE  RelaysInv'
<1> USE DEF RelaysInv
<1>1. Rows' = Rows
  BY DEF Rows
<1>2. TypeOK'
  BY <1>1 DEF TypeOK, EndTransaction, RelayStates, Messages
<1>3. BatchesDisjoint'
  BY DEF TypeOK, BatchesDisjoint, EndTransaction
<1>4. NothingBetweenBatches'
  BY DEF TypeOK, NothingBetweenBatches, EndTransaction
<1> QED BY <1>2, <1>3, <1>4

LEMMA StopKeepsRelaysInv ==
    ASSUME RelaysInv, NEW r \in Relays, ConnectTimesOut(r)
    PROVE  RelaysInv'
BY BoundsAssumption
   DEF RelaysInv, ConnectTimesOut, Fault, TypeOK, BatchesDisjoint, NothingBetweenBatches,
       RelayStates, Rows, Messages

\* What a failure leaves unanswered is a message of a row.
LEMMA UnansweredTyped ==
    ASSUME RelaysInv, Fault, NEW i \in Rows
    PROVE  Unanswered(i) \in Messages /\ faults' \in 0..MaxFaults
BY BoundsAssumption DEF RelaysInv, TypeOK, Fault, Unanswered, Messages

LEMMA ArrivalKeepsRelaysInv ==
    ASSUME RelaysInv, NEW m \in late, Arrive(m)
    PROVE  RelaysInv'
<1> USE DEF RelaysInv
<1>1. m.row \in Rows /\ Rows' = Rows
  BY DEF TypeOK, Messages, Arrive, Rows
<1>2. topic' \in Seq(Rows)
  BY <1>1 DEF TypeOK, Arrive
<1>3. late' \subseteq Messages /\ faults' \in 0..MaxFaults
  BY <1>1, UnansweredTyped DEF TypeOK, Arrive
<1>4. TypeOK'
  BY <1>1, <1>2, <1>3 DEF TypeOK, Arrive, Messages
<1>5. BatchesDisjoint' /\ NothingBetweenBatches'
  BY DEF Arrive, BatchesDisjoint, NothingBetweenBatches
<1> QED BY <1>4, <1>5

LEMMA NextKeepsRelaysInv ==
    ASSUME RelaysInv, [Next]_vars
    PROVE  RelaysInv'
<1>1. CASE UNCHANGED vars
  BY <1>1 DEF vars, relayVars, RelaysInv, TypeOK, Rows, Messages, BatchesDisjoint,
              NothingBetweenBatches
<1>2. ASSUME NEW k \in Keys, Insert(k) PROVE RelaysInv'
  BY <1>2, InsertKeepsRelaysInv
<1>3. ASSUME NEW r \in Relays, LockPendingEvents(r) PROVE RelaysInv'
  BY <1>3, LockKeepsRelaysInv
<1>4. faults \in 0..MaxFaults /\ (Fault => faults' \in 0..MaxFaults)
  BY BoundsAssumption DEF RelaysInv, TypeOK, Fault
<1>5. late \subseteq Messages /\ \A r \in Relays : todo[r] \subseteq Rows
  BY DEF RelaysInv, TypeOK
<1>6. ASSUME NEW r \in Relays, NEW i \in todo[r], Publish(r, i) PROVE RelaysInv'
  BY <1>4, <1>5, <1>6, RoundKeepsRelaysInv DEF Publish, Current
<1>7. ASSUME NEW r \in Relays, NEW i \in todo[r], PublishFails(r, i) PROVE RelaysInv'
  BY <1>4, <1>5, <1>7, RoundKeepsRelaysInv DEF PublishFails, Current
<1>8. ASSUME NEW r \in Relays, NEW i \in todo[r], PublishUnanswered(r, i) PROVE RelaysInv'
  <2>1. late' \subseteq Messages /\ faults' \in 0..MaxFaults
    BY <1>5, <1>8, UnansweredTyped DEF PublishUnanswered
  <2> QED BY <1>8, <2>1, RoundKeepsRelaysInv DEF PublishUnanswered, Current
<1>9. ASSUME NEW r \in Relays, Commit(r) PROVE RelaysInv'
  BY <1>4, <1>5, <1>9, EndKeepsRelaysInv DEF Commit
<1>10. ASSUME NEW r \in Relays, RollBack(r) PROVE RelaysInv'
  <2>1. late' \subseteq Messages /\ faults' \in 0..MaxFaults
    BY <1>4, <1>5, <1>10, UnansweredTyped DEF RollBack
  <2> QED BY <1>10, <2>1, EndKeepsRelaysInv DEF RollBack
<1>11. ASSUME NEW r \in Relays, ConnectTimesOut(r) PROVE RelaysInv'
  BY <1>11, StopKeepsRelaysInv
<1>12. ASSUME NEW m \in late, Arrive(m) PROVE RelaysInv'
  BY <1>12, ArrivalKeepsRelaysInv
<1> QED BY <1>1, <1>2, <1>3, <1>6, <1>7, <1>8, <1>9, <1>10, <1>11, <1>12 DEF Next, RelayStep

THEOREM RelaysInvariant == Spec => []RelaysInv
<1>1. Init => RelaysInv
  BY InitRelaysInv
<1>2. RelaysInv /\ [Next]_vars => RelaysInv'
  BY NextKeepsRelaysInv
<1> QED BY <1>1, <1>2, PTL DEF Spec

(***************************************************************************)
(* Every reachable state is well typed: a relay's rows, and those in the   *)
(* topic or on their way there, are rows of the outbox.                    *)
(***************************************************************************)
THEOREM RelayTypeCorrect == Spec => []TypeOK
<1>1. RelaysInv => TypeOK
  BY DEF RelaysInv
<1> QED BY <1>1, RelaysInvariant, PTL

(***************************************************************************)
(* FOR UPDATE SKIP LOCKED and published_at in one transaction: no row is   *)
(* in two hands, or in a hand once it is published.                        *)
(***************************************************************************)
THEOREM BatchesAreDisjoint == Spec => []BatchesDisjoint
<1>1. RelaysInv => BatchesDisjoint
  BY DEF RelaysInv
<1> QED BY <1>1, RelaysInvariant, PTL
----------------------------------------------------------------------------
(***************************************************************************)
(* Copies.  A copy of a row, in the topic or not answered yet, is paid for *)
(* by the mark on the row, committed or in the hands of one relay, or by a *)
(* failure: the one that left it unanswered, or the rollback that forgot   *)
(* the mark.                                                               *)
(***************************************************************************)
Claimed(i) == i \in published \/ \E r \in Relays : i \in marked[r]

LateCopies(i) == {m \in late : m.row = i}

CopiesCounted ==
    /\ IsFiniteSet(late)
    /\ \A i \in Rows :
          Cardinality(Sent(i)) + Cardinality(LateCopies(i))
              <= faults + (IF Claimed(i) THEN 1 ELSE 0)

LEMMA SentCounts ==
    ASSUME RelaysInv, NEW i
    PROVE  IsFiniteSet(Sent(i)) /\ Cardinality(Sent(i)) \in Nat
<1>1. Len(topic) \in Nat
  BY DEF RelaysInv, TypeOK
<1>2. Sent(i) \in SUBSET (1..Len(topic)) /\ IsFiniteSet(1..Len(topic))
  BY <1>1, FS_Interval DEF Sent
<1> QED BY <1>2, FS_Subset, FS_CardinalityType

LEMMA AppendCounts ==
    ASSUME RelaysInv, NEW i \in Rows, topic' = Append(topic, i)
    PROVE  /\ Cardinality(Sent(i)') = Cardinality(Sent(i)) + 1
           /\ \A j : j # i => Sent(j)' = Sent(j)
<1> DEFINE n == Len(topic) + 1
<1>1. /\ Len(topic) \in Nat /\ Len(topic') = n /\ topic'[n] = i
      /\ \A m \in 1..Len(topic) : topic'[m] = topic[m]
  BY DEF RelaysInv, TypeOK
<1>2. Sent(i)' = Sent(i) \cup {n}
  BY <1>1 DEF Sent
<1>3. n \notin Sent(i)
  BY <1>1 DEF Sent
<1>4. Cardinality(Sent(i) \cup {n}) = Cardinality(Sent(i)) + 1
  BY <1>3, SentCounts, FS_AddElement
<1>5. \A j : j # i => Sent(j)' = Sent(j)
  BY <1>1 DEF Sent
<1> QED BY <1>2, <1>4, <1>5

LEMMA LateCounts ==
    ASSUME CopiesCounted, NEW i
    PROVE  IsFiniteSet(LateCopies(i)) /\ Cardinality(LateCopies(i)) \in Nat
<1>1. LateCopies(i) \in SUBSET late /\ IsFiniteSet(late)
  BY DEF LateCopies, CopiesCounted
<1> QED BY <1>1, FS_Subset, FS_CardinalityType

\* A message added to those not answered, or one of them gone.
LEMMA AddedCounts ==
    ASSUME CopiesCounted, NEW m, late' = late \cup {m}
    PROVE  /\ IsFiniteSet(late')
           /\ Cardinality(LateCopies(m.row)') \in Nat
           /\ Cardinality(LateCopies(m.row)') <= Cardinality(LateCopies(m.row)) + 1
           /\ \A i : i # m.row => LateCopies(i)' = LateCopies(i)
<1>1. IsFiniteSet(late')
  BY FS_AddElement DEF CopiesCounted
<1>2. LateCopies(m.row)' = LateCopies(m.row) \cup {m}
  BY DEF LateCopies
<1>3. /\ IsFiniteSet(LateCopies(m.row)) /\ Cardinality(LateCopies(m.row)) \in Nat
  BY LateCounts
<1>4. Cardinality(LateCopies(m.row)') \in {Cardinality(LateCopies(m.row)),
                                            Cardinality(LateCopies(m.row)) + 1}
  BY <1>2, <1>3, FS_AddElement
<1> QED BY <1>1, <1>3, <1>4 DEF LateCopies

LEMMA RemovedCounts ==
    ASSUME CopiesCounted, NEW m \in late
    PROVE  LET rest == {k \in late \ {m} : k.row = m.row} IN
           /\ IsFiniteSet(late \ {m})
           /\ IsFiniteSet(rest) /\ Cardinality(rest) \in Nat
           /\ Cardinality(rest) = Cardinality(LateCopies(m.row)) - 1
<1> DEFINE rest == {k \in late \ {m} : k.row = m.row}
<1>1. rest = LateCopies(m.row) \ {m} /\ m \in LateCopies(m.row)
  BY DEF LateCopies
<1>2. IsFiniteSet(late \ {m})
  BY FS_RemoveElement DEF CopiesCounted
<1>3. IsFiniteSet(rest) /\ Cardinality(rest) = Cardinality(LateCopies(m.row)) - 1
  BY <1>1, LateCounts, FS_RemoveElement
<1> QED BY <1>2, <1>3, FS_CardinalityType

\* The row of a round is nobody's but the relay's, and carries no mark.
LEMMA RoundUnclaimed ==
    ASSUME RelaysInv, NEW r \in Relays, NEW i \in todo[r]
    PROVE  i \in Rows /\ ~Claimed(i)
BY DEF RelaysInv, TypeOK, BatchesDisjoint, Claimed

\* A failure leaves a message of row i unanswered, and i had no mark.
LEMMA UnansweredCounted ==
    ASSUME RelaysInv, CopiesCounted, NEW i \in Rows, ~Claimed(i), Fault,
           late' = late \cup {Unanswered(i)}, UNCHANGED <<outbox, topic>>
    PROVE  CopiesCounted'
<1>1. faults \in Nat /\ faults' = faults + 1 /\ \A j : Cardinality(Sent(j)) \in Nat
  BY SentCounts, BoundsAssumption DEF RelaysInv, TypeOK, Fault
<1>2. Unanswered(i).row = i
  BY DEF Unanswered
<1>3. /\ IsFiniteSet(late')
      /\ Cardinality(LateCopies(i)') \in Nat
      /\ Cardinality(LateCopies(i)') <= Cardinality(LateCopies(i)) + 1
      /\ \A j : j # i => LateCopies(j)' = LateCopies(j)
  BY <1>2, AddedCounts
<1>4. Rows' = Rows /\ \A j : Sent(j)' = Sent(j)
  BY DEF Rows, Sent
<1>5. \A j : Cardinality(LateCopies(j)) \in Nat
  BY LateCounts
<1> SUFFICES ASSUME NEW j \in Rows
             PROVE  Cardinality(Sent(j)) + Cardinality(LateCopies(j)')
                      <= faults' + (IF Claimed(j)' THEN 1 ELSE 0)
  BY <1>3, <1>4 DEF CopiesCounted
<1>6. /\ Cardinality(Sent(j)) \in Nat /\ Cardinality(LateCopies(j)) \in Nat
      /\ Cardinality(Sent(j)) + Cardinality(LateCopies(j))
           <= faults + (IF Claimed(j) THEN 1 ELSE 0)
  BY <1>1, <1>5 DEF CopiesCounted
<1>7. CASE j = i
  BY <1>1, <1>3, <1>6, <1>7
<1>8. CASE j # i
  <2>1. LateCopies(j)' = LateCopies(j)
    BY <1>3, <1>8
  <2> QED BY <1>1, <1>6, <2>1
<1> QED BY <1>7, <1>8

\* A late message arrives: it was counted already, or its repetition is a failure.
LEMMA ArrivalCounted ==
    ASSUME RelaysInv, CopiesCounted, NEW m \in late, Arrive(m)
    PROVE  CopiesCounted'
<1> DEFINE i == m.row
           rest == {k \in late \ {m} : k.row = i}
<1>1. faults \in Nat /\ \A j : Cardinality(Sent(j)) \in Nat
  BY SentCounts, BoundsAssumption DEF RelaysInv, TypeOK
<1>2. i \in Rows /\ topic' = Append(topic, i) /\ UNCHANGED <<outbox, published, marked>>
  BY DEF Arrive, RelaysInv, TypeOK, Messages
<1>3. /\ Cardinality(Sent(i)') = Cardinality(Sent(i)) + 1
      /\ \A j : j # i => Sent(j)' = Sent(j)
  BY <1>2, AppendCounts
<1>4. /\ IsFiniteSet(late \ {m})
      /\ IsFiniteSet(rest) /\ Cardinality(rest) \in Nat
      /\ Cardinality(rest) = Cardinality(LateCopies(i)) - 1
  BY RemovedCounts
<1>5. /\ IsFiniteSet(late')
      /\ \/ LateCopies(i)' = rest /\ faults' = faults
         \/ LateCopies(i)' = rest \cup {Unanswered(i)} /\ faults' = faults + 1
      /\ \A j : j # i => LateCopies(j)' = LateCopies(j)
  <2>1. CASE late' = late \ {m} /\ UNCHANGED faults
    BY <1>4, <2>1 DEF LateCopies
  <2>2. CASE late' = (late \ {m}) \cup {Unanswered(i)} /\ Fault
    <3>1. Unanswered(i).row = i /\ faults' = faults + 1
      BY <2>2 DEF Unanswered, Fault
    <3>2. IsFiniteSet(late')
      BY <1>4, <2>2, FS_AddElement
    <3> QED BY <2>2, <3>1, <3>2 DEF LateCopies
  <2> QED BY <2>1, <2>2 DEF Arrive
<1>6. /\ Cardinality(LateCopies(i)) \in Nat
      /\ Cardinality(LateCopies(i)') + 1 <= Cardinality(LateCopies(i)) + (faults' - faults)
      /\ Cardinality(LateCopies(i)') \in Nat /\ faults' \in Nat /\ faults <= faults'
  <2>1. Cardinality(LateCopies(i)) \in Nat
    BY LateCounts
  <2>2. Cardinality(rest \cup {Unanswered(i)}) \in {Cardinality(rest), Cardinality(rest) + 1}
    BY <1>4, FS_AddElement
  <2> HIDE DEF rest, i
  <2> QED BY <1>1, <1>4, <1>5, <2>1, <2>2
<1>7. Rows' = Rows /\ \A j : Claimed(j)' <=> Claimed(j)
  BY <1>2 DEF Rows, Claimed
<1> HIDE DEF rest, i
<1> SUFFICES ASSUME NEW j \in Rows
             PROVE  Cardinality(Sent(j)') + Cardinality(LateCopies(j)')
                      <= faults' + (IF Claimed(j) THEN 1 ELSE 0)
  BY <1>5, <1>7 DEF CopiesCounted
<1>8. /\ Cardinality(Sent(j)) \in Nat
      /\ Cardinality(Sent(j)) + Cardinality(LateCopies(j))
           <= faults + (IF Claimed(j) THEN 1 ELSE 0)
  BY <1>1 DEF CopiesCounted
<1>9. CASE j = i
  BY <1>1, <1>3, <1>6, <1>8, <1>9
<1>10. CASE j # i
  <2>1. LateCopies(j)' = LateCopies(j) /\ Sent(j)' = Sent(j)
    BY <1>3, <1>5, <1>10
  <2>2. Cardinality(LateCopies(j)) \in Nat
    BY LateCounts
  <2> QED BY <1>1, <1>6, <1>8, <2>1, <2>2
<1> QED BY <1>9, <1>10

LEMMA StepKeepsCopiesCounted ==
    ASSUME RelaysInv, CopiesCounted, [Next]_vars
    PROVE  CopiesCounted'
<1>0. /\ faults \in Nat
      /\ \A i : Cardinality(Sent(i)) \in Nat /\ Cardinality(LateCopies(i)) \in Nat
  BY SentCounts, LateCounts, BoundsAssumption DEF RelaysInv, TypeOK
<1>1. ASSUME UNCHANGED <<outbox, topic, late>>, faults' \in Nat, faults' >= faults,
             faults' > faults \/ \A i \in Rows : Claimed(i) => Claimed(i)'
      PROVE  CopiesCounted'
  <2>1. Rows' = Rows /\ \A i : Sent(i)' = Sent(i) /\ LateCopies(i)' = LateCopies(i)
    BY <1>1 DEF Rows, Sent, LateCopies
  <2> SUFFICES ASSUME NEW i \in Rows
               PROVE  Cardinality(Sent(i)) + Cardinality(LateCopies(i))
                        <= faults' + (IF Claimed(i)' THEN 1 ELSE 0)
    BY <1>1, <2>1 DEF CopiesCounted
  <2>2. Cardinality(Sent(i)) + Cardinality(LateCopies(i))
          <= faults + (IF Claimed(i) THEN 1 ELSE 0)
    BY DEF CopiesCounted
  <2>3. Cardinality(Sent(i)) \in Nat /\ Cardinality(LateCopies(i)) \in Nat
    BY <1>0
  <2>4. faults' > faults \/ (Claimed(i) => Claimed(i)')
    BY <1>1
  <2> QED BY <1>0, <1>1, <2>2, <2>3, <2>4
<1>2. CASE UNCHANGED vars
  BY <1>0, <1>1, <1>2 DEF vars, relayVars, Claimed
<1>3. ASSUME NEW k \in Keys, Insert(k) PROVE CopiesCounted'
  <2> DEFINE n == Len(outbox) + 1
  <2>1. /\ UNCHANGED <<topic, late, published, marked, faults>>
        /\ Rows' = Rows \cup {n} /\ n \notin Rows
    BY <1>3 DEF Insert, relayVars, RelaysInv, TypeOK, Rows
  <2>2. Sent(n) = {}
    BY <2>1 DEF Sent, RelaysInv, TypeOK
  <2>3. LateCopies(n) = {}
    BY <2>1 DEF LateCopies, Messages, RelaysInv, TypeOK
  <2>4. Cardinality({}) = 0
    BY FS_EmptySet
  <2>5. \A i : /\ Sent(i)' = Sent(i) /\ LateCopies(i)' = LateCopies(i)
               /\ Claimed(i)' <=> Claimed(i)
    BY <2>1 DEF Sent, LateCopies, Claimed
  <2>6. Cardinality(Sent(n)) = 0 /\ Cardinality(LateCopies(n)) = 0
    BY <2>2, <2>3, <2>4
  <2> HIDE DEF n
  <2> QED BY <1>0, <2>1, <2>5, <2>6 DEF CopiesCounted
<1>4. ASSUME NEW r \in Relays, LockPendingEvents(r) PROVE CopiesCounted'
  BY <1>0, <1>1, <1>4 DEF LockPendingEvents, Claimed
<1>5. ASSUME NEW r \in Relays, NEW i \in todo[r], Publish(r, i) PROVE CopiesCounted'
  <2>1. /\ topic' = Append(topic, i) /\ i \in marked'[r]
        /\ UNCHANGED <<outbox, late, published, faults>>
        /\ \A q \in Relays : marked[q] \subseteq marked'[q]
    BY <1>5 DEF Publish, RelaysInv, TypeOK
  <2>2. Claimed(i)' /\ \A j \in Rows : Claimed(j) => Claimed(j)'
    BY <2>1 DEF Claimed
  <2>3. i \in Rows /\ ~Claimed(i)
    BY RoundUnclaimed
  <2>4. Cardinality(Sent(i)) + Cardinality(LateCopies(i)) <= faults
    BY <1>0, <2>3 DEF CopiesCounted
  <2>5. Rows' = Rows /\ \A j : LateCopies(j)' = LateCopies(j)
    BY <2>1 DEF Rows, LateCopies
  <2>6. /\ Cardinality(Sent(i)') = Cardinality(Sent(i)) + 1
        /\ \A j : j # i => Sent(j)' = Sent(j)
    BY <2>1, <2>3, AppendCounts
  <2> SUFFICES ASSUME NEW j \in Rows
               PROVE  Cardinality(Sent(j)') + Cardinality(LateCopies(j))
                        <= faults + (IF Claimed(j)' THEN 1 ELSE 0)
    BY <2>1, <2>5 DEF CopiesCounted
  <2>7. CASE j = i
    <3>1. Cardinality(Sent(j)') = Cardinality(Sent(j)) + 1 /\ Claimed(j)'
      BY <2>2, <2>6, <2>7
    <3> QED BY <1>0, <2>4, <2>7, <3>1
  <2>8. CASE j # i
    <3>1. Sent(j)' = Sent(j) /\ (Claimed(j) => Claimed(j)')
      BY <2>2, <2>6, <2>8
    <3>2. Cardinality(Sent(j)) + Cardinality(LateCopies(j))
            <= faults + (IF Claimed(j) THEN 1 ELSE 0)
      BY DEF CopiesCounted
    <3>3. Cardinality(Sent(j)) \in Nat /\ Cardinality(LateCopies(j)) \in Nat
      BY <1>0
    <3> QED BY <1>0, <3>1, <3>2, <3>3
  <2> QED BY <2>7, <2>8
<1>6. ASSUME NEW r \in Relays, NEW i \in todo[r], PublishFails(r, i) PROVE CopiesCounted'
  BY <1>0, <1>1, <1>6 DEF PublishFails, Fault, Claimed
<1>7. ASSUME NEW r \in Relays, NEW i \in todo[r], PublishUnanswered(r, i)
      PROVE  CopiesCounted'
  BY <1>7, RoundUnclaimed, UnansweredCounted DEF PublishUnanswered
<1>8. ASSUME NEW r \in Relays, Commit(r) PROVE CopiesCounted'
  <2>1. /\ UNCHANGED <<outbox, topic, late, faults>> /\ published' = published \cup marked[r]
        /\ \A q \in Relays : q # r => marked'[q] = marked[q]
    BY <1>8 DEF Commit, EndTransaction, RelaysInv, TypeOK
  <2>2. \A i \in Rows : Claimed(i) => Claimed(i)'
    BY <2>1 DEF Claimed
  <2> QED BY <1>0, <1>1, <2>1, <2>2
<1>9. ASSUME NEW r \in Relays, RollBack(r) PROVE CopiesCounted'
  <2>1. CASE UNCHANGED late
    BY <1>0, <1>1, <1>9, <2>1 DEF RollBack, Fault
  <2>2. ASSUME NEW i \in todo[r], late' = late \cup {Unanswered(i)}
        PROVE  CopiesCounted'
    BY <1>9, <2>2, RoundUnclaimed, UnansweredCounted DEF RollBack
  <2> QED BY <1>9, <2>1, <2>2 DEF RollBack
<1>10. ASSUME NEW r \in Relays, ConnectTimesOut(r) PROVE CopiesCounted'
  BY <1>0, <1>1, <1>10 DEF ConnectTimesOut, Fault
<1>11. ASSUME NEW m \in late, Arrive(m) PROVE CopiesCounted'
  BY <1>11, ArrivalCounted
<1> QED BY <1>2, <1>3, <1>4, <1>5, <1>6, <1>7, <1>8, <1>9, <1>10, <1>11 DEF Next, RelayStep

(***************************************************************************)
(* Whatever the replicas do at the same time, and however late a message   *)
(* arrives, a row has at most one copy in the topic more than there were   *)
(* failures.                                                               *)
(***************************************************************************)
THEOREM CopiesBounded == Spec => []DuplicatesNeedFaults
<1>1. Init => CopiesCounted
  BY FS_EmptySet DEF Init, RelayInit, CopiesCounted, Rows
<1>2. RelaysInv /\ CopiesCounted /\ [Next]_vars => CopiesCounted'
  BY StepKeepsCopiesCounted
<1>3. RelaysInv /\ CopiesCounted => DuplicatesNeedFaults
  <2> SUFFICES ASSUME RelaysInv, CopiesCounted, NEW i \in Rows
               PROVE  Cardinality(Sent(i)) <= 1 + faults
    BY DEF DuplicatesNeedFaults
  <2>1. Cardinality(Sent(i)) \in Nat /\ Cardinality(LateCopies(i)) \in Nat /\ faults \in Nat
    BY SentCounts, LateCounts, BoundsAssumption DEF RelaysInv, TypeOK
  <2>2. Cardinality(Sent(i)) + Cardinality(LateCopies(i))
          <= faults + (IF Claimed(i) THEN 1 ELSE 0)
    BY DEF CopiesCounted
  <2> QED BY <2>1, <2>2
<1> QED BY <1>1, <1>2, <1>3, RelaysInvariant, PTL DEF Spec

----------------------------------------------------------------------------
(***************************************************************************)
(* The relays implement at-least-once delivery.  The invariant behind it:  *)
(* a mark, committed or not, is on a row that Kafka has.                   *)
(***************************************************************************)
MarkedSent ==
    \A i \in Rows : Claimed(i) => \E n \in 1..Len(topic) : topic[n] = i

LEMMA InitMarkedSent == Init => MarkedSent
BY DEF Init, RelayInit, MarkedSent, Rows

LEMMA StepKeepsMarkedSent ==
    ASSUME RelaysInv, MarkedSent, [Next]_vars
    PROVE  MarkedSent'
<1>1. ASSUME topic' = topic, \A i \in Rows' : Claimed(i)' => i \in Rows /\ Claimed(i)
      PROVE  MarkedSent'
  BY <1>1 DEF MarkedSent
<1>2. ASSUME NEW i \in Rows, topic' = Append(topic, i), Rows' = Rows,
             \A j \in Rows : j # i => (Claimed(j)' => Claimed(j))
      PROVE  MarkedSent'
  <2>1. /\ Len(topic) \in Nat /\ Len(topic') = Len(topic) + 1 /\ topic'[Len(topic) + 1] = i
        /\ \A n \in 1..Len(topic) : topic'[n] = topic[n]
    BY <1>2 DEF RelaysInv, TypeOK
  <2> QED BY <1>2, <2>1 DEF MarkedSent
<1>3. CASE UNCHANGED vars
  BY <1>1, <1>3 DEF vars, relayVars, Claimed, Rows
<1>4. ASSUME NEW k \in Keys, Insert(k) PROVE MarkedSent'
  <2>1. \A i : Claimed(i)' => i \in Rows /\ Claimed(i)
    BY <1>4 DEF Insert, relayVars, Claimed, RelaysInv, TypeOK
  <2> QED BY <1>1, <1>4, <2>1 DEF Insert, relayVars
<1>5. ASSUME NEW r \in Relays, LockPendingEvents(r) PROVE MarkedSent'
  BY <1>1, <1>5 DEF LockPendingEvents, Claimed, Rows
<1>6. ASSUME NEW r \in Relays, NEW i \in todo[r], Publish(r, i)
      PROVE  MarkedSent'
  <2>1. i \in Rows
    BY RoundUnclaimed
  <2>2. \A j \in Rows : j # i => (Claimed(j)' => Claimed(j))
    BY <1>6 DEF Publish, Claimed, RelaysInv, TypeOK
  <2> QED BY <1>2, <1>6, <2>1, <2>2 DEF Publish, Rows
<1>7. ASSUME NEW r \in Relays, NEW i \in todo[r], PublishFails(r, i) \/ PublishUnanswered(r, i)
      PROVE  MarkedSent'
  BY <1>1, <1>7 DEF PublishFails, PublishUnanswered, Claimed, Rows
<1>8. ASSUME NEW r \in Relays, Commit(r) \/ RollBack(r) PROVE MarkedSent'
  <2>1. \A i : Claimed(i)' => Claimed(i)
    BY <1>8 DEF Commit, RollBack, EndTransaction, Claimed, RelaysInv, TypeOK
  <2> QED BY <1>1, <1>8, <2>1 DEF Commit, RollBack, Rows
<1>9. ASSUME NEW r \in Relays, ConnectTimesOut(r) PROVE MarkedSent'
  BY <1>1, <1>9 DEF ConnectTimesOut, Claimed, Rows
<1>10. ASSUME NEW m \in late, Arrive(m) PROVE MarkedSent'
  <2>1. m.row \in Rows
    BY DEF RelaysInv, TypeOK, Messages
  <2> QED BY <1>2, <1>10, <2>1 DEF Arrive, Claimed, Rows
<1> QED BY <1>3, <1>4, <1>5, <1>6, <1>7, <1>8, <1>9, <1>10 DEF Next, RelayStep

\* What GrowthKeepsRelaysInv says of the marks.
LEMMA GrowthKeepsMarkedSent ==
    ASSUME RelaysInv, MarkedSent, RowsGrow
    PROVE  MarkedSent'
<1>1. UNCHANGED <<published, topic, marked>>
  BY DEF RowsGrow, relayVars
<1>2. \A i : Claimed(i)' => i \in Rows /\ Claimed(i)
  BY <1>1 DEF Claimed, RelaysInv, TypeOK
<1> QED BY <1>1, <1>2 DEF MarkedSent

\* A relay's step, or a late arrival, adds one message to the topic, or none.
LEMMA StepAppends ==
    ASSUME (\E r \in Relays : RelayStep(r)) \/ \E m \in late : Arrive(m)
    PROVE  UNCHANGED outbox /\ (topic' = topic \/ \E i : topic' = Append(topic, i))
<1>1. ASSUME NEW r \in Relays, NEW i \in todo[r],
             Publish(r, i) \/ PublishFails(r, i) \/ PublishUnanswered(r, i)
      PROVE  UNCHANGED outbox /\ (topic' = topic \/ topic' = Append(topic, i))
  BY <1>1 DEF Publish, PublishFails, PublishUnanswered
<1>2. ASSUME NEW m \in late, Arrive(m)
      PROVE  UNCHANGED outbox /\ topic' = Append(topic, m.row)
  BY <1>2 DEF Arrive
<1> QED BY <1>1, <1>2 DEF RelayStep, LockPendingEvents, Commit, RollBack, ConnectTimesOut

\* The rows with a copy that may still arrive.
Underway == {m.row : m \in late}

LEMMA StepDelivers ==
    ASSUME RelaysInv, MarkedSent, [Next]_vars
    PROVE  [Delivery!DeliveryNext]_<<outbox, topic, Underway, published>>
<1> SUFFICES Delivery!DeliveryNext \/ UNCHANGED <<outbox, topic, late, published>>
  BY DEF Underway
<1>1. CASE UNCHANGED vars
  BY <1>1 DEF vars, relayVars
<1>2. ASSUME NEW k \in Keys, Insert(k) PROVE Delivery!DeliveryNext
  BY <1>2 DEF Insert, relayVars, Delivery!DeliveryNext, Delivery!Record
<1>3. ASSUME NEW r \in Relays, NEW i \in todo[r]
      PROVE  i \in 1..Len(outbox) /\ i \notin published
  BY RoundUnclaimed DEF Rows, Claimed
<1>4. ASSUME NEW r \in Relays, NEW i \in todo[r], Publish(r, i)
      PROVE  Delivery!DeliveryNext
  <2>1. Delivery!Send(i)
    BY <1>3, <1>4 DEF Publish, Delivery!Send
  <2> QED BY <1>3, <2>1 DEF Delivery!DeliveryNext
<1>5. ASSUME NEW r \in Relays, NEW i \in todo[r], late' = late \cup {Unanswered(i)},
             UNCHANGED <<outbox, topic, published>>
      PROVE  Delivery!DeliveryNext
  <2>1. {m.row : m \in late'} = {m.row : m \in late} \cup {i}
    <3>1. Unanswered(i).row = i
      BY DEF Unanswered
    <3>2. \A j : j \in {m.row : m \in late'} <=> j \in {m.row : m \in late} \cup {i}
      BY <1>5, <3>1
    <3> QED BY <3>2
  <2>2. Delivery!HandOver(i)
    BY <1>3, <1>5, <2>1 DEF Delivery!HandOver
  <2> QED BY <1>3, <2>2 DEF Delivery!DeliveryNext
<1>6. ASSUME NEW r \in Relays, NEW i \in todo[r], PublishUnanswered(r, i)
      PROVE  Delivery!DeliveryNext
  BY <1>5, <1>6 DEF PublishUnanswered
<1>7. ASSUME NEW r \in Relays, Commit(r) PROVE Delivery!DeliveryNext
  <2>1. marked[r] \in SUBSET (1..Len(outbox))
    BY DEF RelaysInv, TypeOK, Rows
  <2>2. \A i \in marked[r] : \E n \in 1..Len(topic) : topic[n] = i
    BY <2>1 DEF MarkedSent, Claimed, Rows
  <2>3. Delivery!Acknowledge(marked[r])
    BY <1>7, <2>2 DEF Commit, Delivery!Acknowledge
  <2> QED BY <2>1, <2>3 DEF Delivery!DeliveryNext
<1>8. ASSUME NEW r \in Relays, RollBack(r)
      PROVE  Delivery!DeliveryNext \/ UNCHANGED <<outbox, topic, late, published>>
  BY <1>5, <1>8 DEF RollBack
<1>9. ASSUME NEW m \in late, Arrive(m) PROVE Delivery!DeliveryNext
  <2> DEFINE rows == {k.row : k \in late}
  <2>1. m.row \in rows
    OBVIOUS
  <2>2. {k.row : k \in late'} \in {rows, rows \ {m.row}}
    <3>1. CASE late' = late \ {m}
      <4>1. ASSUME NEW k \in late \ {m}, k.row = m.row
            PROVE  {j.row : j \in late'} = rows
        BY <3>1, <4>1
      <4>2. ASSUME \A k \in late \ {m} : k.row # m.row
            PROVE  {j.row : j \in late'} = rows \ {m.row}
        BY <3>1, <4>2
      <4> QED BY <4>1, <4>2
    <3>2. CASE late' = (late \ {m}) \cup {Unanswered(m.row)}
      <4>1. Unanswered(m.row).row = m.row
        BY DEF Unanswered
      <4> QED BY <3>2, <4>1
    <3> QED BY <1>9, <3>1, <3>2 DEF Arrive
  <2>3. Delivery!Arrive(m.row)
    BY <1>9, <2>2 DEF Arrive, Delivery!Arrive
  <2> QED BY <2>1, <2>3 DEF Delivery!DeliveryNext
<1>10. ASSUME NEW r \in Relays,
             \/ LockPendingEvents(r) \/ ConnectTimesOut(r)
             \/ \E i \in todo[r] : PublishFails(r, i)
      PROVE  UNCHANGED <<outbox, topic, late, published>>
  BY <1>10 DEF LockPendingEvents, ConnectTimesOut, PublishFails
<1> QED BY <1>1, <1>2, <1>4, <1>6, <1>7, <1>8, <1>9, <1>10 DEF Next, RelayStep

(***************************************************************************)
(* Every step of the relays is a step of at-least-once delivery: a row is  *)
(* marked only when it is in the topic, and no relay begins to send a row  *)
(* that is marked.  What it had handed over before may arrive after the    *)
(* mark, also when its transaction was rolled back and another relay has   *)
(* published the row since.                                                *)
(***************************************************************************)
THEOREM DeliveryRefinement == Spec => ImplementsDelivery
<1>1. Init => MarkedSent /\ Delivery!DeliveryInit
  BY InitMarkedSent DEF Init, RelayInit, Delivery!DeliveryInit
<1>2. RelaysInv /\ MarkedSent /\ [Next]_vars => MarkedSent'
  BY StepKeepsMarkedSent
<1>3. RelaysInv /\ MarkedSent /\ [Next]_vars =>
        [Delivery!DeliveryNext]_<<outbox, topic, {m.row : m \in late}, published>>
  BY StepDelivers DEF Underway
<1> QED BY <1>1, <1>2, <1>3, RelaysInvariant, PTL
        DEF Spec, ImplementsDelivery, Delivery!Spec, Delivery!deliveryVars
============================================================================
