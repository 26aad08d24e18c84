---------------------- MODULE OrderEventsConsumer_proofs ----------------------
(***************************************************************************)
(* Proofs about the payment service and its consumer of order.events,      *)
(* for every set of payments and callers, every topic, every group of      *)
(* consumers, every set of HTTP requests next to them, every number of     *)
(* provider attempts, and any number of failures, restarts and rebalances. *)
(***************************************************************************)
EXTENDS OrderEventsConsumer, SequenceTheorems, FiniteSetTheorems, WellFoundedInduction, TLAPS

----------------------------------------------------------------------------
(***************************************************************************)
(* The payment service by itself.                                          *)
(***************************************************************************)

(***************************************************************************)
(* What a command carries, by operation: the status it is to save, the     *)
(* reason that goes with it, the event it may have recorded.  Only MarkPaid *)
(* and Refund call the provider.                                           *)
(***************************************************************************)
JobShape(j) ==
    /\ j.op = "create" => j.status = "pending" /\ j.event = "none" /\ j.reason = "none"
    /\ j.op = "paid" => j.status = "paid" /\ j.event \in {"PaymentConfirmed", "none"}
                        /\ j.reason = "none"
    /\ j.op = "failed" => j.status = "failed" /\ j.event \in {"PaymentFailed", "none"}
                          /\ j.reason # "none"
    /\ j.op = "refund" => j.status = "refunded" /\ j.event \in {"PaymentRefunded", "none"}
                          /\ j.reason = "none"

CommandsOK ==
    \A c \in Callers :
        /\ pc[c] = "idle" => job[c] = NoJob
        /\ Running(c) => job[c] # NoJob
        /\ job[c] # NoJob => JobShape(job[c])
        /\ pc[c] = "calling" => job[c].op \in {"paid", "refund"}

\* What a command loaded does not disappear before it saves.
LoadedStored ==
    \A c \in Callers : job[c] # NoJob /\ job[c].op # "create" => Stored(job[c].payment)

(***************************************************************************)
(* A payment that is stored, or whose first save is under way, is listed   *)
(* in the order of creation, so no other Create is given its identifier.   *)
(***************************************************************************)
Listed(p) == \E i \in 1..Len(created) : created[i] = p

Creating(c) == pc[c] = "saving" /\ job[c].op = "create"

CreationsOK ==
    /\ \A c \in Callers :
          Creating(c) => Listed(job[c].payment) /\ ~Stored(job[c].payment)
    /\ \A c, d \in Callers :
          Creating(c) /\ Creating(d) /\ job[c].payment = job[d].payment => c = d
    /\ \A p \in Payments : Stored(p) => Listed(p)

PaymentInv == TypeOK /\ CommandsOK /\ LoadedStored /\ CreationsOK /\ RowsReconstruct

----------------------------------------------------------------------------
(***************************************************************************)
(* Jobs and rows.                                                          *)
(***************************************************************************)
LEMMA Shapes ==
    /\ \A j \in Jobs : j # NoJob
    /\ \A j \in Jobs : /\ j.op \in Ops /\ j.payment \in Payments /\ j.order \in Orders
                       /\ j.status \in Statuses /\ j.reason \in Reasons \cup {"none"}
                       /\ j.event \in Events \cup {"none"}
    /\ \A row \in Rows : row # NoRow
    /\ \A row \in Rows : /\ row.order \in Orders /\ row.status \in Statuses
                         /\ row.reason \in Reasons \cup {"none"} /\ row.paidAt \in BOOLEAN
    /\ NoRow.status = "none" /\ NoRow.reason = "none" /\ NoRow.paidAt = FALSE
<1>1. \A j \in Jobs : /\ j.op \in Ops /\ j.payment \in Payments /\ j.order \in Orders
                      /\ j.status \in Statuses /\ j.reason \in Reasons \cup {"none"}
                      /\ j.event \in Events \cup {"none"}
  BY DEF Jobs
<1>2. NoJob.op = "none"
  BY DEF NoJob
<1>3. \A row \in Rows : /\ row.order \in Orders /\ row.status \in Statuses
                        /\ row.reason \in Reasons \cup {"none"} /\ row.paidAt \in BOOLEAN
  BY DEF Rows
<1>4. NoRow.status = "none" /\ NoRow.reason = "none" /\ NoRow.paidAt = FALSE
  BY DEF NoRow
<1> QED BY <1>1, <1>2, <1>3, <1>4 DEF Ops, Statuses

LEMMA SavedRow ==
    ASSUME PaymentInv, NEW j \in Jobs, JobShape(j)
    PROVE  /\ RowAfter(j) \in Rows
           /\ RowAfter(j) # NoRow
           /\ RowAfter(j).status = j.status /\ RowAfter(j).reason = j.reason
           /\ RowAfter(j).paidAt <=>
                Stored(j.payment) /\ (payments[j.payment].paidAt \/ j.status = "paid")
           /\ RowAfter(j).status = "failed" <=> RowAfter(j).reason # "none"
<1>1. RowAfter(j) \in Rows
  BY Shapes DEF RowAfter, Rows
<1>2. /\ RowAfter(j).status = j.status /\ RowAfter(j).reason = j.reason
      /\ RowAfter(j).paidAt <=>
           Stored(j.payment) /\ (payments[j.payment].paidAt \/ j.status = "paid")
  BY DEF RowAfter
<1>3. j.status = "failed" <=> j.reason # "none"
  BY Shapes DEF JobShape, Ops
<1> QED BY <1>1, <1>2, <1>3, Shapes

LEMMA SavedEvents ==
    ASSUME PaymentInv, NEW j \in Jobs, outbox' = outbox \o EventsOf(j)
    PROVE  /\ outbox' \in Seq([payment : Payments, name : Events])
           /\ \A p, name : Emitted(p, name)' <=>
                             Emitted(p, name) \/ (p = j.payment /\ name = j.event /\ name # "none")
<1>1. outbox \in Seq([payment : Payments, name : Events])
  BY DEF PaymentInv, TypeOK
<1>2. CASE j.event = "none"
  <2>1. outbox' = outbox
    BY <1>1, <1>2, ConcatEmptySeq DEF EventsOf
  <2> QED BY <1>1, <1>2, <2>1 DEF Emitted
<1>3. CASE j.event # "none"
  <2> DEFINE e == [payment |-> j.payment, name |-> j.event]
  <2>1. e \in [payment : Payments, name : Events]
    BY <1>3, Shapes
  <2>2. outbox' = Append(outbox, e)
    BY <1>1, <1>3, <2>1, AppendIsConcat DEF EventsOf
  <2>3. /\ Len(outbox) \in Nat /\ Len(outbox') = Len(outbox) + 1
        /\ outbox'[Len(outbox) + 1] = e
        /\ \A i \in 1..Len(outbox) : outbox'[i] = outbox[i]
        /\ outbox' \in Seq([payment : Payments, name : Events])
    BY <1>1, <2>1, <2>2
  <2>4. \A p, name : ([payment |-> p, name |-> name] = e) <=> (p = j.payment /\ name = j.event)
    OBVIOUS
  <2> HIDE DEF e
  <2>5. \A row : (\E i \in 1..Len(outbox') : outbox'[i] = row) <=>
                  (\E i \in 1..Len(outbox) : outbox[i] = row) \/ row = e
    <3>1. 1..Len(outbox') = 1..Len(outbox) \cup {Len(outbox) + 1}
      BY <2>3
    <3> QED BY <2>3, <3>1
  <2>6. ASSUME NEW p, NEW name
        PROVE  Emitted(p, name)' <=> Emitted(p, name) \/ (p = j.payment /\ name = j.event)
    <3> DEFINE row == [payment |-> p, name |-> name]
    <3>1. /\ Emitted(p, name) <=> \E i \in 1..Len(outbox) : outbox[i] = row
          /\ Emitted(p, name)' <=> \E i \in 1..Len(outbox') : outbox'[i] = row
      BY DEF Emitted
    <3> HIDE DEF row
    <3>2. row = e <=> (p = j.payment /\ name = j.event)
      BY <2>4 DEF row
    <3> QED BY <2>5, <3>1, <3>2
  <2> QED BY <1>3, <2>3, <2>6
<1> QED BY <1>2, <1>3

(***************************************************************************)
(* Taking a payment back out of the order of creation keeps the others.    *)
(***************************************************************************)
LEMMA WithoutKeeps ==
    ASSUME PaymentInv, NEW p \in Payments, Listed(p)
    PROVE  /\ Without(p) \in Seq(Payments)
           /\ \A q \in Payments : q # p /\ Listed(q) =>
                 \E i \in 1..Len(Without(p)) : Without(p)[i] = q
<1> DEFINE k == CHOOSE n \in 1..Len(created) : created[n] = p
           left == SubSeq(created, 1, k - 1)
           right == SubSeq(created, k + 1, Len(created))
<1>1. k \in 1..Len(created) /\ created[k] = p
  BY DEF Listed
<1>2. created \in Seq(Payments) /\ Len(created) \in Nat
  BY DEF PaymentInv, TypeOK
<1>3. Without(p) = left \o right
  BY DEF Without
<1> HIDE DEF k
<1>4. /\ left \in Seq(Payments) /\ Len(left) = k - 1
      /\ \A i \in 1..(k - 1) : left[i] = created[i]
  BY <1>1, <1>2, SubSeqProperties
<1>5. /\ right \in Seq(Payments) /\ Len(right) = Len(created) - k
      /\ \A i \in 1..(Len(created) - k) : right[i] = created[k + i]
  <2>1. /\ right \in Seq(Payments)
        /\ Len(right) = IF k + 1 <= Len(created) THEN Len(created) - (k + 1) + 1 ELSE 0
        /\ \A i \in 1..(Len(created) - (k + 1) + 1) : right[i] = created[(k + 1) + i - 1]
    BY <1>1, <1>2, SubSeqProperties
  <2> QED BY <1>1, <1>2, <2>1
<1> HIDE DEF left, right
<1>6. /\ left \o right \in Seq(Payments)
      /\ Len(left \o right) = Len(left) + Len(right)
      /\ \A i \in 1..(Len(left) + Len(right)) :
            (left \o right)[i] = IF i <= Len(left) THEN left[i] ELSE right[i - Len(left)]
  BY <1>4, <1>5, ConcatProperties
<1>7. ASSUME NEW q \in Payments, q # p, NEW n \in 1..Len(created), created[n] = q
      PROVE  \E i \in 1..Len(left \o right) : (left \o right)[i] = q
  <2>1. CASE n < k
    <3>1. n \in 1..Len(left \o right) /\ (left \o right)[n] = q
      BY <1>1, <1>2, <1>4, <1>5, <1>6, <1>7, <2>1
    <3> QED BY <3>1
  <2>2. CASE n > k
    <3>1. n - 1 \in 1..Len(left \o right) /\ (left \o right)[n - 1] = right[n - k]
      BY <1>1, <1>2, <1>4, <1>5, <1>6, <1>7, <2>2
    <3>2. right[n - k] = q
      BY <1>1, <1>2, <1>5, <1>7, <2>2
    <3> QED BY <3>1, <3>2
  <2> QED BY <1>1, <1>2, <1>7, <2>1, <2>2
<1> QED BY <1>3, <1>6, <1>7 DEF Listed

----------------------------------------------------------------------------
(***************************************************************************)
(* Decisions.  Matches(j): what the row must be for the aggregate to take  *)
(* the decision that j carries.                                            *)
(***************************************************************************)
Matches(j) ==
    /\ j.op = "create" => ~Stored(j.payment)
    /\ j.event = "PaymentConfirmed" => payments[j.payment].status = "pending"
    /\ j.event = "PaymentFailed" => payments[j.payment].status = "pending"
    /\ j.event = "PaymentRefunded" => payments[j.payment].status = "paid"
    /\ j.op # "create" /\ j.event = "none" => payments[j.payment].status = j.status

Deciding(c) ==
    \/ Refuse(c)
    \/ \E p \in Payments : \/ MarkPaid(c, p) \/ Refund(c, p)
                           \/ \E reason \in Reasons : MarkFailed(c, p, reason)

LEMMA DecisionShape ==
    ASSUME PaymentInv, NEW p \in Payments, NEW op \in {"paid", "failed", "refund"},
           NEW st \in Statuses, NEW reason \in Reasons \cup {"none"},
           NEW event \in Events \cup {"none"}, Stored(p)
    PROVE  LET j == Loaded(op, p, st, reason, event)
           IN  /\ j \in Jobs /\ j # NoJob
               /\ j.op = op /\ j.payment = p /\ j.status = st /\ j.reason = reason
               /\ j.event = event
<1>1. payments[p].order \in Orders
  BY Shapes DEF PaymentInv, TypeOK, Stored
<1>2. Loaded(op, p, st, reason, event) \in Jobs
  BY <1>1 DEF Loaded, Jobs, Ops
<1> QED BY <1>2, Shapes DEF Loaded

LEMMA DecisionCases ==
    ASSUME PaymentInv, NEW c \in Callers, Deciding(c)
    PROVE  \E j \in Jobs \cup {NoJob}, next \in {"calling", "saving", "refused"} :
             /\ Decide(c, j, next)
             /\ j = NoJob => next = "refused"
             /\ j # NoJob => /\ JobShape(j) /\ Matches(j) /\ Stored(j.payment)
                             /\ j.op # "create" /\ next # "refused"
                             /\ next = "calling" <=> j.op \in {"paid", "refund"}
<1> DEFINE Good(j, next) ==
             /\ j \in Jobs \cup {NoJob} /\ next \in {"calling", "saving", "refused"}
             /\ Decide(c, j, next)
             /\ j = NoJob => next = "refused"
             /\ j # NoJob => /\ JobShape(j) /\ Matches(j) /\ Stored(j.payment)
                             /\ j.op # "create" /\ next # "refused"
                             /\ next = "calling" <=> j.op \in {"paid", "refund"}
<1>1. CASE Refuse(c)
  <2>1. Good(NoJob, "refused")
    BY <1>1 DEF Refuse
  <2> QED BY <2>1
<1>2. ASSUME NEW p \in Payments, payments[p].status # "none"
      PROVE  Stored(p) /\ payments[p].reason \in Reasons \cup {"none"}
             /\ (payments[p].status # "failed" => payments[p].reason = "none")
  BY <1>2, Shapes DEF Stored, PaymentInv, TypeOK, RowsReconstruct
<1>3. ASSUME NEW p \in Payments, MarkPaid(c, p)
      PROVE  \E j, next : Good(j, next)
  <2>1. CASE /\ payments[p].status = "pending"
             /\ Decide(c, Loaded("paid", p, "paid", "none", "PaymentConfirmed"), "calling")
    <3> DEFINE j == Loaded("paid", p, "paid", "none", "PaymentConfirmed")
    <3>1. /\ j \in Jobs /\ j # NoJob /\ j.op = "paid" /\ j.payment = p /\ j.status = "paid"
          /\ j.reason = "none" /\ j.event = "PaymentConfirmed"
      BY <1>2, <2>1, DecisionShape DEF Statuses, Events
    <3>2. Decide(c, j, "calling")
      BY <2>1
    <3> HIDE DEF j
    <3>3. Good(j, "calling")
      BY <1>2, <2>1, <3>1, <3>2 DEF JobShape, Matches
    <3> QED BY <3>3
  <2>2. CASE /\ payments[p].status = "paid"
             /\ Decide(c, Loaded("paid", p, "paid", payments[p].reason, "none"), "calling")
    <3> DEFINE j == Loaded("paid", p, "paid", payments[p].reason, "none")
    <3>1. /\ j \in Jobs /\ j # NoJob /\ j.op = "paid" /\ j.payment = p /\ j.status = "paid"
          /\ j.reason = "none" /\ j.event = "none"
      BY <1>2, <2>2, DecisionShape DEF Statuses, Events
    <3>2. Decide(c, j, "calling")
      BY <2>2
    <3> HIDE DEF j
    <3>3. Good(j, "calling")
      BY <1>2, <2>2, <3>1, <3>2 DEF JobShape, Matches
    <3> QED BY <3>3
  <2> QED BY <1>3, <2>1, <2>2 DEF MarkPaid
<1>4. ASSUME NEW p \in Payments, NEW reason \in Reasons, MarkFailed(c, p, reason)
      PROVE  \E j, next : Good(j, next)
  <2> DEFINE event == IF payments[p].status = "pending" THEN "PaymentFailed" ELSE "none"
             j == Loaded("failed", p, "failed", reason, event)
  <2>1. payments[p].status \in {"pending", "failed"} /\ Decide(c, j, "saving")
    BY <1>4 DEF MarkFailed
  <2>2. /\ j \in Jobs /\ j # NoJob /\ j.op = "failed" /\ j.payment = p /\ j.status = "failed"
        /\ j.reason = reason /\ j.event = event
    BY <1>2, <2>1, DecisionShape DEF Statuses, Events
  <2> HIDE DEF j
  <2>3. Good(j, "saving")
    BY <1>2, <2>1, <2>2, NoReasonAssumption DEF JobShape, Matches
  <2> QED BY <2>3
<1>5. ASSUME NEW p \in Payments, Refund(c, p)
      PROVE  \E j, next : Good(j, next)
  <2> DEFINE event == IF payments[p].status = "paid" THEN "PaymentRefunded" ELSE "none"
             j == Loaded("refund", p, "refunded", payments[p].reason, event)
  <2>1. payments[p].status \in {"paid", "refunded"} /\ Decide(c, j, "calling")
    BY <1>5 DEF Refund
  <2>2. /\ j \in Jobs /\ j # NoJob /\ j.op = "refund" /\ j.payment = p
        /\ j.status = "refunded" /\ j.reason = "none" /\ j.event = event
    BY <1>2, <2>1, DecisionShape DEF Statuses, Events
  <2> HIDE DEF j
  <2>3. Good(j, "calling")
    BY <1>2, <2>1, <2>2 DEF JobShape, Matches
  <2> QED BY <2>3
<1> QED BY <1>1, <1>3, <1>4, <1>5 DEF Deciding

----------------------------------------------------------------------------
(***************************************************************************)
(* PaymentInv is inductive: one lemma per kind of step.                    *)
(***************************************************************************)
LEMMA InitPaymentInv == Init => PaymentInv
<1> SUFFICES ASSUME Init PROVE PaymentInv
  OBVIOUS
<1>1. TypeOK
  <2>1. created = <<>> /\ outbox = <<>>
    BY DEF Init
  <2>2. created \in Seq(Payments) /\ outbox \in Seq([payment : Payments, name : Events])
    BY <2>1
  <2> QED BY <2>2 DEF Init, TypeOK, PCs
<1>2. CommandsOK /\ LoadedStored
  BY DEF Init, CommandsOK, LoadedStored, Running
<1>3. CreationsOK /\ RowsReconstruct
  BY Shapes DEF Init, CreationsOK, Creating, Stored, RowsReconstruct
<1> QED BY <1>1, <1>2, <1>3 DEF PaymentInv

LEMMA DecidingKeepsPaymentInv ==
    ASSUME PaymentInv, NEW c \in Callers, Deciding(c)
    PROVE  PaymentInv'
<1> USE DEF PaymentInv
<1>1. PICK j \in Jobs \cup {NoJob}, next \in {"calling", "saving", "refused"} :
        /\ Decide(c, j, next)
        /\ j = NoJob => next = "refused"
        /\ j # NoJob => /\ JobShape(j) /\ Matches(j) /\ Stored(j.payment)
                        /\ j.op # "create" /\ next # "refused"
                        /\ next = "calling" <=> j.op \in {"paid", "refund"}
  BY DecisionCases
<1>2. /\ pc[c] = "idle"
      /\ job' = [job EXCEPT ![c] = j] /\ pc' = [pc EXCEPT ![c] = next]
      /\ UNCHANGED <<payments, created, outbox, captures, refunds>>
  BY <1>1 DEF Decide, Idle, tables, ledger
<1>3. TypeOK'
  BY <1>2 DEF TypeOK, PCs
<1>4. CommandsOK'
  BY <1>1, <1>2 DEF CommandsOK, Running, TypeOK
<1>5. LoadedStored'
  BY <1>1, <1>2 DEF LoadedStored, Stored, TypeOK
<1>6. CreationsOK'
  BY <1>1, <1>2 DEF CreationsOK, Creating, Stored, Listed, TypeOK
<1>7. RowsReconstruct'
  BY <1>2 DEF RowsReconstruct
<1> QED BY <1>3, <1>4, <1>5, <1>6, <1>7

LEMMA CreateKeepsPaymentInv ==
    ASSUME PaymentInv, NEW c \in Callers, NEW p \in Payments, NEW o \in Orders, Create(c, p, o)
    PROVE  PaymentInv'
<1> USE DEF PaymentInv
<1> DEFINE j == [op |-> "create", payment |-> p, order |-> o, status |-> "pending",
                 reason |-> "none", event |-> "none"]
<1>1. /\ j \in Jobs /\ j # NoJob /\ JobShape(j)
      /\ j.op = "create" /\ j.payment = p
  <2>1. j \in Jobs
    BY DEF Jobs, Ops, Statuses
  <2> QED BY <2>1, Shapes DEF JobShape
<1>2. /\ pc[c] = "idle" /\ FreshId(p)
      /\ job' = [job EXCEPT ![c] = j] /\ pc' = [pc EXCEPT ![c] = "saving"]
      /\ created' = Append(created, p)
      /\ UNCHANGED <<payments, outbox, captures, refunds>>
  BY DEF Create, Idle, ledger
<1> HIDE DEF j
<1>3. /\ Len(created) \in Nat /\ Len(created') = Len(created) + 1
      /\ created'[Len(created) + 1] = p /\ created' \in Seq(Payments)
      /\ \A i \in 1..Len(created) : created'[i] = created[i]
  BY <1>2 DEF TypeOK
<1>4. ~Listed(p) /\ \A q : Listed(q)' <=> Listed(q) \/ q = p
  <2>1. 1..Len(created') = 1..Len(created) \cup {Len(created) + 1}
    BY <1>3
  <2> QED BY <1>2, <1>3, <2>1 DEF Listed, FreshId
<1>5. TypeOK'
  BY <1>1, <1>2, <1>3 DEF TypeOK, PCs
<1>6. CommandsOK'
  BY <1>1, <1>2 DEF CommandsOK, Running, TypeOK
<1>7. LoadedStored'
  BY <1>1, <1>2 DEF LoadedStored, Stored, TypeOK
<1>8. CreationsOK'
  <2>1. job'[c] = j /\ pc'[c] = "saving"
    BY <1>2 DEF TypeOK
  <2>2. \A d \in Callers : d # c => job'[d] = job[d] /\ pc'[d] = pc[d]
    BY <1>2 DEF TypeOK
  <2>3. \A d \in Callers : d # c => (Creating(d)' <=> Creating(d))
    BY <2>2 DEF Creating
  <2>4. \A q : Stored(q)' <=> Stored(q)
    BY <1>2 DEF Stored
  <2> QED BY <1>1, <1>4, <2>1, <2>2, <2>3, <2>4 DEF CreationsOK
<1>9. RowsReconstruct'
  BY <1>2 DEF RowsReconstruct
<1> QED BY <1>5, <1>6, <1>7, <1>8, <1>9

\* What a call to the provider adds to the ledger, answered or not.
LEMMA LedgerGrows ==
    ASSUME PaymentInv, NEW c \in Callers, pc[c] = "calling", NEW n \in Nat, CarryOut(c, n)
    PROVE  /\ job[c] \in Jobs /\ job[c] # NoJob /\ job[c].op \in {"paid", "refund"}
           /\ job[c].payment \in Payments
           /\ captures' \in [Payments -> Nat] /\ refunds' \in [Payments -> Nat]
           /\ \A p \in Payments : captures'[p] >= captures[p] /\ refunds'[p] >= refunds[p]
           /\ \A p \in Payments : captures'[p] # captures[p] =>
                                    job[c].op = "paid" /\ p = job[c].payment
           /\ \A p \in Payments : refunds'[p] # refunds[p] =>
                                    job[c].op = "refund" /\ p = job[c].payment
           /\ job[c].op = "paid" => captures'[job[c].payment] = captures[job[c].payment] + n
           /\ job[c].op = "refund" => refunds'[job[c].payment] = refunds[job[c].payment] + n
<1>1. /\ job[c] \in Jobs /\ job[c] # NoJob /\ job[c].op \in {"paid", "refund"}
      /\ job[c].payment \in Payments
  BY Shapes DEF PaymentInv, TypeOK, CommandsOK, Running
<1>2. captures \in [Payments -> Nat] /\ refunds \in [Payments -> Nat]
  BY DEF PaymentInv, TypeOK
<1>3. CASE job[c].op = "paid"
  BY <1>1, <1>2, <1>3 DEF CarryOut
<1>4. CASE job[c].op = "refund"
  BY <1>1, <1>2, <1>4 DEF CarryOut
<1> QED BY <1>1, <1>3, <1>4

LEMMA ProviderCases ==
    ASSUME PaymentInv, NEW c \in Callers, ProviderAccepts(c) \/ ProviderFails(c)
    PROVE  /\ pc[c] = "calling"
           /\ \E n \in Nat : CarryOut(c, n) /\ (n > 0 \/ pc' = [pc EXCEPT ![c] = "failed"])
           /\ \E a \in {"saving", "failed"} : pc' = [pc EXCEPT ![c] = a]
           /\ UNCHANGED <<payments, created, outbox, job>>
BY AttemptsAssumption DEF ProviderAccepts, ProviderFails, tables

LEMMA ProviderKeepsPaymentInv ==
    ASSUME PaymentInv, NEW c \in Callers, ProviderAccepts(c) \/ ProviderFails(c)
    PROVE  PaymentInv'
<1> USE DEF PaymentInv
<1>1. PICK a \in {"saving", "failed"} : pc' = [pc EXCEPT ![c] = a]
  BY ProviderCases
<1>2. pc[c] = "calling" /\ UNCHANGED <<payments, created, outbox, job>>
  BY ProviderCases
<1>3. /\ captures' \in [Payments -> Nat] /\ refunds' \in [Payments -> Nat]
      /\ job[c] # NoJob /\ job[c].op \in {"paid", "refund"}
  BY ProviderCases, LedgerGrows
<1>4. TypeOK'
  BY <1>1, <1>2, <1>3 DEF TypeOK, PCs
<1>5. CommandsOK'
  BY <1>1, <1>2, <1>3 DEF CommandsOK, Running, TypeOK
<1>6. LoadedStored' /\ RowsReconstruct'
  BY <1>2 DEF LoadedStored, Stored, RowsReconstruct
<1>7. CreationsOK'
  <2>1. \A d \in Callers : Creating(d)' => Creating(d)
    BY <1>1, <1>2, <1>3 DEF Creating, TypeOK
  <2> QED BY <1>2, <2>1 DEF CreationsOK, Listed, Stored
<1> QED BY <1>4, <1>5, <1>6, <1>7

LEMMA SavedCases ==
    ASSUME PaymentInv, NEW c \in Callers, Save(c) \/ SaveAnswerLost(c)
    PROVE  /\ pc[c] = "saving" /\ job[c] \in Jobs /\ job[c] # NoJob /\ JobShape(job[c])
           /\ job[c].payment \in Payments
           /\ SaveTransaction(job[c])
           /\ \E a \in {"ok", "failed"} : pc' = [pc EXCEPT ![c] = a]
           /\ UNCHANGED <<created, captures, refunds, job>>
<1>1. /\ pc[c] = "saving" /\ SaveTransaction(job[c])
      /\ \E a \in {"ok", "failed"} : pc' = [pc EXCEPT ![c] = a]
      /\ UNCHANGED <<created, captures, refunds, job>>
  BY DEF Save, SaveAnswerLost, SaveTransaction, ledger
<1>2. job[c] \in Jobs /\ job[c] # NoJob /\ JobShape(job[c])
  BY <1>1 DEF PaymentInv, TypeOK, CommandsOK, Running
<1> QED BY <1>1, <1>2, Shapes

LEMMA SavedKeepsPaymentInv ==
    ASSUME PaymentInv, NEW c \in Callers, Save(c) \/ SaveAnswerLost(c)
    PROVE  PaymentInv'
<1> USE DEF PaymentInv
<1> DEFINE j == job[c]
<1>1. /\ pc[c] = "saving" /\ j \in Jobs /\ j # NoJob /\ JobShape(j) /\ j.payment \in Payments
      /\ SaveTransaction(j) /\ UNCHANGED <<created, captures, refunds, job>>
  BY SavedCases
<1>2. PICK a \in {"ok", "failed"} : pc' = [pc EXCEPT ![c] = a]
  BY SavedCases
<1>3. payments' = [payments EXCEPT ![j.payment] = RowAfter(j)]
  BY <1>1 DEF SaveTransaction
<1>4. /\ RowAfter(j) \in Rows /\ RowAfter(j) # NoRow
      /\ RowAfter(j).status = "failed" <=> RowAfter(j).reason # "none"
  BY <1>1, SavedRow
<1>5. outbox' \in Seq([payment : Payments, name : Events])
  BY <1>1, SavedEvents DEF SaveTransaction
<1> HIDE DEF j
<1>6. TypeOK'
  BY <1>1, <1>2, <1>3, <1>4, <1>5 DEF TypeOK, PCs
<1>7. CommandsOK'
  BY <1>1, <1>2 DEF CommandsOK, Running, TypeOK
<1>8. \A p \in Payments : Stored(p)' <=> Stored(p) \/ p = j.payment
  BY <1>1, <1>3, <1>4 DEF Stored, TypeOK
<1>9. LoadedStored'
  BY <1>1, <1>8, Shapes DEF LoadedStored, TypeOK
<1>10. CreationsOK'
  <2>1. \A d \in Callers : Creating(d)' => Creating(d) /\ d # c
    BY <1>1, <1>2 DEF Creating, TypeOK
  <2>2. Listed(j.payment)
    BY <1>1 DEF CreationsOK, LoadedStored, Creating, j
  <2>3. \A d \in Callers : Creating(d)' => job[d].payment # j.payment
    <3>1. CASE j.op = "create"
      BY <1>1, <2>1, <3>1 DEF CreationsOK, Creating, j
    <3>2. CASE j.op # "create"
      BY <1>1, <2>1, <3>2 DEF CreationsOK, LoadedStored, j
    <3> QED BY <3>1, <3>2
  <2>4. \A d \in Callers : Creating(d) => job[d].payment \in Payments
    BY Shapes DEF Creating, CommandsOK, Running, TypeOK
  <2> QED BY <1>1, <1>8, <2>1, <2>2, <2>3, <2>4 DEF CreationsOK, Listed
<1>11. RowsReconstruct'
  BY <1>1, <1>3, <1>4 DEF RowsReconstruct, TypeOK
<1> QED BY <1>6, <1>7, <1>9, <1>10, <1>11

LEMMA SaveFailsKeepsPaymentInv ==
    ASSUME PaymentInv, NEW c \in Callers, SaveFails(c)
    PROVE  PaymentInv'
<1> USE DEF PaymentInv
<1>1. /\ pc[c] = "saving" /\ pc' = [pc EXCEPT ![c] = "failed"]
      /\ created' = IF job[c].op = "create" THEN Without(job[c].payment) ELSE created
      /\ UNCHANGED <<payments, outbox, captures, refunds, job>>
  BY DEF SaveFails, ledger
<1>2. job[c] \in Jobs /\ job[c].payment \in Payments
  BY <1>1, Shapes DEF CommandsOK, Running, TypeOK
<1>3. /\ created' \in Seq(Payments)
      /\ \A q \in Payments : Listed(q) /\ (job[c].op = "create" => q # job[c].payment)
            => Listed(q)'
  <2>1. CASE job[c].op = "create"
    <3>1. Listed(job[c].payment)
      BY <1>1, <2>1 DEF CreationsOK, Creating
    <3> QED BY <1>1, <1>2, <2>1, <3>1, WithoutKeeps DEF Listed
  <2>2. CASE job[c].op # "create"
    BY <1>1, <2>2 DEF TypeOK, Listed
  <2> QED BY <2>1, <2>2
<1>4. TypeOK'
  BY <1>1, <1>3 DEF TypeOK, PCs
<1>5. CommandsOK'
  BY <1>1 DEF CommandsOK, Running, TypeOK
<1>6. LoadedStored' /\ RowsReconstruct'
  BY <1>1 DEF LoadedStored, Stored, RowsReconstruct
<1>7. CreationsOK'
  <2>1. \A d \in Callers : Creating(d)' => Creating(d) /\ d # c
    BY <1>1 DEF Creating, TypeOK
  <2>2. \A d \in Callers : Creating(d) => job[d].payment \in Payments
    BY Shapes DEF Creating, CommandsOK, Running, TypeOK
  <2>3. \A q : Stored(q)' <=> Stored(q)
    BY <1>1 DEF Stored
  <2>4. job[c].op = "create" => Creating(c) /\ ~Stored(job[c].payment)
    BY <1>1 DEF Creating, CreationsOK
  <2> QED BY <1>1, <1>3, <2>1, <2>2, <2>3, <2>4 DEF CreationsOK
<1> QED BY <1>4, <1>5, <1>6, <1>7

LEMMA StepCases ==
    ASSUME [Next]_vars
    PROVE  \/ UNCHANGED vars
           \/ \E c \in Callers, p \in Payments, o \in Orders : Create(c, p, o)
           \/ \E c \in Callers : Deciding(c)
           \/ \E c \in Callers : ProviderAccepts(c) \/ ProviderFails(c)
           \/ \E c \in Callers : Save(c) \/ SaveAnswerLost(c)
           \/ \E c \in Callers : SaveFails(c)
BY DEF Next, Command, Progress, Deciding

LEMMA NextKeepsPaymentInv ==
    ASSUME PaymentInv, [Next]_vars
    PROVE  PaymentInv'
<1>1. CASE UNCHANGED vars
  BY <1>1 DEF vars, PaymentInv, TypeOK, CommandsOK, Running, LoadedStored, Stored, CreationsOK,
              Creating, Listed, RowsReconstruct
<1> QED BY <1>1, StepCases, CreateKeepsPaymentInv, DecidingKeepsPaymentInv,
           ProviderKeepsPaymentInv, SavedKeepsPaymentInv, SaveFailsKeepsPaymentInv

THEOREM PaymentInvariant == Spec => []PaymentInv
<1>1. Init => PaymentInv
  BY InitPaymentInv
<1>2. PaymentInv /\ [Next]_vars => PaymentInv'
  BY NextKeepsPaymentInv
<1> QED BY <1>1, <1>2, PTL DEF Spec

(***************************************************************************)
(* Every reachable state is well typed: no save writes a row, an event or  *)
(* a place in the order of creation that the service could not read back.  *)
(***************************************************************************)
THEOREM PaymentTypeCorrect == Spec => []TypeOK
<1>1. PaymentInv => TypeOK
  BY DEF PaymentInv
<1> QED BY <1>1, PaymentInvariant, PTL

(***************************************************************************)
(* No overlap of saves leaves a row that ReconstructPayment refuses.       *)
(***************************************************************************)
THEOREM RowsAlwaysReconstruct == Spec => []RowsReconstruct
<1>1. PaymentInv => RowsReconstruct
  BY DEF PaymentInv
<1> QED BY <1>1, PaymentInvariant, PTL

----------------------------------------------------------------------------
(***************************************************************************)
(* Money and events.  A command that works from a row knows what happened  *)
(* before it: that the payment it repeats or refunds was announced, and,   *)
(* once the provider has answered, that the money has moved.  None of this *)
(* can become false while the command runs: paid_at is never cleared, the  *)
(* outbox and the provider's ledger only grow.                             *)
(***************************************************************************)
JobKnows(c) ==
    LET j == job[c] IN
    /\ j.op = "refund" => payments[j.payment].paidAt
    /\ j.op = "paid" /\ j.event = "none" => payments[j.payment].paidAt
    /\ j.op = "failed" /\ j.event = "none" => Emitted(j.payment, "PaymentFailed")
    /\ j.op = "refund" /\ j.event = "none" => Emitted(j.payment, "PaymentRefunded")
    /\ pc[c] = "saving" /\ j.op = "paid" => captures[j.payment] > 0
    /\ pc[c] = "saving" /\ j.op = "refund" => refunds[j.payment] > 0

LedgerInv ==
    /\ OutboxTellsStatus
    /\ MoneyBehindEvents
    /\ SilentMoneyWasReported
    /\ \A c \in Callers : job[c] # NoJob => JobKnows(c)

(***************************************************************************)
(* What SilentMoneyWasReported asks for: a command on p that has not been  *)
(* answered with success.                                                  *)
(***************************************************************************)
Unanswered(op, p) ==
    \E c \in Callers : job[c] # NoJob /\ job[c].op = op /\ job[c].payment = p /\ pc[c] # "ok"

LEMMA SilentMoney ==
    SilentMoneyWasReported <=>
        \A p \in Payments :
            /\ captures[p] > 0 /\ ~Emitted(p, "PaymentConfirmed") => Unanswered("paid", p)
            /\ refunds[p] > 0 /\ ~Emitted(p, "PaymentRefunded") => Unanswered("refund", p)
BY DEF SilentMoneyWasReported, Unanswered

LEMMA InitLedgerInv == Init => LedgerInv
<1> SUFFICES ASSUME Init PROVE LedgerInv
  OBVIOUS
<1>1. \A p, name : ~Emitted(p, name)
  BY DEF Init, Emitted
<1>2. \A p \in Payments : /\ payments[p].status = "none" /\ payments[p].paidAt = FALSE
                          /\ captures[p] = 0 /\ refunds[p] = 0
  BY Shapes DEF Init
<1> QED BY <1>1, <1>2 DEF Init, LedgerInv, OutboxTellsStatus, MoneyBehindEvents,
                          SilentMoneyWasReported

\* A decision is made on the row as the story so far has it.
LEMMA DecidingKeepsLedgerInv ==
    ASSUME PaymentInv, LedgerInv, NEW c \in Callers, Deciding(c)
    PROVE  LedgerInv'
<1> USE DEF LedgerInv
<1>1. PICK j \in Jobs \cup {NoJob}, next \in {"calling", "saving", "refused"} :
        /\ Decide(c, j, next)
        /\ j = NoJob => next = "refused"
        /\ j # NoJob => /\ JobShape(j) /\ Matches(j) /\ Stored(j.payment)
                        /\ j.op # "create" /\ next # "refused"
                        /\ next = "calling" <=> j.op \in {"paid", "refund"}
  BY DecisionCases
<1>2. /\ pc[c] = "idle" /\ job[c] = NoJob
      /\ job' = [job EXCEPT ![c] = j] /\ pc' = [pc EXCEPT ![c] = next]
      /\ UNCHANGED <<payments, created, outbox, captures, refunds>>
  BY <1>1 DEF Decide, Idle, tables, ledger, PaymentInv, CommandsOK
<1>3. \A p, name : Emitted(p, name)' <=> Emitted(p, name)
  BY <1>2 DEF Emitted
<1>4. OutboxTellsStatus' /\ MoneyBehindEvents'
  BY <1>2, <1>3 DEF OutboxTellsStatus, MoneyBehindEvents
<1>5. SilentMoneyWasReported'
  <2>1. \A d \in Callers : d # c => job'[d] = job[d] /\ pc'[d] = pc[d]
    BY <1>2 DEF PaymentInv, TypeOK
  <2>2. \A op, p : Unanswered(op, p) => Unanswered(op, p)'
    BY <1>2, <2>1 DEF Unanswered
  <2> QED BY <1>2, <1>3, <2>2, SilentMoney DEF SilentMoneyWasReported, Unanswered
<1>6. ASSUME NEW d \in Callers, job'[d] # NoJob
      PROVE  JobKnows(d)'
  <2>1. CASE d # c
    BY <1>2, <1>3, <1>6, <2>1 DEF JobKnows, PaymentInv, TypeOK
  <2>2. CASE d = c
    <3>1. job'[d] = j /\ pc'[d] = next /\ j # NoJob
      BY <1>2, <1>6, <2>2 DEF PaymentInv, TypeOK
    <3>2. j.payment \in Payments
      BY <3>1, Shapes
    <3> QED BY <1>1, <1>2, <1>3, <3>1, <3>2 DEF JobKnows, JobShape, Matches, OutboxTellsStatus
  <2> QED BY <2>1, <2>2
<1> QED BY <1>4, <1>5, <1>6

LEMMA CreateKeepsLedgerInv ==
    ASSUME PaymentInv, LedgerInv, NEW c \in Callers, NEW p \in Payments, NEW o \in Orders,
           Create(c, p, o)
    PROVE  LedgerInv'
<1> USE DEF LedgerInv
<1>1. /\ pc[c] = "idle" /\ job[c] = NoJob
      /\ pc' = [pc EXCEPT ![c] = "saving"]
      /\ UNCHANGED <<payments, outbox, captures, refunds>>
  BY DEF Create, Idle, ledger, PaymentInv, CommandsOK
<1>2. \A d \in Callers : d # c => job'[d] = job[d] /\ pc'[d] = pc[d]
  BY DEF Create, PaymentInv, TypeOK
<1>3. job'[c].op = "create"
  BY DEF Create, PaymentInv, TypeOK
<1>4. \A q, name : Emitted(q, name)' <=> Emitted(q, name)
  BY <1>1 DEF Emitted
<1>5. OutboxTellsStatus' /\ MoneyBehindEvents'
  BY <1>1, <1>4 DEF OutboxTellsStatus, MoneyBehindEvents
<1>6. SilentMoneyWasReported'
  <2>1. \A op, q : Unanswered(op, q) => Unanswered(op, q)'
    BY <1>1, <1>2 DEF Unanswered
  <2> QED BY <1>1, <1>4, <2>1, SilentMoney DEF SilentMoneyWasReported, Unanswered
<1>7. \A d \in Callers : job'[d] # NoJob => JobKnows(d)'
  BY <1>1, <1>2, <1>3, <1>4 DEF JobKnows
<1> QED BY <1>5, <1>6, <1>7

(***************************************************************************)
(* The provider's part: the money that moves is this command's, and the    *)
(* command is not answered with success in the same step.                  *)
(***************************************************************************)
LEMMA ProviderKeepsLedgerInv ==
    ASSUME PaymentInv, LedgerInv, NEW c \in Callers, ProviderAccepts(c) \/ ProviderFails(c)
    PROVE  LedgerInv'
<1> USE DEF LedgerInv
<1>1. PICK n \in Nat : CarryOut(c, n) /\ (n > 0 \/ pc' = [pc EXCEPT ![c] = "failed"])
  BY ProviderCases
<1>2. pc[c] = "calling" /\ UNCHANGED <<payments, created, outbox, job>>
  BY ProviderCases
<1>3. PICK a \in {"saving", "failed"} : pc' = [pc EXCEPT ![c] = a]
  BY ProviderCases
<1>4. pc'[c] = a /\ \A d \in Callers : d # c => pc'[d] = pc[d]
  BY <1>3 DEF PaymentInv, TypeOK
<1>5. /\ job[c] # NoJob /\ job[c].op \in {"paid", "refund"} /\ job[c].payment \in Payments
      /\ \A p \in Payments : captures'[p] >= captures[p] /\ refunds'[p] >= refunds[p]
      /\ \A p \in Payments : captures'[p] # captures[p] => job[c].op = "paid" /\ p = job[c].payment
      /\ \A p \in Payments : refunds'[p] # refunds[p] => job[c].op = "refund" /\ p = job[c].payment
      /\ job[c].op = "paid" => captures'[job[c].payment] = captures[job[c].payment] + n
      /\ job[c].op = "refund" => refunds'[job[c].payment] = refunds[job[c].payment] + n
  BY <1>1, <1>2, LedgerGrows
<1>6. /\ \A p \in Payments : captures[p] \in Nat /\ refunds[p] \in Nat
      /\ \A p \in Payments : captures'[p] \in Nat /\ refunds'[p] \in Nat
  BY <1>1, <1>2, LedgerGrows DEF PaymentInv, TypeOK
<1>7. \A p, name : Emitted(p, name)' <=> Emitted(p, name)
  BY <1>2 DEF Emitted
<1>8. OutboxTellsStatus'
  BY <1>2, <1>7 DEF OutboxTellsStatus
<1>9. \A p \in Payments : /\ captures[p] > 0 => captures'[p] > 0
                          /\ refunds[p] > 0 => refunds'[p] > 0
  BY <1>5, <1>6
<1>10. MoneyBehindEvents'
  BY <1>7, <1>9 DEF MoneyBehindEvents
<1>11. SilentMoneyWasReported'
  <2>1. \A op, p : Unanswered(op, p) => Unanswered(op, p)'
    BY <1>2, <1>3, <1>4 DEF Unanswered
  <2>2. \A op, p : op = job[c].op /\ p = job[c].payment => Unanswered(op, p)'
    BY <1>2, <1>4, <1>5 DEF Unanswered
  <2>3. \A p \in Payments : /\ captures'[p] = captures[p] \/ Unanswered("paid", p)'
                            /\ refunds'[p] = refunds[p] \/ Unanswered("refund", p)'
    BY <1>5, <2>2
  <2>4. \A p \in Payments :
          /\ captures'[p] > 0 /\ ~Emitted(p, "PaymentConfirmed")' => Unanswered("paid", p)'
          /\ refunds'[p] > 0 /\ ~Emitted(p, "PaymentRefunded")' => Unanswered("refund", p)'
    BY <1>7, <2>1, <2>3, SilentMoney
  <2> QED BY <2>4 DEF SilentMoneyWasReported, Unanswered
<1>12. ASSUME NEW d \in Callers, job'[d] # NoJob
       PROVE  JobKnows(d)'
  <2>1. job[d].payment \in Payments /\ JobKnows(d)
    BY <1>2, <1>12, Shapes DEF PaymentInv, TypeOK
  <2>2. CASE d # c
    BY <1>2, <1>4, <1>7, <1>9, <2>1, <2>2 DEF JobKnows
  <2>3. CASE d = c
    <3>1. pc'[d] = "saving" => n > 0
      BY <1>1, <1>4, <2>3 DEF PaymentInv, TypeOK
    <3>2. pc'[d] = "saving" => /\ job[d].op = "paid" => captures'[job[d].payment] > 0
                               /\ job[d].op = "refund" => refunds'[job[d].payment] > 0
      BY <1>5, <1>6, <2>3, <3>1
    <3> QED BY <1>2, <1>7, <2>1, <3>2 DEF JobKnows
  <2> QED BY <2>2, <2>3
<1> QED BY <1>8, <1>10, <1>11, <1>12

(***************************************************************************)
(* A save tells the story to its end: paid_at and PaymentConfirmed appear  *)
(* together, and the status it leaves is announced now or was before.      *)
(***************************************************************************)
LEMMA SavedKeepsLedgerInv ==
    ASSUME PaymentInv, LedgerInv, NEW c \in Callers, Save(c) \/ SaveAnswerLost(c)
    PROVE  LedgerInv'
<1> USE DEF LedgerInv
<1> DEFINE j == job[c]
<1>1. /\ pc[c] = "saving" /\ j \in Jobs /\ j # NoJob /\ JobShape(j) /\ j.payment \in Payments
      /\ SaveTransaction(j) /\ UNCHANGED <<created, captures, refunds, job>>
  BY SavedCases
<1>2. PICK a \in {"ok", "failed"} : pc' = [pc EXCEPT ![c] = a]
  BY SavedCases
<1>3. /\ \A p \in Payments : p # j.payment => payments'[p] = payments[p]
      /\ payments'[j.payment] = RowAfter(j)
  BY <1>1 DEF SaveTransaction, PaymentInv, TypeOK
<1>4. /\ RowAfter(j).status = j.status
      /\ RowAfter(j).paidAt <=>
           Stored(j.payment) /\ (payments[j.payment].paidAt \/ j.status = "paid")
  BY <1>1, SavedRow
<1>5. \A p, name : Emitted(p, name)' <=>
                     Emitted(p, name) \/ (p = j.payment /\ name = j.event /\ name # "none")
  BY <1>1, SavedEvents DEF SaveTransaction
<1>6. JobKnows(c) /\ j.op \in Ops
  BY <1>1, Shapes
<1>7. /\ j.op # "create" => Stored(j.payment)
      /\ j.op = "create" => ~Stored(j.payment)
      /\ ~Stored(j.payment) => payments[j.payment].paidAt = FALSE
  BY <1>1, Shapes DEF PaymentInv, LoadedStored, CreationsOK, Creating, Stored
<1>8. /\ j.op = "paid" => captures[j.payment] > 0
      /\ j.op = "refund" => refunds[j.payment] > 0 /\ payments[j.payment].paidAt
      /\ j.op = "paid" /\ j.event = "none" => payments[j.payment].paidAt
      /\ j.op = "failed" /\ j.event = "none" => Emitted(j.payment, "PaymentFailed")
      /\ j.op = "refund" /\ j.event = "none" => Emitted(j.payment, "PaymentRefunded")
  BY <1>1, <1>6 DEF JobKnows
<1> HIDE DEF j
<1>9. OutboxTellsStatus'
  <2> SUFFICES ASSUME NEW p \in Payments
               PROVE  /\ payments'[p].paidAt <=> Emitted(p, "PaymentConfirmed")'
                      /\ payments'[p].status \in {"paid", "refunded"} => payments'[p].paidAt
                      /\ payments'[p].status = "failed" => Emitted(p, "PaymentFailed")'
                      /\ payments'[p].status = "refunded" => Emitted(p, "PaymentRefunded")'
    BY DEF OutboxTellsStatus
  <2>1. CASE p # j.payment
    BY <1>3, <1>5, <2>1 DEF OutboxTellsStatus
  <2>2. CASE p = j.payment
    BY <1>1, <1>3, <1>4, <1>5, <1>6, <1>7, <1>8, <2>2
       DEF OutboxTellsStatus, JobShape, Ops
  <2> QED BY <2>1, <2>2
<1>10. MoneyBehindEvents'
  <2>1. j.event = "PaymentConfirmed" => j.op = "paid"
    BY <1>1, <1>6 DEF JobShape, Ops
  <2>2. j.event = "PaymentRefunded" => j.op = "refund"
    BY <1>1, <1>6 DEF JobShape, Ops
  <2>3. j.op = "refund" => Emitted(j.payment, "PaymentConfirmed")
    BY <1>1, <1>8 DEF OutboxTellsStatus
  <2> QED BY <1>1, <1>5, <1>8, <2>1, <2>2, <2>3 DEF MoneyBehindEvents
<1>11. SilentMoneyWasReported'
  <2>1. \A p \in Payments : p = j.payment /\ j.op = "paid" => Emitted(p, "PaymentConfirmed")'
    BY <1>1, <1>5, <1>8 DEF JobShape, OutboxTellsStatus
  <2>2. \A p \in Payments : p = j.payment /\ j.op = "refund" => Emitted(p, "PaymentRefunded")'
    BY <1>1, <1>5, <1>8 DEF JobShape
  <2>3. \A d \in Callers : d # c => pc'[d] = pc[d]
    BY <1>2 DEF PaymentInv, TypeOK
  <2>4. ASSUME NEW p \in Payments, NEW op, Unanswered(op, p)
        PROVE  Unanswered(op, p)' \/ (op = j.op /\ p = j.payment)
    <3>1. PICK d \in Callers : /\ job[d] # NoJob /\ job[d].op = op /\ job[d].payment = p
                               /\ pc[d] # "ok"
      BY <2>4 DEF Unanswered
    <3>2. CASE d = c
      BY <3>1, <3>2 DEF j
    <3>3. CASE d # c
      BY <1>1, <2>3, <3>1, <3>3 DEF Unanswered
    <3> QED BY <3>2, <3>3
  <2> QED BY <1>1, <1>5, <2>1, <2>2, <2>4, SilentMoney DEF SilentMoneyWasReported, Unanswered
<1>12. ASSUME NEW d \in Callers, job'[d] # NoJob
       PROVE  JobKnows(d)'
  <2>1. JobKnows(d) /\ job[d] \in Jobs /\ job[d].payment \in Payments
    BY <1>1, <1>12, Shapes DEF PaymentInv, TypeOK
  <2>2. pc'[d] = "saving" => pc[d] = "saving"
    BY <1>1, <1>2 DEF PaymentInv, TypeOK
  <2>3. payments[job[d].payment].paidAt => payments'[job[d].payment].paidAt
    BY <1>3, <1>4, <1>7, <2>1
  <2> QED BY <1>1, <1>5, <2>1, <2>2, <2>3 DEF JobKnows
<1> QED BY <1>9, <1>10, <1>11, <1>12

LEMMA SaveFailsKeepsLedgerInv ==
    ASSUME PaymentInv, LedgerInv, NEW c \in Callers, SaveFails(c)
    PROVE  LedgerInv'
<1> USE DEF LedgerInv
<1>1. /\ pc[c] = "saving" /\ pc' = [pc EXCEPT ![c] = "failed"]
      /\ UNCHANGED <<payments, outbox, captures, refunds, job>>
  BY DEF SaveFails, ledger
<1>2. \A p, name : Emitted(p, name)' <=> Emitted(p, name)
  BY <1>1 DEF Emitted
<1>3. pc'[c] = "failed" /\ \A d \in Callers : d # c => pc'[d] = pc[d]
  BY <1>1 DEF PaymentInv, TypeOK
<1>4. OutboxTellsStatus' /\ MoneyBehindEvents'
  BY <1>1, <1>2 DEF OutboxTellsStatus, MoneyBehindEvents
<1>5. SilentMoneyWasReported'
  <2>1. \A op, p : Unanswered(op, p) => Unanswered(op, p)'
    BY <1>1, <1>3 DEF Unanswered
  <2> QED BY <1>1, <1>2, <2>1, SilentMoney DEF SilentMoneyWasReported, Unanswered
<1>6. \A d \in Callers : job'[d] # NoJob => JobKnows(d)'
  BY <1>1, <1>2, <1>3 DEF JobKnows
<1> QED BY <1>4, <1>5, <1>6

THEOREM LedgerInvariant == Spec => [](PaymentInv /\ LedgerInv)
<1>1. Init => LedgerInv
  BY InitLedgerInv
<1>2. PaymentInv /\ LedgerInv /\ [Next]_vars => LedgerInv'
  <2>1. CASE UNCHANGED vars
    BY <2>1 DEF vars, LedgerInv, OutboxTellsStatus, MoneyBehindEvents, SilentMoneyWasReported,
                JobKnows, Emitted
  <2> QED BY <2>1, StepCases, CreateKeepsLedgerInv, DecidingKeepsLedgerInv,
             ProviderKeepsLedgerInv, SavedKeepsLedgerInv, SaveFailsKeepsLedgerInv
<1> QED BY <1>1, <1>2, PaymentInvariant, PTL DEF Spec

(***************************************************************************)
(* Whatever stale saves overwrite, paid_at is set exactly when             *)
(* PaymentConfirmed was recorded, and the status a row has was announced.  *)
(***************************************************************************)
THEOREM OutboxAlwaysTells == Spec => []OutboxTellsStatus
<1>1. LedgerInv => OutboxTellsStatus
  BY DEF LedgerInv
<1> QED BY <1>1, LedgerInvariant, PTL

(***************************************************************************)
(* PaymentConfirmed is recorded only after a capture, PaymentRefunded only *)
(* after a refund of a payment that was confirmed.                         *)
(***************************************************************************)
THEOREM EventsBackedByMoney == Spec => []MoneyBehindEvents
<1>1. LedgerInv => MoneyBehindEvents
  BY DEF LedgerInv
<1> QED BY <1>1, LedgerInvariant, PTL

(***************************************************************************)
(* Money that moved and that no event tells of belongs to a command that   *)
(* still runs or was answered with an error.                               *)
(***************************************************************************)
THEOREM SilentMoneyReported == Spec => []SilentMoneyWasReported
<1>1. LedgerInv => SilentMoneyWasReported
  BY DEF LedgerInv
<1> QED BY <1>1, LedgerInvariant, PTL

----------------------------------------------------------------------------
(***************************************************************************)
(* One command at a time.  What a running command decided on is still what *)
(* the row says, so its save is a step of the lifecycle or, when the       *)
(* command repeats what was done, no step at all.                          *)
(***************************************************************************)
OneAtATime ==
    /\ \A c, d \in Callers : Running(c) /\ Running(d) => c = d
    /\ \A c \in Callers : Running(c) => Matches(job[c])

Status == [p \in Payments |-> payments[p].status]

LEMMA SaveIsALifecycleStep ==
    ASSUME PaymentInv, NEW c \in Callers, Save(c) \/ SaveAnswerLost(c), Matches(job[c])
    PROVE  [Lifecycle!LifecycleNext]_<<Status, outbox>>
<1> DEFINE j == job[c]
<1>1. /\ j \in Jobs /\ JobShape(j) /\ j.payment \in Payments /\ SaveTransaction(j)
      /\ j.op \in Ops /\ pc[c] = "saving" /\ j # NoJob
  BY SavedCases, Shapes
<1>2. /\ payments \in [Payments -> Rows \cup {NoRow}]
      /\ payments' = [payments EXCEPT ![j.payment] = RowAfter(j)]
      /\ RowAfter(j).status = j.status
      /\ outbox \in Seq([payment : Payments, name : Events])
      /\ outbox' = outbox \o EventsOf(j)
  BY <1>1, SavedRow DEF SaveTransaction, PaymentInv, TypeOK
<1>3. Matches(j)
  OBVIOUS
<1> HIDE DEF j
<1>4. Status' = [Status EXCEPT ![j.payment] = j.status]
  BY <1>1, <1>2 DEF Status
<1>5. Status[j.payment] = payments[j.payment].status
  BY <1>1 DEF Status
<1>6. /\ j.event = "none" => outbox' = outbox
      /\ j.event # "none" => outbox' = Append(outbox, [payment |-> j.payment, name |-> j.event])
  <2>1. CASE j.event = "none"
    BY <1>2, <2>1, ConcatEmptySeq DEF EventsOf
  <2>2. CASE j.event # "none"
    <3>1. [payment |-> j.payment, name |-> j.event] \in [payment : Payments, name : Events]
      BY <1>1, <2>2, Shapes
    <3> QED BY <1>2, <2>2, <3>1, AppendIsConcat DEF EventsOf
  <2> QED BY <2>1, <2>2
<1>7. CASE j.op = "create"
  <2>1. Status[j.payment] = "none"
    BY <1>1, <1>3, <1>5, <1>7, Shapes DEF Matches, Stored
  <2>2. Lifecycle!Create(j.payment)
    BY <1>1, <1>4, <1>6, <1>7, <2>1 DEF JobShape, Lifecycle!Create, Status
  <2> QED BY <1>1, <2>2 DEF Lifecycle!LifecycleNext, Lifecycle!Create
<1>8. CASE j.event = "PaymentConfirmed"
  <2>1. Lifecycle!Change(j.payment, "pending", "paid", "PaymentConfirmed")
    BY <1>1, <1>3, <1>4, <1>5, <1>6, <1>8 DEF JobShape, Ops, Matches, Lifecycle!Change, Status
  <2> QED BY <1>1, <2>1 DEF Lifecycle!LifecycleNext
<1>9. CASE j.event = "PaymentFailed"
  <2>1. Lifecycle!Change(j.payment, "pending", "failed", "PaymentFailed")
    BY <1>1, <1>3, <1>4, <1>5, <1>6, <1>9 DEF JobShape, Ops, Matches, Lifecycle!Change, Status
  <2> QED BY <1>1, <2>1 DEF Lifecycle!LifecycleNext
<1>10. CASE j.event = "PaymentRefunded"
  <2>1. Lifecycle!Change(j.payment, "paid", "refunded", "PaymentRefunded")
    BY <1>1, <1>3, <1>4, <1>5, <1>6, <1>10 DEF JobShape, Ops, Matches, Lifecycle!Change, Status
  <2> QED BY <1>1, <2>1 DEF Lifecycle!LifecycleNext
<1>11. CASE j.op # "create" /\ j.event = "none"
  <2>1. Status[j.payment] = j.status
    BY <1>3, <1>5, <1>11 DEF Matches
  <2>2. Status' = Status
    BY <1>1, <1>4, <2>1 DEF Status
  <2> QED BY <1>6, <1>11, <2>2
<1> QED BY <1>1, <1>7, <1>8, <1>9, <1>10, <1>11 DEF JobShape, Ops

LEMMA OthersKeepTheLifecycle ==
    ASSUME PaymentInv, [Next]_vars,
           ~\E c \in Callers : Save(c) \/ SaveAnswerLost(c)
    PROVE  UNCHANGED <<Status, outbox>> /\ UNCHANGED payments
<1>1. UNCHANGED <<payments, outbox>>
  <2>1. \A c \in Callers : Deciding(c) => UNCHANGED <<payments, outbox>>
    BY DecisionCases DEF Decide, tables
  <2>2. \A c \in Callers : ProviderAccepts(c) \/ ProviderFails(c) => UNCHANGED <<payments, outbox>>
    BY ProviderCases
  <2> QED BY StepCases, <2>1, <2>2 DEF vars, Create, SaveFails
<1> QED BY <1>1 DEF Status

LEMMA StepKeepsOneAtATime ==
    ASSUME Concurrent = FALSE, PaymentInv, OneAtATime, [Next]_vars
    PROVE  OneAtATime'
<1>1. CASE \E c \in Callers : Deciding(c)
  <2>1. PICK c \in Callers : Deciding(c)
    BY <1>1
  <2>2. PICK j \in Jobs \cup {NoJob}, next \in {"calling", "saving", "refused"} :
          Decide(c, j, next) /\ (next # "refused" => Matches(j))
    BY <2>1, DecisionCases
  <2>3. /\ \A d \in Callers : ~Running(d)
        /\ UNCHANGED <<payments, created, outbox>>
        /\ job'[c] = j /\ pc'[c] = next
        /\ \A d \in Callers : d # c => job'[d] = job[d] /\ pc'[d] = pc[d]
    BY <2>2 DEF Decide, Idle, tables, PaymentInv, TypeOK
  <2>4. \A d \in Callers : Running(d)' => d = c /\ next # "refused"
    BY <2>3 DEF Running
  <2> QED BY <2>2, <2>3, <2>4 DEF OneAtATime, Matches, Stored
<1>2. CASE \E c \in Callers, p \in Payments, o \in Orders : Create(c, p, o)
  <2>1. PICK c \in Callers, p \in Payments, o \in Orders : Create(c, p, o)
    BY <1>2
  <2>2. /\ \A d \in Callers : ~Running(d)
        /\ UNCHANGED <<payments, outbox>>
        /\ job'[c].op = "create" /\ job'[c].payment = p /\ job'[c].event = "none"
        /\ \A d \in Callers : d # c => job'[d] = job[d] /\ pc'[d] = pc[d]
    BY <2>1 DEF Create, Idle, PaymentInv, TypeOK
  <2>3. ~Stored(p)
    BY <2>1 DEF Create, FreshId, PaymentInv, CreationsOK, Listed
  <2> QED BY <2>2, <2>3 DEF OneAtATime, Running, Matches, Stored
<1>3. CASE \E c \in Callers : ProviderAccepts(c) \/ ProviderFails(c)
  <2>1. PICK c \in Callers : ProviderAccepts(c) \/ ProviderFails(c)
    BY <1>3
  <2>2. PICK a \in {"saving", "failed"} : pc' = [pc EXCEPT ![c] = a]
    BY <2>1, ProviderCases
  <2>3. pc[c] = "calling" /\ UNCHANGED <<payments, job>>
    BY <2>1, ProviderCases
  <2>4. \A d \in Callers : Running(d)' => Running(d)
    BY <2>2, <2>3 DEF Running, PaymentInv, TypeOK
  <2> QED BY <2>3, <2>4 DEF OneAtATime, Matches, Stored
<1>4. CASE \E c \in Callers : Save(c) \/ SaveAnswerLost(c)
  <2>1. PICK c \in Callers : Save(c) \/ SaveAnswerLost(c)
    BY <1>4
  <2>2. PICK a \in {"ok", "failed"} : pc' = [pc EXCEPT ![c] = a]
    BY <2>1, SavedCases
  <2>3. Running(c)
    BY <2>1, SavedCases DEF Running
  <2>4. \A d \in Callers : ~Running(d)'
    BY <2>2, <2>3 DEF OneAtATime, Running, PaymentInv, TypeOK
  <2> QED BY <2>4 DEF OneAtATime
<1>5. CASE \E c \in Callers : SaveFails(c)
  <2>1. PICK c \in Callers : pc[c] = "saving" /\ pc' = [pc EXCEPT ![c] = "failed"]
    BY <1>5 DEF SaveFails
  <2>2. \A d \in Callers : ~Running(d)'
    BY <2>1 DEF OneAtATime, Running, PaymentInv, TypeOK
  <2> QED BY <2>2 DEF OneAtATime
<1>6. CASE UNCHANGED vars
  BY <1>6 DEF vars, OneAtATime, Running, Matches, Stored
<1> QED BY <1>1, <1>2, <1>3, <1>4, <1>5, <1>6, StepCases

(***************************************************************************)
(* With commands run one at a time, every save of the service is a change  *)
(* of the lifecycle with its event, or changes nothing: repeated commands, *)
(* failed calls to the provider and lost answers leave no other trace.     *)
(***************************************************************************)
THEOREM LifecycleRefinement ==
    ASSUME Concurrent = FALSE
    PROVE  Spec => ImplementsLifecycle
<1>1. Init => Lifecycle!LifecycleInit /\ OneAtATime
  <2> SUFFICES ASSUME Init PROVE Lifecycle!LifecycleInit /\ OneAtATime
    OBVIOUS
  <2>1. Status = [p \in Payments |-> "none"]
    BY Shapes DEF Init, Status
  <2> QED BY <2>1 DEF Init, Lifecycle!LifecycleInit, OneAtATime, Running, Status
<1>2. PaymentInv /\ OneAtATime /\ [Next]_vars => OneAtATime'
  BY StepKeepsOneAtATime
<1>3. PaymentInv /\ OneAtATime /\ [Next]_vars => [Lifecycle!LifecycleNext]_<<Status, outbox>>
  <2> SUFFICES ASSUME PaymentInv, OneAtATime, [Next]_vars
               PROVE  [Lifecycle!LifecycleNext]_<<Status, outbox>>
    OBVIOUS
  <2>1. ASSUME NEW c \in Callers, Save(c) \/ SaveAnswerLost(c)
        PROVE  [Lifecycle!LifecycleNext]_<<Status, outbox>>
    <3>1. Matches(job[c])
      BY <2>1, SavedCases DEF OneAtATime, Running
    <3> QED BY <2>1, <3>1, SaveIsALifecycleStep
  <2>2. CASE ~\E c \in Callers : Save(c) \/ SaveAnswerLost(c)
    BY <2>2, OthersKeepTheLifecycle
  <2> QED BY <2>1, <2>2
<1> QED BY <1>1, <1>2, <1>3, PaymentInvariant, PTL
        DEF Spec, ImplementsLifecycle, Lifecycle!Spec, Lifecycle!lifecycleVars, Status

----------------------------------------------------------------------------
(***************************************************************************)
(* Numbers.  A nonempty set of naturals has a least element, because the   *)
(* intervals 1..k are well-founded under strict inclusion; one with an     *)
(* upper bound has a greatest.                                             *)
(***************************************************************************)
LEMMA LeastElement ==
    ASSUME NEW S \in SUBSET Nat, S # {}
    PROVE  \E m \in S : \A k \in S : m <= k
<1> DEFINE T == {1..k : k \in S}
<1>1. T \subseteq FiniteSubsetsOf(Nat)
  <2>1. SUFFICES ASSUME NEW k \in S PROVE 1..k \in FiniteSubsetsOf(Nat)
    OBVIOUS
  <2>2. 1 \in Int /\ k \in Int
    OBVIOUS
  <2>3. IsFiniteSet(1..k)
    BY <2>2, FS_Interval
  <2> QED BY <2>3 DEF FiniteSubsetsOf
<1>2. T # {}
  OBVIOUS
<1>3. PICK x \in T : \A y \in T : ~(<<y, x>> \in StrictSubsetOrdering(Nat))
  <2> HIDE DEF T
  <2>1. IsWellFoundedOn(StrictSubsetOrdering(Nat), FiniteSubsetsOf(Nat))
    BY FS_StrictSubsetOrderingWellFounded
  <2> QED BY <1>1, <1>2, <2>1, WFMin
<1>4. PICK m \in S : x = 1..m
  OBVIOUS
<1>5. ASSUME NEW k \in S, ~(m <= k) PROVE FALSE
  <2>1. 1..k \in T
    OBVIOUS
  <2>2. 1..k \subseteq 1..m /\ m \in 1..m /\ m \notin 1..k
    BY <1>5
  <2>3. 1..k \in SUBSET Nat /\ 1..m \in SUBSET Nat
    OBVIOUS
  <2>4. <<1..k, 1..m>> \in StrictSubsetOrdering(Nat)
    BY <2>2, <2>3 DEF StrictSubsetOrdering
  <2> QED BY <1>3, <1>4, <2>1, <2>4
<1> QED BY <1>5

LEMMA GreatestElement ==
    ASSUME NEW n \in Nat, NEW S \in SUBSET (1..n), S # {}
    PROVE  \E m \in S : \A k \in S : k <= m
<1> DEFINE R == {i \in Nat : n - i \in S}
<1>1. \A k \in S : k \in Nat /\ n - k \in Nat /\ n - (n - k) = k
  OBVIOUS
<1>2. R # {}
  <2>1. PICK k \in S : TRUE
    OBVIOUS
  <2>2. n - k \in R
    BY <1>1, <2>1
  <2> QED BY <2>2
<1>3. PICK r \in R : \A q \in R : r <= q
  BY <1>2, LeastElement
<1>4. ASSUME NEW k \in S PROVE k <= n - r
  <2>1. n - k \in R
    BY <1>1
  <2>2. r <= n - k /\ r \in Nat
    BY <1>3, <2>1
  <2> QED BY <1>1, <2>2
<1> QED BY <1>3, <1>4

----------------------------------------------------------------------------
(***************************************************************************)
(* What a step of ConsumerNext does to the payment service.  A caller that *)
(* takes its answer, or dies, forgets its command; everything else is a    *)
(* step of PaymentService or leaves it alone.                              *)
(***************************************************************************)
Forget(c) ==
    /\ ~Running(c)
    /\ pc' = [pc EXCEPT ![c] = "idle"]
    /\ job' = [job EXCEPT ![c] = NoJob]
    /\ UNCHANGED <<tables, ledger>>

PaymentStep == [Next]_vars \/ \E c \in Callers : Forget(c)

\* A command saves the order it found in the row.
OrdersKept ==
    \A c \in Callers : job[c] # NoJob /\ job[c].op # "create" =>
                          job[c].order = payments[job[c].payment].order

LEMMA ForgetKeepsPaymentInv ==
    ASSUME PaymentInv, OrdersKept, NEW c \in Callers, Forget(c)
    PROVE  PaymentInv' /\ OrdersKept'
<1> USE DEF PaymentInv
<1>1. /\ UNCHANGED <<payments, created, outbox, captures, refunds>>
      /\ job'[c] = NoJob /\ pc'[c] = "idle"
      /\ \A d \in Callers : d # c => job'[d] = job[d] /\ pc'[d] = pc[d]
  BY DEF Forget, tables, ledger, TypeOK
<1>2. TypeOK'
  BY <1>1 DEF Forget, TypeOK, PCs
<1>3. CommandsOK'
  BY <1>1 DEF CommandsOK, Running
<1>4. LoadedStored'
  BY <1>1 DEF LoadedStored, Stored
<1>5. CreationsOK'
  BY <1>1 DEF CreationsOK, Creating, Stored, Listed
<1>6. RowsReconstruct'
  BY <1>1 DEF RowsReconstruct
<1>7. OrdersKept'
  BY <1>1 DEF OrdersKept
<1> QED BY <1>2, <1>3, <1>4, <1>5, <1>6, <1>7

(***************************************************************************)
(* No step takes a stored payment away, gives it to another order, or      *)
(* takes it back to pending.                                               *)
(***************************************************************************)
RowsAdvance ==
    \A p \in Payments : Stored(p) =>
        /\ Stored(p)'
        /\ payments'[p].order = payments[p].order
        /\ payments[p].status # "pending" => payments'[p].status # "pending"

LEMMA SavedAdvances ==
    ASSUME PaymentInv, OrdersKept, NEW c \in Callers, Save(c) \/ SaveAnswerLost(c)
    PROVE  OrdersKept' /\ RowsAdvance
<1> DEFINE j == job[c]
<1>1. /\ pc[c] = "saving" /\ j \in Jobs /\ j # NoJob /\ JobShape(j) /\ j.payment \in Payments
      /\ SaveTransaction(j) /\ UNCHANGED job
  BY SavedCases
<1>2. /\ j.op # "create" => j.order = payments[j.payment].order
      /\ j.op = "create" => ~Stored(j.payment)
  BY <1>1 DEF OrdersKept, PaymentInv, CreationsOK, Creating
<1>3. RowAfter(j).order = j.order /\ RowAfter(j).status = j.status /\ RowAfter(j) # NoRow
  BY <1>1, SavedRow DEF RowAfter
<1>4. j.op \in Ops
  BY <1>1, Shapes
<1>5. \A d \in Callers : job[d] # NoJob /\ job[d].op # "create" =>
                           job[d].payment \in Payments /\ Stored(job[d].payment)
  BY Shapes DEF PaymentInv, TypeOK, LoadedStored
<1> HIDE DEF j
<1>6. /\ payments'[j.payment] = RowAfter(j)
      /\ \A p \in Payments : p # j.payment => payments'[p] = payments[p]
  BY <1>1 DEF SaveTransaction, PaymentInv, TypeOK
<1>7. OrdersKept'
  <2> SUFFICES ASSUME NEW d \in Callers, job[d] # NoJob, job[d].op # "create"
               PROVE  job[d].order = payments'[job[d].payment].order
    BY <1>1 DEF OrdersKept
  <2>1. job[d].order = payments[job[d].payment].order
    BY DEF OrdersKept
  <2> QED BY <1>2, <1>3, <1>5, <1>6, <2>1
<1>8. RowsAdvance
  <2> SUFFICES ASSUME NEW p \in Payments, Stored(p)
               PROVE  /\ payments'[p] # NoRow
                      /\ payments'[p].order = payments[p].order
                      /\ payments[p].status # "pending" => payments'[p].status # "pending"
    BY DEF RowsAdvance, Stored
  <2>1. CASE p # j.payment
    BY <1>6, <2>1 DEF Stored
  <2>2. CASE p = j.payment
    BY <1>1, <1>2, <1>3, <1>4, <1>6, <2>2 DEF JobShape, Ops
  <2> QED BY <2>1, <2>2
<1> QED BY <1>7, <1>8

LEMMA DecidingKeepsOrders ==
    ASSUME PaymentInv, OrdersKept, NEW c \in Callers, Deciding(c)
    PROVE  OrdersKept'
<1> DEFINE FromRow(j) == \/ j = NoJob
                         \/ j.order = payments[j.payment].order
<1>1. \A op, p, st, reason, event : FromRow(Loaded(op, p, st, reason, event))
  BY DEF Loaded
<1> HIDE DEF FromRow
<1>2. \E j, next : Decide(c, j, next) /\ FromRow(j)
  <2>1. CASE Refuse(c)
    BY <2>1 DEF Refuse, FromRow
  <2>2. ASSUME NEW p \in Payments, MarkPaid(c, p)
        PROVE  \E j, next : Decide(c, j, next) /\ FromRow(j)
    BY <1>1, <2>2 DEF MarkPaid
  <2>3. ASSUME NEW p \in Payments, Refund(c, p)
        PROVE  \E j, next : Decide(c, j, next) /\ FromRow(j)
    BY <1>1, <2>3 DEF Refund
  <2>4. ASSUME NEW p \in Payments, NEW reason \in Reasons, MarkFailed(c, p, reason)
        PROVE  \E j, next : Decide(c, j, next) /\ FromRow(j)
    BY <1>1, <2>4 DEF MarkFailed
  <2> QED BY <2>1, <2>2, <2>3, <2>4 DEF Deciding
<1>3. PICK j, next : Decide(c, j, next) /\ FromRow(j)
  BY <1>2
<1>4. /\ payments' = payments /\ job'[c] = j
      /\ \A d \in Callers : d # c => job'[d] = job[d]
  BY <1>3 DEF Decide, tables, PaymentInv, TypeOK
<1> QED BY <1>3, <1>4 DEF OrdersKept, FromRow

LEMMA PaymentStepKeeps ==
    ASSUME PaymentInv, OrdersKept, PaymentStep
    PROVE  PaymentInv' /\ OrdersKept' /\ RowsAdvance
<1>1. ASSUME UNCHANGED payments PROVE RowsAdvance
  BY <1>1 DEF RowsAdvance, Stored
<1>2. ASSUME UNCHANGED <<payments, job>> PROVE OrdersKept' /\ RowsAdvance
  BY <1>1, <1>2 DEF OrdersKept
<1>3. CASE UNCHANGED vars
  BY <1>2, <1>3, NextKeepsPaymentInv DEF vars
<1>4. ASSUME NEW c \in Callers, Forget(c)
      PROVE  PaymentInv' /\ OrdersKept' /\ RowsAdvance
  BY <1>1, <1>4, ForgetKeepsPaymentInv DEF Forget, tables
<1>5. ASSUME Next PROVE PaymentInv' /\ OrdersKept' /\ RowsAdvance
  <2>1. PaymentInv'
    BY <1>5, NextKeepsPaymentInv
  <2>2. ASSUME NEW c \in Callers, NEW p \in Payments, NEW o \in Orders, Create(c, p, o)
        PROVE  OrdersKept' /\ RowsAdvance
    <3>1. /\ payments' = payments /\ job'[c].op = "create"
          /\ \A d \in Callers : d # c => job'[d] = job[d]
      BY <2>2 DEF Create, PaymentInv, TypeOK
    <3>2. OrdersKept'
      BY <3>1 DEF OrdersKept
    <3> QED BY <1>1, <3>1, <3>2
  <2>3. ASSUME NEW c \in Callers, Deciding(c)
        PROVE  OrdersKept' /\ RowsAdvance
    <3>1. UNCHANGED payments
      BY <2>3, DecisionCases DEF Decide, tables
    <3> QED BY <1>1, <2>3, <3>1, DecidingKeepsOrders
  <2>4. ASSUME NEW c \in Callers, ProviderAccepts(c) \/ ProviderFails(c)
        PROVE  OrdersKept' /\ RowsAdvance
    BY <1>2, <2>4, ProviderCases
  <2>5. ASSUME NEW c \in Callers, SaveFails(c)
        PROVE  OrdersKept' /\ RowsAdvance
    BY <1>2, <2>5 DEF SaveFails
  <2>6. CASE UNCHANGED vars
    BY <1>2, <2>1, <2>6 DEF vars
  <2> QED BY <1>5, <2>1, <2>2, <2>3, <2>4, <2>5, <2>6, SavedAdvances, StepCases
<1> QED BY <1>3, <1>4, <1>5 DEF PaymentStep

----------------------------------------------------------------------------
(***************************************************************************)
(* The payment a handler finds.                                            *)
(***************************************************************************)
LEMMA FoundPayment ==
    ASSUME PaymentInv, NEW o \in Orders, PaymentsOf(o) # {}
    PROVE  Latest(o) \in PaymentsOf(o)
<1> DEFINE S == {i \in 1..Len(created) : created[i] \in PaymentsOf(o)}
<1>1. Len(created) \in Nat
  BY DEF PaymentInv, TypeOK
<1>2. S # {}
  <2>1. PICK p \in Payments : payments[p].order = o
    BY DEF PaymentsOf
  <2>2. Stored(p)
    BY <2>1, NoOrderAssumption DEF Stored, NoRow
  <2>3. PICK i \in 1..Len(created) : created[i] = p
    BY <2>2 DEF PaymentInv, CreationsOK, Listed
  <2>4. created[i] \in PaymentsOf(o)
    BY <2>1, <2>3 DEF PaymentsOf
  <2> QED BY <2>4
<1>3. PICK m \in S : \A k \in S : k <= m
  BY <1>1, <1>2, GreatestElement
<1>4. \A j \in (m + 1)..Len(created) : created[j] \notin PaymentsOf(o)
  BY <1>1, <1>3
<1> DEFINE last == CHOOSE i \in 1..Len(created) :
                      /\ created[i] \in PaymentsOf(o)
                      /\ \A j \in (i + 1)..Len(created) : created[j] \notin PaymentsOf(o)
<1>5. created[last] \in PaymentsOf(o)
  BY <1>3, <1>4
<1> QED BY <1>5 DEF Latest

----------------------------------------------------------------------------
(***************************************************************************)
(* The handlers.  What a handler plans fits its message and the payment it *)
(* found, and stays so while others change that payment: the order of a    *)
(* payment never changes, and no payment becomes pending again.            *)
(***************************************************************************)
OnPayment(c) == plan[c] \in [op : Ops, payment : Payments]

Busy == {"issuing", "waiting", "reloading"}

PlanFits(c) ==
    /\ stage[c] \in Busy => plan[c].op = "create" \/ OnPayment(c)
    /\ stage[c] \in {"waiting", "reloading"} => OnPayment(c)
    /\ stage[c] \in Busy /\ Message(c).name = "OrderPlaced" => plan[c].op \in {"create", "paid"}
    /\ stage[c] \in Busy /\ plan[c].op = "paid" =>
          payments[plan[c].payment].order = Message(c).order
    /\ stage[c] = "reloading" =>
          plan[c].op = "paid" /\ payments[plan[c].payment].status # "pending"

CommandFits(c) ==
    stage[c] = "waiting" =>
        /\ job[c] # NoJob /\ job[c].op = plan[c].op /\ job[c].payment = plan[c].payment
        /\ plan[c].op = "create" => job[c].order = Message(c).order
        /\ plan[c].op = "create" /\ pc[c] = "ok" =>
              payments[plan[c].payment].order = Message(c).order
        /\ plan[c].op = "paid" /\ pc[c] = "ok" => payments[plan[c].payment].status # "pending"

HandlerOK(c) ==
    /\ stage[c] # "fetching" => msg[c] # 0
    /\ PlanFits(c)
    /\ CommandFits(c)

(***************************************************************************)
(* The offsets.  Everything before the committed offset is settled, and so *)
(* is everything before the owner's position and before a message in hand, *)
(* except that message itself while its handler runs.                      *)
(***************************************************************************)
Decided(o) == \E p \in PaymentsOf(o) : payments[p].status # "pending"

Settled(i) == topic[i].name = "OrderPlaced" /\ i \notin lost => Decided(topic[i].order)

CommitsOK ==
    /\ \A i \in 1..(offset - 1) : Settled(i)
    /\ \A i \in 1..(position[owner] - 1) :
          Settled(i) \/ (stage[owner] # "fetching" /\ i = msg[owner])
    /\ \A c \in Consumers : stage[c] # "fetching" => \A i \in 1..(msg[c] - 1) : Settled(i)
    /\ \A c \in Consumers : stage[c] = "committing" => Settled(msg[c])

ConsumerInv ==
    /\ ConsumerTypeOK
    /\ PaymentInv
    /\ OrdersKept
    /\ \A c \in Consumers : HandlerOK(c)
    /\ CommitsOK

----------------------------------------------------------------------------
(***************************************************************************)
(* Who moves.  A step of the payment service is one caller's, and a step   *)
(* of the group one consumer's; the others keep their commands and         *)
(* handlers.                                                               *)
(***************************************************************************)
CallerStep(c) == UNCHANGED vars \/ Command(c) \/ Refuse(c) \/ Progress(c) \/ Forget(c)

OthersKeepCommands(c) == \A d \in Callers : d # c => job'[d] = job[d] /\ pc'[d] = pc[d]

OthersKeepHandlers(c) ==
    \A d \in Consumers : d # c =>
        /\ msg'[d] = msg[d] /\ stage'[d] = stage[d]
        /\ plan'[d] = plan[d] /\ attempt'[d] = attempt[d]

LEMMA CallerStepCases ==
    ASSUME PaymentInv, NEW c \in Callers, CallerStep(c)
    PROVE  PaymentStep /\ OthersKeepCommands(c)
<1>1. PaymentStep
  BY DEF CallerStep, PaymentStep, Next
<1>2. job \in [Callers -> Jobs \cup {NoJob}] /\ pc \in [Callers -> PCs]
  BY DEF PaymentInv, TypeOK
<1>3. ASSUME NEW j, NEW next, Decide(c, j, next) PROVE OthersKeepCommands(c)
  <2>1. job' = [job EXCEPT ![c] = j] /\ pc' = [pc EXCEPT ![c] = next]
    BY <1>3 DEF Decide
  <2> QED BY <1>2, <2>1 DEF OthersKeepCommands
<1>4. CASE UNCHANGED vars \/ Forget(c)
  BY <1>1, <1>2, <1>4 DEF vars, Forget, OthersKeepCommands
<1>5. CASE Refuse(c) \/ Command(c)
  <2>1. ASSUME NEW p, NEW o, Create(c, p, o) PROVE OthersKeepCommands(c)
    BY <1>2, <2>1 DEF Create, OthersKeepCommands
  <2>2. ASSUME NEW p, MarkPaid(c, p) PROVE OthersKeepCommands(c)
    <3>1. \E j, next : Decide(c, j, next)
      BY <2>2 DEF MarkPaid
    <3> QED BY <1>3, <3>1
  <2>3. ASSUME NEW p, NEW reason, MarkFailed(c, p, reason) PROVE OthersKeepCommands(c)
    <3>1. \E j, next : Decide(c, j, next)
      BY <2>3 DEF MarkFailed
    <3> QED BY <1>3, <3>1
  <2>4. ASSUME NEW p, Refund(c, p) PROVE OthersKeepCommands(c)
    <3>1. \E j, next : Decide(c, j, next)
      BY <2>4 DEF Refund
    <3> QED BY <1>3, <3>1
  <2>5. CASE Refuse(c)
    BY <1>1, <1>3, <2>5 DEF Refuse
  <2> QED BY <1>1, <1>5, <2>1, <2>2, <2>3, <2>4, <2>5 DEF Command
<1>6. CASE Progress(c)
  BY <1>1, <1>2, <1>6 DEF Progress, ProviderAccepts, ProviderFails, Save, SaveAnswerLost, SaveFails,
                    OthersKeepCommands
<1> QED BY <1>1, <1>4, <1>5, <1>6 DEF CallerStep

(***************************************************************************)
(* The command that a handler issues.                                      *)
(***************************************************************************)
LEMMA Moves ==
    ASSUME ConsumerTypeOK, NEW c \in Consumers, NEW st \in Stages, NEW pl \in Plans,
           GoTo(c, st, pl)
    PROVE  /\ stage' \in [Consumers -> Stages] /\ plan' \in [Consumers -> Plans]
           /\ stage'[c] = st /\ plan'[c] = pl
           /\ \A d \in Consumers : d # c => stage'[d] = stage[d] /\ plan'[d] = plan[d]
BY DEF ConsumerTypeOK, GoTo

LEMMA PlanShapes ==
    /\ NoPlan \in Plans /\ [op |-> "create"] \in Plans
    /\ \A pl \in [op : Ops, payment : Payments] : pl \in Plans
    /\ \A pl \in Plans : pl = NoPlan \/ pl = [op |-> "create"]
                            \/ pl \in [op : Ops, payment : Payments]
    /\ NoPlan.op = "none"
    /\ [op |-> "create"].op = "create"
    /\ [op |-> "create"] # NoPlan
    /\ \A pl \in [op : Ops, payment : Payments] :
          pl.op \in Ops /\ pl.payment \in Payments /\ pl # NoPlan
    /\ \A op \in Ops, p \in Payments :
          /\ [op |-> op, payment |-> p] \in [op : Ops, payment : Payments]
          /\ [op |-> op, payment |-> p].op = op /\ [op |-> op, payment |-> p].payment = p
<1>1. /\ NoPlan.op = "none" /\ [op |-> "create"].op = "create"
      /\ \A pl \in [op : Ops, payment : Payments] : pl.op \in Ops /\ pl.payment \in Payments
  BY DEF NoPlan
<1> QED BY <1>1 DEF Plans, Ops

LEMMA InHand ==
    ASSUME ConsumerTypeOK, NEW c \in Consumers, msg[c] # 0
    PROVE  /\ msg[c] \in 1..Len(topic)
           /\ Message(c) \in Messages /\ Message(c).order \in Orders
<1>1. msg[c] \in 0..Len(topic) /\ topic \in Seq(Messages) /\ Len(topic) \in Nat
  BY DEF ConsumerTypeOK
<1>2. msg[c] \in 1..Len(topic) /\ topic[msg[c]] \in Messages
  BY <1>1
<1> QED BY <1>2 DEF Message, Messages

LEMMA OwnRow ==
    ASSUME PaymentInv, NEW p \in Payments, NEW o \in Orders, payments[p].order = o
    PROVE  /\ Stored(p) /\ payments[p].status \in Statuses /\ p \in PaymentsOf(o)
<1>1. Stored(p)
  BY NoOrderAssumption DEF Stored, NoRow
<1>2. payments[p] \in Rows
  BY <1>1 DEF Stored, PaymentInv, TypeOK
<1> QED BY <1>1, <1>2, Shapes DEF PaymentsOf

(***************************************************************************)
(* What holds of a handler and of a settled message outlasts the steps of  *)
(* others.                                                                 *)
(***************************************************************************)
LEMMA HandlerStays ==
    ASSUME ConsumerTypeOK, PaymentInv, RowsAdvance, NEW d \in Consumers, HandlerOK(d),
           topic' = topic, msg'[d] = msg[d], stage'[d] = stage[d], plan'[d] = plan[d],
           job'[d] = job[d], pc'[d] = pc[d]
    PROVE  HandlerOK(d)'
<1>1. Message(d)' = Message(d)
  BY DEF Message
<1>2. ASSUME stage[d] \in Busy, OnPayment(d), payments[plan[d].payment].order = Message(d).order
      PROVE  /\ payments'[plan[d].payment].order = Message(d).order
             /\ payments[plan[d].payment].status # "pending" =>
                  payments'[plan[d].payment].status # "pending"
  <2>1. plan[d].payment \in Payments /\ Message(d).order \in Orders
    BY <1>2, InHand, PlanShapes DEF OnPayment, HandlerOK, Busy
  <2>2. Stored(plan[d].payment)
    BY <1>2, <2>1, OwnRow
  <2> QED BY <1>2, <2>1, <2>2 DEF RowsAdvance
<1>3. OnPayment(d)' <=> OnPayment(d)
  BY DEF OnPayment
<1>4. PlanFits(d)'
  BY <1>1, <1>2, <1>3 DEF HandlerOK, PlanFits, Busy
<1>5. CommandFits(d)'
  BY <1>1, <1>2, <1>3 DEF HandlerOK, PlanFits, CommandFits, Busy
<1> QED BY <1>4, <1>5 DEF HandlerOK

LEMMA DecidedStays ==
    ASSUME PaymentInv, RowsAdvance, NEW o \in Orders, Decided(o)
    PROVE  Decided(o)'
<1>1. PICK p \in Payments : payments[p].order = o /\ payments[p].status # "pending"
  BY DEF Decided, PaymentsOf
<1>2. payments'[p].order = o /\ payments'[p].status # "pending"
  BY <1>1, OwnRow DEF RowsAdvance
<1> QED BY <1>2 DEF Decided, PaymentsOf

LEMMA SettledStays ==
    ASSUME ConsumerTypeOK, PaymentInv, RowsAdvance, topic' = topic, lost \subseteq lost',
           NEW i \in 1..Len(topic), Settled(i)
    PROVE  Settled(i)'
<1>1. topic[i].order \in Orders
  <2>1. topic \in Seq(Messages)
    BY DEF ConsumerTypeOK
  <2>2. topic[i] \in Messages
    BY <2>1
  <2> QED BY <2>2 DEF Messages
<1> QED BY <1>1, DecidedStays DEF Settled

\* Steps within handlers: a handler that returns has settled its message.
LEMMA CommitsStay ==
    ASSUME ConsumerInv, RowsAdvance, UNCHANGED <<topic, offset, owner, position, msg>>,
           lost \subseteq lost',
           \A d \in Consumers : stage'[d] = "fetching" <=> stage[d] = "fetching",
           \A d \in Consumers : stage'[d] = "committing" =>
                                   stage[d] = "committing" \/ Settled(msg[d])'
    PROVE  CommitsOK'
<1> USE DEF ConsumerInv
<1>1. /\ Len(topic) \in Nat /\ offset \in 1..(Len(topic) + 1) /\ owner \in Consumers
      /\ \A c \in Consumers : position[c] \in 1..(Len(topic) + 1)
      /\ \A c \in Consumers : msg[c] \in 0..Len(topic)
  BY DEF ConsumerTypeOK
<1>2. \A i \in 1..Len(topic) : Settled(i) => Settled(i)'
  BY SettledStays
<1>3. \A c \in Consumers : stage[c] = "committing" => msg[c] \in 1..Len(topic)
  BY InHand DEF HandlerOK
<1>4. \A i \in 1..(offset - 1) : Settled(i)'
  <2>1. \A i \in 1..(offset - 1) : i \in 1..Len(topic) /\ Settled(i)
    BY <1>1 DEF CommitsOK
  <2> QED BY <1>2, <2>1
<1>5. \A i \in 1..(position[owner] - 1) :
          Settled(i)' \/ (stage'[owner] # "fetching" /\ i = msg[owner])
  <2>1. position[owner] \in 1..(Len(topic) + 1)
    BY <1>1
  <2> QED BY <1>1, <1>2, <2>1 DEF CommitsOK
<1>6. \A c \in Consumers : stage'[c] # "fetching" => \A i \in 1..(msg[c] - 1) : Settled(i)'
  BY <1>1, <1>2 DEF CommitsOK
<1>7. \A c \in Consumers : stage'[c] = "committing" => Settled(msg[c])'
  <2> SUFFICES ASSUME NEW c \in Consumers, stage'[c] = "committing", stage[c] = "committing"
               PROVE  Settled(msg[c])'
    OBVIOUS
  <2>1. msg[c] \in 1..Len(topic) /\ Settled(msg[c])
    BY <1>3 DEF CommitsOK
  <2> QED BY <1>2, <2>1
<1> QED BY <1>4, <1>5, <1>6, <1>7 DEF CommitsOK

----------------------------------------------------------------------------
(***************************************************************************)
(* Steps of a handler.  HandlerMove is what they have in common; what is   *)
(* left to show for each is that its own state fits, and that it returns   *)
(* only from a settled message.                                            *)
(***************************************************************************)
FaultOrNone == UNCHANGED faults \/ Fault

HandlerMove(c) ==
    /\ CallerStep(c)
    /\ OthersKeepHandlers(c)
    /\ stage' \in [Consumers -> Stages] /\ plan' \in [Consumers -> Plans]
    /\ attempt' \in [Consumers -> 1..MaxAttempts]
    /\ UNCHANGED <<fits, topic, offset, owner, position, msg, handovers>>
    /\ lost' = lost \/ lost' = lost \cup {msg[c]}
    /\ FaultOrNone
    /\ stage[c] # "fetching" /\ stage'[c] # "fetching"

LEMMA FaultsTyped ==
    ASSUME ConsumerTypeOK, FaultOrNone
    PROVE  faults' \in 0..MaxFaults /\ faults \in Nat /\ faults' >= faults
BY MaxFaultsAssumption DEF ConsumerTypeOK, FaultOrNone, Fault

LEMMA HandlerMoveKeeps ==
    ASSUME ConsumerInv, NEW c \in Consumers, HandlerMove(c), HandlerOK(c)',
           stage'[c] = "committing" => stage[c] = "committing" \/ Settled(msg[c])'
    PROVE  ConsumerInv'
<1> USE DEF ConsumerInv
<1>1. /\ c \in Callers /\ PaymentStep /\ OthersKeepCommands(c)
  BY ConsumersAssumption, CallerStepCases DEF HandlerMove
<1>2. PaymentInv' /\ OrdersKept' /\ RowsAdvance
  BY <1>1, PaymentStepKeeps
<1>3. msg[c] \in 1..Len(topic)
  BY InHand DEF HandlerOK, HandlerMove
<1>4. ConsumerTypeOK'
  <2>1. faults' \in 0..MaxFaults /\ handovers' \in 0..faults'
    <3>1. faults' \in 0..MaxFaults /\ faults \in Nat /\ faults' >= faults
      BY FaultsTyped DEF HandlerMove
    <3>2. handovers \in 0..faults /\ handovers' = handovers
      BY DEF HandlerMove, ConsumerTypeOK
    <3> QED BY <3>1, <3>2
  <2>2. lost' \subseteq 1..Len(topic)
    BY <1>3 DEF HandlerMove, ConsumerTypeOK
  <2>3. /\ fits' \in BOOLEAN /\ topic' \in Seq(Messages) /\ offset' \in 1..(Len(topic') + 1)
        /\ owner' \in Consumers /\ position' \in [Consumers -> 1..(Len(topic') + 1)]
        /\ msg' \in [Consumers -> 0..Len(topic')] /\ lost' \subseteq 1..Len(topic')
    BY <2>2 DEF HandlerMove, ConsumerTypeOK
  <2>4. /\ stage' \in [Consumers -> Stages] /\ plan' \in [Consumers -> Plans]
        /\ attempt' \in [Consumers -> 1..MaxAttempts]
    BY DEF HandlerMove
  <2> QED BY <1>2, <2>1, <2>3, <2>4 DEF ConsumerTypeOK, PaymentInv
<1>5. ASSUME NEW d \in Consumers, d # c
      PROVE  /\ HandlerOK(d)' /\ stage'[d] = stage[d]
    BY <1>1, <1>2, <1>5, HandlerStays, ConsumersAssumption
       DEF HandlerMove, OthersKeepHandlers, OthersKeepCommands
<1>6. CommitsOK'
  <2>1. \A d \in Consumers : stage'[d] = "fetching" <=> stage[d] = "fetching"
    BY <1>5 DEF HandlerMove
  <2>2. \A d \in Consumers : stage'[d] = "committing" =>
                                stage[d] = "committing" \/ Settled(msg[d])'
    BY <1>5
  <2>3. UNCHANGED <<topic, offset, owner, position, msg>> /\ lost \subseteq lost'
    BY DEF HandlerMove
  <2> QED BY <1>2, <2>1, <2>2, <2>3, CommitsStay
<1> QED BY <1>2, <1>4, <1>5, <1>6

(***************************************************************************)
(* A handler that returns an error: whether it starts again or is given    *)
(* up, its message is in lost or still in hand.                            *)
(***************************************************************************)
LEMMA ReturnErrorKeeps ==
    ASSUME ConsumerInv, NEW c \in Consumers, stage[c] # "fetching", CallerStep(c),
           ReturnError(c), FaultOrNone, UNCHANGED <<fits, handovers>>
    PROVE  ConsumerInv'
<1>1. ConsumerTypeOK /\ HandlerOK(c)
  BY DEF ConsumerInv
<1>2. \/ /\ attempt' = [attempt EXCEPT ![c] = @ + 1] /\ attempt[c] < MaxAttempts
         /\ GoTo(c, "looking", NoPlan)
         /\ UNCHANGED <<msg, topic, offset, owner, position, lost>>
      \/ /\ lost' = lost \cup {msg[c]}
         /\ GoTo(c, "committing", NoPlan)
         /\ UNCHANGED <<msg, attempt, topic, offset, owner, position>>
  BY DEF ReturnError, groupVars
<1>3. PICK st \in {"looking", "committing"} : GoTo(c, st, NoPlan)
  BY <1>2
<1>4. /\ stage' \in [Consumers -> Stages] /\ plan' \in [Consumers -> Plans]
      /\ stage'[c] = st
      /\ \A d \in Consumers : d # c => stage'[d] = stage[d] /\ plan'[d] = plan[d]
  <2>1. st \in Stages /\ NoPlan \in Plans
    BY PlanShapes DEF Stages
  <2> QED BY <1>1, <1>3, <2>1, Moves
<1>5. /\ attempt' \in [Consumers -> 1..MaxAttempts]
      /\ \A d \in Consumers : d # c => attempt'[d] = attempt[d]
  <2>1. attempt \in [Consumers -> 1..MaxAttempts] /\ MaxAttempts \in Nat
    BY <1>1, MaxAttemptsAssumption DEF ConsumerTypeOK
  <2> QED BY <1>2, <2>1
<1>6. HandlerMove(c)
  BY <1>2, <1>4, <1>5 DEF HandlerMove, OthersKeepHandlers
<1>7. HandlerOK(c)'
  <2>1. stage'[c] \in {"looking", "committing"} /\ msg'[c] # 0
    BY <1>1, <1>2, <1>4 DEF HandlerOK
  <2> QED BY <2>1 DEF HandlerOK, PlanFits, CommandFits, Busy
<1>8. stage'[c] = "committing" => Settled(msg[c])'
  <2>1. stage'[c] = "committing" => msg[c] \in lost'
    <3>1. CASE GoTo(c, "looking", NoPlan)
      <4>1. stage'[c] = "looking"
        BY <1>1, <3>1, Moves, PlanShapes DEF Stages
      <4> QED BY <4>1
    <3>2. CASE lost' = lost \cup {msg[c]}
      BY <3>2
    <3> QED BY <1>2, <3>1, <3>2
  <2>2. msg' = msg
    BY <1>2
  <2> QED BY <2>1, <2>2 DEF Settled
<1> QED BY <1>6, <1>7, <1>8, HandlerMoveKeeps

LEMMA ReturnKeeps ==
    ASSUME ConsumerInv, NEW c \in Consumers, stage[c] # "fetching", CallerStep(c),
           Return(c), UNCHANGED <<faults, fits, handovers>>, Settled(msg[c])'
    PROVE  ConsumerInv'
<1>1. ConsumerTypeOK /\ HandlerOK(c)
  BY DEF ConsumerInv
<1>2. /\ GoTo(c, "committing", NoPlan)
      /\ UNCHANGED <<msg, attempt, topic, offset, owner, position, lost>>
  BY DEF Return, groupVars
<1>3. /\ stage' \in [Consumers -> Stages] /\ plan' \in [Consumers -> Plans]
      /\ stage'[c] = "committing"
      /\ \A d \in Consumers : d # c => stage'[d] = stage[d] /\ plan'[d] = plan[d]
  <2>1. "committing" \in Stages /\ NoPlan \in Plans
    BY PlanShapes DEF Stages
  <2> QED BY <1>1, <1>2, <2>1, Moves
<1>4. HandlerMove(c)
  <2>1. attempt' \in [Consumers -> 1..MaxAttempts]
    BY <1>1, <1>2 DEF ConsumerTypeOK
  <2> QED BY <1>2, <1>3, <2>1 DEF HandlerMove, OthersKeepHandlers, FaultOrNone
<1>5. HandlerOK(c)'
  <2>1. msg'[c] # 0
    BY <1>1, <1>2 DEF HandlerOK
  <2> QED BY <1>3, <2>1 DEF HandlerOK, PlanFits, CommandFits, Busy
<1> QED BY <1>4, <1>5, HandlerMoveKeeps

\* A handler that goes on to its next call.
GoOn(c, st, pl) ==
    /\ GoTo(c, st, pl)
    /\ UNCHANGED <<msg, attempt, groupVars, faults, fits, handovers>>

LEMMA GoOnKeeps ==
    ASSUME ConsumerInv, NEW c \in Consumers, stage[c] # "fetching", CallerStep(c),
           NEW st \in Busy, NEW pl \in Plans, GoOn(c, st, pl), PlanFits(c)', CommandFits(c)'
    PROVE  ConsumerInv'
<1>1. ConsumerTypeOK /\ HandlerOK(c)
  BY DEF ConsumerInv
<1>2. UNCHANGED <<msg, attempt, topic, offset, owner, position, lost, faults, fits, handovers>>
  BY DEF GoOn, groupVars
<1>3. /\ stage' \in [Consumers -> Stages] /\ plan' \in [Consumers -> Plans]
      /\ stage'[c] = st
      /\ \A d \in Consumers : d # c => stage'[d] = stage[d] /\ plan'[d] = plan[d]
  <2>1. st \in Stages
    BY DEF Stages, Busy
  <2> QED BY <1>1, <2>1, Moves DEF GoOn
<1>4. HandlerMove(c)
  <2>1. attempt' \in [Consumers -> 1..MaxAttempts]
    BY <1>1, <1>2 DEF ConsumerTypeOK
  <2> QED BY <1>2, <1>3, <2>1 DEF HandlerMove, OthersKeepHandlers, FaultOrNone, Busy
<1>5. HandlerOK(c)'
  <2>1. msg'[c] # 0
    BY <1>1, <1>2 DEF HandlerOK
  <2> QED BY <2>1 DEF HandlerOK
<1> QED BY <1>3, <1>4, <1>5, HandlerMoveKeeps DEF Busy

LEMMA PlanForFits ==
    ASSUME PaymentInv, NEW m \in Messages
    PROVE  LET pl == PlanFor(m) IN
           \/ pl = NoPlan /\ (m.name = "OrderPlaced" => Decided(m.order))
           \/ pl = [op |-> "create"] /\ m.name = "OrderPlaced" /\ PaymentsOf(m.order) = {}
           \/ /\ pl \in [op : Ops, payment : Payments]
              /\ payments[pl.payment].order = m.order
              /\ pl.op \in {"paid", "failed", "refund"}
              /\ m.name = "OrderPlaced" => pl.op = "paid"
<1> DEFINE p == Latest(m.order)
           none == PaymentsOf(m.order) = {}
<1>1. m.order \in Orders
  BY DEF Messages
<1>2. ~none => p \in Payments /\ payments[p].order = m.order /\ p \in PaymentsOf(m.order)
  BY <1>1, FoundPayment DEF PaymentsOf
<1> HIDE DEF p
<1>3. \A op \in {"paid", "failed", "refund"} : ~none =>
        /\ [op |-> op, payment |-> p] \in [op : Ops, payment : Payments]
        /\ [op |-> op, payment |-> p].op = op /\ [op |-> op, payment |-> p].payment = p
  BY <1>2, PlanShapes DEF Ops
<1>4. CASE m.name = "OrderPlaced" /\ none
  BY <1>4 DEF PlanFor, p
<1>5. CASE m.name = "OrderPlaced" /\ ~none /\ payments[p].status = "pending"
  <2>1. PlanFor(m) = [op |-> "paid", payment |-> p]
    BY <1>5 DEF PlanFor, p
  <2> QED BY <1>2, <1>3, <1>5, <2>1
<1>6. CASE m.name = "OrderPlaced" /\ ~none /\ payments[p].status # "pending"
  <2>1. PlanFor(m) = NoPlan
    BY <1>6 DEF PlanFor, p
  <2> QED BY <1>2, <1>6, <2>1 DEF Decided
<1>7. CASE m.name = "OrderCancelled" /\ ~none /\ payments[p].status = "paid"
  <2>1. PlanFor(m) = [op |-> "refund", payment |-> p]
    BY <1>7 DEF PlanFor, p
  <2> QED BY <1>2, <1>3, <1>7, <2>1
<1>8. CASE m.name = "OrderCancelled" /\ ~none /\ payments[p].status = "pending"
  <2>1. PlanFor(m) = [op |-> "failed", payment |-> p]
    BY <1>8 DEF PlanFor, p
  <2> QED BY <1>2, <1>3, <1>8, <2>1
<1>9. CASE /\ m.name # "OrderPlaced"
           /\ ~(m.name = "OrderCancelled" /\ ~none /\ payments[p].status \in {"paid", "pending"})
  <2>1. PlanFor(m) = NoPlan
    BY <1>9 DEF PlanFor, p
  <2> QED BY <1>9, <2>1
<1> QED BY <1>4, <1>5, <1>6, <1>7, <1>8, <1>9

----------------------------------------------------------------------------
(***************************************************************************)
(* The steps of a consumer, one lemma each.                                *)
(***************************************************************************)
Same == UNCHANGED <<fits, handovers>>

LEMMA LookKeeps ==
    ASSUME ConsumerInv, NEW c \in Consumers, Look(c), Same
    PROVE  ConsumerInv'
<1>1. /\ stage[c] = "looking" /\ CallerStep(c) /\ UNCHANGED <<fits, handovers, faults>>
      /\ payments' = payments
  BY DEF Look, At, CallerStep, Same, vars
<1>2. Message(c) \in Messages
  BY <1>1, InHand DEF ConsumerInv, HandlerOK
<1> DEFINE m == Message(c)
           pl == PlanFor(m)
<1>3. \/ pl = NoPlan /\ (m.name = "OrderPlaced" => Decided(m.order))
      \/ pl = [op |-> "create"] /\ m.name = "OrderPlaced"
      \/ /\ pl \in [op : Ops, payment : Payments]
         /\ payments[pl.payment].order = m.order
         /\ pl.op \in {"paid", "failed", "refund"}
         /\ m.name = "OrderPlaced" => pl.op = "paid"
  BY <1>2, PlanForFits DEF ConsumerInv
<1>4. pl \in Plans
  BY <1>3, PlanShapes
<1>5. CASE pl = NoPlan /\ Return(c)
  <2>1. m.name = "OrderPlaced" => Decided(m.order)
    BY <1>3, <1>5, PlanShapes
  <2>2. Settled(msg[c])'
    <3>1. m = topic[msg[c]] /\ UNCHANGED <<topic, msg>>
      BY <1>5 DEF Message, Return, groupVars
    <3> HIDE DEF m
    <3> QED BY <1>1, <2>1, <3>1 DEF Settled, Decided, PaymentsOf
  <2> QED BY <1>1, <1>5, <2>2, ReturnKeeps
<1>6. CASE pl # NoPlan /\ GoTo(c, "issuing", pl) /\ UNCHANGED <<msg, attempt, groupVars>>
  <2>1. GoOn(c, "issuing", pl)
    BY <1>1, <1>6 DEF GoOn
  <2>2. stage'[c] = "issuing" /\ plan'[c] = pl
    BY <1>4, <1>6, Moves DEF ConsumerInv, Stages
  <2>3. m' = m
    BY <1>6 DEF Message, groupVars
  <2> HIDE DEF m, pl
  <2>4. PlanFits(c)'
    BY <1>1, <1>3, <1>6, <2>2, <2>3, PlanShapes DEF PlanFits, OnPayment, Busy, m
  <2>5. CommandFits(c)'
    BY <2>2 DEF CommandFits
  <2> QED BY <1>1, <1>4, <2>1, <2>4, <2>5, GoOnKeeps DEF Busy
<1> QED BY <1>5, <1>6 DEF Look

\* A planned command is on a payment, unless it is to create one.
LEMMA Planned ==
    ASSUME ConsumerInv, NEW c \in Consumers, stage[c] \in Busy
    PROVE  /\ msg[c] # 0 /\ Message(c).order \in Orders /\ c \in Callers
           /\ PlanFits(c) /\ CommandFits(c)
           /\ plan[c].op # "create" \/ stage[c] # "issuing" =>
                 /\ OnPayment(c)
                 /\ plan[c].op \in Ops /\ plan[c].payment \in Payments
BY InHand, PlanShapes, ConsumersAssumption DEF ConsumerInv, HandlerOK, PlanFits, OnPayment, Busy

LEMMA IssueKeeps ==
    ASSUME ConsumerInv, NEW c \in Consumers, Issue(c), Same
    PROVE  ConsumerInv'
<1>1. /\ stage[c] = "issuing" /\ UNCHANGED <<msg, attempt, groupVars, faults, fits, handovers>>
      /\ UNCHANGED topic
  BY DEF Issue, Same, groupVars
<1>2. /\ msg[c] # 0 /\ Message(c).order \in Orders /\ c \in Callers /\ PlanFits(c)
      /\ plan[c].op # "create" => OnPayment(c) /\ plan[c].op \in Ops /\ plan[c].payment \in Payments
      /\ ConsumerTypeOK /\ PaymentInv
  BY <1>1, Planned DEF Busy, ConsumerInv
<1>3. Message(c)' = Message(c)
  BY <1>1 DEF Message
<1>4. CASE plan[c].op = "create"
  <2>1. PICK p \in Payments : /\ Create(c, p, Message(c).order)
                              /\ GoTo(c, "waiting", [op |-> "create", payment |-> p])
    BY <1>4 DEF Issue
  <2> DEFINE pl == [op |-> "create", payment |-> p]
  <2>2. pl \in [op : Ops, payment : Payments] /\ pl.op = "create" /\ pl.payment = p /\ pl \in Plans
    BY PlanShapes DEF Ops
  <2>3. GoTo(c, "waiting", pl)
    BY <2>1
  <2> HIDE DEF pl
  <2>4. stage'[c] = "waiting" /\ plan'[c] = pl
    BY <1>2, <2>2, <2>3, Moves DEF Stages
  <2>5. /\ job'[c].op = "create" /\ job'[c].payment = p /\ job'[c].order = Message(c).order
        /\ pc'[c] = "saving" /\ job'[c] # NoJob
    <3> DEFINE j == [op |-> "create", payment |-> p, order |-> Message(c).order,
                     status |-> "pending", reason |-> "none", event |-> "none"]
    <3>1. job'[c] = j /\ pc'[c] = "saving"
      BY <1>2, <2>1 DEF Create, PaymentInv, TypeOK
    <3>2. j.op = "create" /\ NoJob.op = "none"
      BY DEF NoJob
    <3> QED BY <3>1, <3>2
  <2>6. CallerStep(c)
    BY <1>2, <2>1 DEF CallerStep, Command
  <2>7. PlanFits(c)' /\ CommandFits(c)'
    BY <1>2, <1>3, <2>2, <2>4, <2>5 DEF PlanFits, CommandFits, OnPayment, Busy
  <2>8. GoOn(c, "waiting", pl)
    BY <1>1, <2>3 DEF GoOn
  <2> QED BY <1>1, <2>2, <2>6, <2>7, <2>8, GoOnKeeps DEF Busy
<1>5. CASE plan[c].op # "create"
  <2> DEFINE p == plan[c].payment
  <2>1. /\ \/ plan[c].op = "paid" /\ MarkPaid(c, p)
           \/ plan[c].op = "failed" /\ MarkFailed(c, p, OrderCancelled)
           \/ plan[c].op = "refund" /\ Refund(c, p)
        /\ GoTo(c, "waiting", plan[c])
    BY <1>5 DEF Issue
  <2>2. p \in Payments /\ OrderCancelled \in Reasons
    BY <1>2, <1>5, ReasonAssumption
  <2>3. CallerStep(c)
    BY <2>1, <2>2 DEF CallerStep, Command
  <2>4. /\ plan[c] \in Plans
        /\ stage'[c] = "waiting" /\ plan'[c] = plan[c]
    BY <1>2, <1>5, <2>1, Moves, PlanShapes DEF Stages, OnPayment
  <2>5. \E st, reason, event, next : /\ Decide(c, Loaded(plan[c].op, p, st, reason, event), next)
                                     /\ next \in {"calling", "saving"}
    BY <2>1 DEF MarkPaid, MarkFailed, Refund
  <2>6. /\ job'[c].op = plan[c].op /\ job'[c].payment = p /\ pc'[c] # "ok"
        /\ UNCHANGED payments
    BY <1>2, <2>5 DEF Decide, Loaded, tables, PaymentInv, TypeOK
  <2>7. job'[c] # NoJob
    BY <1>2, <1>5, <2>6 DEF NoJob, Ops
  <2>8. PlanFits(c)' /\ CommandFits(c)'
    BY <1>1, <1>2, <1>3, <1>5, <2>4, <2>6, <2>7
       DEF PlanFits, CommandFits, OnPayment, Busy
  <2>9. GoOn(c, "waiting", plan[c])
    BY <1>1, <2>1 DEF GoOn
  <2> QED BY <1>1, <2>3, <2>4, <2>8, <2>9, GoOnKeeps DEF Busy
<1> QED BY <1>4, <1>5

LEMMA CommandStepKeeps ==
    ASSUME ConsumerInv, NEW c \in Consumers, CommandStep(c), Same
    PROVE  ConsumerInv'
<1>1. /\ stage[c] = "waiting"
      /\ UNCHANGED <<topic, offset, owner, position, lost, msg, stage, plan, attempt, fits, handovers>>
      /\ FaultOrNone
  BY DEF CommandStep, Same, groupVars, handlerVars, FaultOrNone
<1>2. /\ msg[c] # 0 /\ Message(c).order \in Orders /\ c \in Callers
      /\ PlanFits(c) /\ CommandFits(c)
      /\ OnPayment(c) /\ plan[c].op \in Ops /\ plan[c].payment \in Payments
      /\ ConsumerTypeOK /\ PaymentInv /\ OrdersKept
  BY <1>1, Planned DEF Busy, ConsumerInv
<1>3. CallerStep(c)
  BY DEF CommandStep, CallerStep, Progress
<1>4. RowsAdvance
  BY <1>2, <1>3, CallerStepCases, PaymentStepKeeps
<1>5. job' = job
  BY DEF CommandStep, ProviderAccepts, ProviderFails, Save, SaveFails, SaveAnswerLost
<1>6. Message(c)' = Message(c)
  BY <1>1 DEF Message
<1>7. plan[c].op = "paid" => payments'[plan[c].payment].order = Message(c).order
  BY <1>1, <1>2, <1>4, OwnRow DEF PlanFits, Busy, RowsAdvance
<1>8. ASSUME pc'[c] = "ok"
      PROVE  /\ plan[c].op = "create" => payments'[plan[c].payment].order = Message(c).order
             /\ plan[c].op = "paid" => payments'[plan[c].payment].status # "pending"
  <2>1. pc \in [Callers -> PCs]
    BY <1>2 DEF PaymentInv, TypeOK
  <2>2. Save(c)
    BY <1>2, <1>8, <2>1 DEF CommandStep, ProviderAccepts, ProviderFails, SaveFails, SaveAnswerLost
  <2> DEFINE j == job[c]
  <2>3. /\ j \in Jobs /\ JobShape(j) /\ j.payment = plan[c].payment /\ j.op = plan[c].op
        /\ SaveTransaction(j)
        /\ plan[c].op = "create" => j.order = Message(c).order
    BY <1>1, <1>2, <2>2, SavedCases DEF CommandFits
  <2> HIDE DEF j
  <2>4. payments'[j.payment] = RowAfter(j)
    BY <1>2, <2>3 DEF SaveTransaction, PaymentInv, TypeOK
  <2>5. RowAfter(j).order = j.order /\ RowAfter(j).status = j.status
    BY DEF RowAfter
  <2> QED BY <2>3, <2>4, <2>5 DEF JobShape
<1>9. PlanFits(c)'
  BY <1>1, <1>2, <1>6, <1>7 DEF PlanFits, OnPayment, Busy
<1>10. CommandFits(c)'
  BY <1>1, <1>2, <1>5, <1>6, <1>8 DEF CommandFits
<1>11. HandlerMove(c)
  <2>1. /\ stage' \in [Consumers -> Stages] /\ plan' \in [Consumers -> Plans]
        /\ attempt' \in [Consumers -> 1..MaxAttempts]
    BY <1>1, <1>2 DEF ConsumerTypeOK
  <2> QED BY <1>1, <1>3, <2>1 DEF HandlerMove, OthersKeepHandlers
<1>12. HandlerOK(c)'
  BY <1>1, <1>2, <1>9, <1>10 DEF HandlerOK
<1> QED BY <1>1, <1>11, <1>12, HandlerMoveKeeps

LEMMA AnswerIsForgotten ==
    ASSUME ConsumerInv, NEW c \in Consumers, NEW a \in {"ok", "failed"}, TakeAnswer(c, a)
    PROVE  /\ stage[c] = "waiting" /\ pc[c] = a /\ CallerStep(c)
           /\ UNCHANGED <<payments, faults>>
<1>1. Forget(c)
  BY DEF TakeAnswer, Forget, Running
<1> QED BY <1>1 DEF TakeAnswer, CallerStep, tables

LEMMA CommandSucceededKeeps ==
    ASSUME ConsumerInv, NEW c \in Consumers, CommandSucceeded(c), Same
    PROVE  ConsumerInv'
<1>1. /\ stage[c] = "waiting" /\ pc[c] = "ok" /\ CallerStep(c)
      /\ UNCHANGED <<payments, faults, fits, handovers>>
  BY AnswerIsForgotten DEF CommandSucceeded, Same
<1>2. /\ msg[c] # 0 /\ Message(c).order \in Orders
      /\ PlanFits(c) /\ CommandFits(c)
      /\ OnPayment(c) /\ plan[c].op \in Ops /\ plan[c].payment \in Payments
      /\ ConsumerTypeOK
  BY <1>1, Planned DEF Busy, ConsumerInv
<1>3. ASSUME UNCHANGED <<msg, attempt, groupVars>>
      PROVE  Message(c)' = Message(c)
  BY <1>3 DEF Message, groupVars
<1>4. CASE /\ plan[c].op = "create"
           /\ GoTo(c, "issuing", [op |-> "paid", payment |-> plan[c].payment])
           /\ UNCHANGED <<msg, attempt, groupVars>>
  <2> DEFINE pl == [op |-> "paid", payment |-> plan[c].payment]
  <2>1. /\ pl \in [op : Ops, payment : Payments] /\ pl \in Plans
        /\ pl.op = "paid" /\ pl.payment = plan[c].payment
    BY <1>2, PlanShapes DEF Ops
  <2>2. GoTo(c, "issuing", pl)
    BY <1>4
  <2> HIDE DEF pl
  <2>3. stage'[c] = "issuing" /\ plan'[c] = pl
    BY <1>2, <2>1, <2>2, Moves DEF Stages
  <2>4. GoOn(c, "issuing", pl)
    BY <1>1, <1>4, <2>2 DEF GoOn
  <2>5. payments[plan[c].payment].order = Message(c).order
    BY <1>1, <1>2, <1>4 DEF CommandFits
  <2>6. PlanFits(c)' /\ CommandFits(c)'
    BY <1>1, <1>3, <1>4, <2>1, <2>3, <2>5 DEF PlanFits, CommandFits, OnPayment, Busy
  <2> QED BY <1>1, <2>1, <2>4, <2>6, GoOnKeeps DEF Busy
<1>5. CASE /\ plan[c].op = "paid"
           /\ GoTo(c, "reloading", plan[c])
           /\ UNCHANGED <<msg, attempt, groupVars>>
  <2>1. plan[c] \in Plans
    BY <1>2, PlanShapes DEF OnPayment
  <2>2. stage'[c] = "reloading" /\ plan'[c] = plan[c]
    BY <1>2, <1>5, <2>1, Moves DEF Stages
  <2>3. GoOn(c, "reloading", plan[c])
    BY <1>1, <1>5 DEF GoOn
  <2>4. PlanFits(c)' /\ CommandFits(c)'
    BY <1>1, <1>2, <1>3, <1>5, <2>2 DEF PlanFits, CommandFits, OnPayment, Busy
  <2> QED BY <1>1, <2>1, <2>3, <2>4, GoOnKeeps DEF Busy
<1>6. CASE plan[c].op \in {"failed", "refund"} /\ Return(c)
  <2>1. Message(c).name # "OrderPlaced"
    BY <1>1, <1>2, <1>6 DEF PlanFits, Busy
  <2>2. UNCHANGED <<topic, msg>>
    BY <1>6 DEF Return, groupVars
  <2>3. Settled(msg[c])'
    BY <2>1, <2>2 DEF Settled, Message
  <2> QED BY <1>1, <1>6, <2>3, ReturnKeeps
<1> QED BY <1>4, <1>5, <1>6 DEF CommandSucceeded

LEMMA ReloadKeeps ==
    ASSUME ConsumerInv, NEW c \in Consumers, Reload(c), Same
    PROVE  ConsumerInv'
<1>1. /\ stage[c] = "reloading" /\ CallerStep(c) /\ UNCHANGED <<fits, handovers, faults>>
      /\ payments' = payments /\ Return(c)
  BY DEF Reload, At, CallerStep, Same, vars
<1>2. /\ Message(c).order \in Orders /\ PlanFits(c) /\ plan[c].payment \in Payments
      /\ PaymentInv
  BY <1>1, Planned DEF Busy, ConsumerInv
<1>3. Decided(Message(c).order)
  BY <1>1, <1>2, OwnRow DEF PlanFits, Busy, Decided
<1>4. UNCHANGED <<topic, msg>>
  BY <1>1 DEF Return, groupVars
<1>5. Settled(msg[c])'
  BY <1>1, <1>3, <1>4 DEF Settled, Decided, PaymentsOf, Message
<1> QED BY <1>1, <1>5, ReturnKeeps

\* Everything that ends a handler with an error.
LEMMA ErrorsKeep ==
    ASSUME ConsumerInv, NEW c \in Consumers, Same,
           \/ DecodeFails(c) \/ LookFails(c) \/ IssueRefused(c) \/ IssueFails(c)
           \/ CommandFailed(c) \/ ReloadFails(c)
    PROVE  ConsumerInv'
<1>1. CASE CommandFailed(c)
  <2>1. /\ stage[c] = "waiting" /\ CallerStep(c) /\ ReturnError(c) /\ UNCHANGED faults
    BY <1>1, AnswerIsForgotten DEF CommandFailed
  <2> QED BY <2>1, ReturnErrorKeeps DEF Same, FaultOrNone
<1>2. CASE \/ DecodeFails(c) \/ LookFails(c) \/ IssueRefused(c) \/ IssueFails(c)
           \/ ReloadFails(c)
  <2>1. stage[c] # "fetching" /\ UNCHANGED vars /\ ReturnError(c) /\ FaultOrNone
    BY <1>2 DEF DecodeFails, LookFails, IssueRefused, IssueFails, ReloadFails, At, FaultOrNone
  <2> QED BY <2>1, ReturnErrorKeeps DEF Same, CallerStep
<1> QED BY <1>1, <1>2

----------------------------------------------------------------------------
(***************************************************************************)
(* Fetching, committing and the group's own steps, for which the offsets   *)
(* are what matters.                                                       *)
(***************************************************************************)
GroupTyped ==
    /\ fits \in BOOLEAN
    /\ topic \in Seq(Messages)
    /\ offset \in 1..(Len(topic) + 1)
    /\ owner \in Consumers
    /\ position \in [Consumers -> 1..(Len(topic) + 1)]
    /\ msg \in [Consumers -> 0..Len(topic)]
    /\ stage \in [Consumers -> Stages]
    /\ plan \in [Consumers -> Plans]
    /\ attempt \in [Consumers -> 1..MaxAttempts]
    /\ lost \subseteq 1..Len(topic)
    /\ faults \in 0..MaxFaults
    /\ handovers \in 0..faults

LEMMA GroupMoveKeeps ==
    ASSUME ConsumerInv, NEW c \in Consumers, CallerStep(c), OthersKeepHandlers(c),
           topic' = topic, GroupTyped', HandlerOK(c)', CommitsOK'
    PROVE  ConsumerInv'
<1> USE DEF ConsumerInv
<1>1. /\ c \in Callers /\ PaymentStep /\ OthersKeepCommands(c)
  BY ConsumersAssumption, CallerStepCases
<1>2. PaymentInv' /\ OrdersKept' /\ RowsAdvance
  BY <1>1, PaymentStepKeeps
<1>3. ConsumerTypeOK'
  BY <1>2 DEF ConsumerTypeOK, GroupTyped, PaymentInv
<1>4. ASSUME NEW d \in Consumers, d # c
      PROVE  HandlerOK(d)'
    BY <1>1, <1>2, <1>4, HandlerStays, ConsumersAssumption
       DEF OthersKeepHandlers, OthersKeepCommands
<1> QED BY <1>2, <1>3, <1>4

LEMMA SettledAfter ==
    ASSUME ConsumerInv, NEW c \in Consumers, CallerStep(c), topic' = topic, lost \subseteq lost'
    PROVE  \A i \in 1..Len(topic) : Settled(i) => Settled(i)'
BY ConsumersAssumption, CallerStepCases, PaymentStepKeeps, SettledStays DEF ConsumerInv

\* CommitsOK, with the ranges of its bounds.
LEMMA Offsets ==
    ASSUME ConsumerInv
    PROVE  /\ Len(topic) \in Nat /\ offset \in 1..(Len(topic) + 1) /\ owner \in Consumers
           /\ \A c \in Consumers : /\ position[c] \in 1..(Len(topic) + 1)
                                   /\ msg[c] \in 0..Len(topic)
                                   /\ stage[c] # "fetching" => msg[c] \in 1..Len(topic)
           /\ \A i \in 1..(offset - 1) : i \in 1..Len(topic) /\ Settled(i)
           /\ \A i \in 1..(position[owner] - 1) :
                 /\ i \in 1..Len(topic)
                 /\ Settled(i) \/ (stage[owner] # "fetching" /\ i = msg[owner])
           /\ \A c \in Consumers : stage[c] # "fetching" =>
                 \A i \in 1..(msg[c] - 1) : i \in 1..Len(topic) /\ Settled(i)
           /\ \A c \in Consumers : stage[c] = "committing" => Settled(msg[c])
<1>1. /\ Len(topic) \in Nat /\ offset \in 1..(Len(topic) + 1) /\ owner \in Consumers
      /\ \A c \in Consumers : /\ position[c] \in 1..(Len(topic) + 1)
                              /\ msg[c] \in 0..Len(topic)
                              /\ stage[c] # "fetching" => msg[c] \in 1..Len(topic)
  BY InHand DEF ConsumerInv, ConsumerTypeOK, HandlerOK
<1>2. position[owner] \in 1..(Len(topic) + 1)
  BY <1>1
<1>3. CommitsOK
  BY DEF ConsumerInv
<1> QED BY <1>1, <1>2, <1>3 DEF CommitsOK

LEMMA FetchKeeps ==
    ASSUME ConsumerInv, NEW c \in Consumers, Fetch(c), Same
    PROVE  ConsumerInv'
<1>1. /\ stage[c] = "fetching" /\ owner = c /\ position[c] <= Len(topic)
      /\ CallerStep(c) /\ UNCHANGED <<topic, offset, owner, lost, faults, fits, handovers>>
      /\ msg' = [msg EXCEPT ![c] = position[c]]
      /\ position' = [position EXCEPT ![c] = @ + 1]
      /\ attempt' = [attempt EXCEPT ![c] = 1]
      /\ GoTo(c, "looking", NoPlan)
  BY DEF Fetch, At, CallerStep, Same
<1>2. ConsumerTypeOK
  BY DEF ConsumerInv
<1>3. /\ stage' \in [Consumers -> Stages] /\ plan' \in [Consumers -> Plans]
      /\ stage'[c] = "looking"
      /\ \A d \in Consumers : d # c => stage'[d] = stage[d] /\ plan'[d] = plan[d]
  BY <1>1, <1>2, Moves, PlanShapes DEF Stages
<1>4. /\ position[c] \in 1..Len(topic) /\ msg' \in [Consumers -> 0..Len(topic)]
      /\ position' \in [Consumers -> 1..(Len(topic) + 1)]
      /\ msg'[c] = position[c] /\ position'[c] = position[c] + 1
      /\ \A d \in Consumers : d # c => msg'[d] = msg[d] /\ position'[d] = position[d]
  BY <1>1, <1>2, Offsets DEF ConsumerTypeOK
<1>5. /\ attempt' \in [Consumers -> 1..MaxAttempts]
      /\ \A d \in Consumers : d # c => attempt'[d] = attempt[d]
  BY <1>1, <1>2, MaxAttemptsAssumption DEF ConsumerTypeOK
<1>6. GroupTyped'
  BY <1>1, <1>2, <1>3, <1>4, <1>5 DEF GroupTyped, ConsumerTypeOK
<1>7. HandlerOK(c)'
  BY <1>3, <1>4 DEF HandlerOK, PlanFits, CommandFits, Busy
<1>8. \A i \in 1..Len(topic) : Settled(i) => Settled(i)'
  BY <1>1, SettledAfter
<1>9. \A i \in 1..(position[c] - 1) : i \in 1..Len(topic) /\ Settled(i)
  BY <1>1, Offsets
<1>10. CommitsOK'
  <2>1. \A i \in 1..(offset' - 1) : Settled(i)'
    BY <1>1, <1>8, Offsets
  <2>2. \A i \in 1..(position'[owner'] - 1) :
          Settled(i)' \/ (stage'[owner'] # "fetching" /\ i = msg'[owner'])
    BY <1>1, <1>3, <1>4, <1>8, <1>9
  <2>3. ASSUME NEW d \in Consumers, stage'[d] # "fetching"
        PROVE  \A i \in 1..(msg'[d] - 1) : Settled(i)'
    BY <1>3, <1>4, <1>8, <1>9, <2>3, Offsets
  <2>4. ASSUME NEW d \in Consumers, stage'[d] = "committing"
        PROVE  Settled(msg[d])'
    <3>1. stage[d] = "committing" /\ msg'[d] = msg[d]
      BY <1>3, <1>4, <2>4
    <3>2. PICK k \in 1..Len(topic) : k = msg[d] /\ Settled(k)
      BY <3>1, Offsets
    <3>3. Settled(k)' /\ k = msg'[d]
      BY <1>8, <3>1, <3>2
    <3> QED BY <3>3 DEF Settled
  <2> QED BY <2>1, <2>2, <2>3, <2>4 DEF CommitsOK
<1> QED BY <1>1, <1>3, <1>4, <1>5, <1>6, <1>7, <1>10, GroupMoveKeeps DEF OthersKeepHandlers

(***************************************************************************)
(* Leaving a message, by a commit or by the end of the process.  Where the *)
(* offset moves the message is settled; where the position stays with the  *)
(* owner, its handler had returned.                                        *)
(***************************************************************************)
Leave(c) ==
    /\ CallerStep(c)
    /\ GoTo(c, "fetching", NoPlan)
    /\ UNCHANGED <<topic, owner, msg, attempt, fits, handovers>>
    /\ FaultOrNone
    /\ \/ offset' = offset
       \/ offset' = msg[c] + 1 /\ stage[c] # "fetching" /\ Settled(msg[c])'
    /\ \/ owner # c /\ position' = position
       \/ stage[c] = "committing" /\ position' = position
       \/ owner = c /\ position' = [position EXCEPT ![c] = offset']
    /\ \/ lost' = lost
       \/ lost' = lost \cup {msg[c]} /\ stage[c] # "fetching"

LEMMA LeaveKeeps ==
    ASSUME ConsumerInv, NEW c \in Consumers, Leave(c)
    PROVE  ConsumerInv'
<1>1. /\ CallerStep(c) /\ GoTo(c, "fetching", NoPlan)
      /\ UNCHANGED <<topic, owner, msg, attempt, fits, handovers>>
      /\ lost \subseteq lost'
  BY DEF Leave
<1>2. ConsumerTypeOK
  BY DEF ConsumerInv
<1>3. /\ stage' \in [Consumers -> Stages] /\ plan' \in [Consumers -> Plans]
      /\ stage'[c] = "fetching"
      /\ \A d \in Consumers : d # c => stage'[d] = stage[d] /\ plan'[d] = plan[d]
  BY <1>1, <1>2, Moves, PlanShapes DEF Stages
<1>4. offset' \in 1..(Len(topic) + 1)
  BY Offsets DEF Leave
<1>5. /\ position' \in [Consumers -> 1..(Len(topic) + 1)]
      /\ \A d \in Consumers : d # c => position'[d] = position[d]
      /\ position'[c] = position[c] \/ position'[c] = offset'
  BY <1>2, <1>4 DEF Leave, ConsumerTypeOK
<1>6. GroupTyped'
  <2>1. faults' \in 0..MaxFaults /\ handovers' \in 0..faults'
    <3>1. faults' \in 0..MaxFaults /\ faults \in Nat /\ faults' >= faults
      BY <1>2, FaultsTyped DEF Leave
    <3>2. handovers \in 0..faults /\ handovers' = handovers
      BY <1>1, <1>2 DEF ConsumerTypeOK
    <3> QED BY <3>1, <3>2
  <2>2. lost' \subseteq 1..Len(topic)
    BY <1>2, Offsets DEF Leave, ConsumerTypeOK
  <2> QED BY <1>1, <1>2, <1>3, <1>4, <1>5, <2>1, <2>2 DEF GroupTyped, ConsumerTypeOK
<1>7. HandlerOK(c)'
  BY <1>3 DEF HandlerOK, PlanFits, CommandFits, Busy
<1>8. \A i \in 1..Len(topic) : Settled(i) => Settled(i)'
  BY <1>1, SettledAfter
<1>9. \A i \in 1..(offset' - 1) : Settled(i)'
  <2>1. CASE offset' = offset
    BY <1>8, <2>1, Offsets
  <2>2. CASE offset' = msg[c] + 1 /\ stage[c] # "fetching" /\ Settled(msg[c])'
    <3>1. PICK k \in 1..Len(topic) : k = msg[c]
      BY <2>2, Offsets
    <3>2. Settled(k)'
      BY <1>1, <2>2, <3>1 DEF Settled
    <3>3. \A i \in 1..(k - 1) : Settled(i)'
      BY <1>8, <2>2, <3>1, Offsets
    <3>4. \A i \in 1..(offset' - 1) : i \in 1..(k - 1) \/ i = k
      BY <2>2, <3>1
    <3> QED BY <3>2, <3>3, <3>4
  <2> QED BY <2>1, <2>2 DEF Leave
<1>10. \A i \in 1..(position'[owner] - 1) :
          Settled(i)' \/ (stage'[owner] # "fetching" /\ i = msg[owner])
  <2>1. CASE owner # c
    <3>1. position'[owner] = position[owner] /\ stage'[owner] = stage[owner]
      BY <1>3, <1>5, <2>1, Offsets
    <3> QED BY <1>8, <3>1, Offsets
  <2>2. CASE owner = c /\ stage[c] = "committing" /\ position' = position
    <3>1. PICK k \in 1..Len(topic) : k = msg[c] /\ Settled(k)
      BY <2>2, Offsets
    <3>2. \A i \in 1..(position[c] - 1) : i \in 1..Len(topic) /\ (Settled(i) \/ i = k)
      BY <2>2, <3>1, Offsets
    <3> QED BY <1>8, <2>2, <3>1, <3>2
  <2>3. CASE owner = c /\ position' = [position EXCEPT ![c] = offset']
    <3>1. position'[owner] = offset'
      BY <1>2, <2>3 DEF ConsumerTypeOK
    <3> QED BY <1>9, <3>1
  <2> QED BY <2>1, <2>2, <2>3 DEF Leave
<1>11. CommitsOK'
  <2>1. ASSUME NEW d \in Consumers, stage'[d] # "fetching"
        PROVE  \A i \in 1..(msg'[d] - 1) : Settled(i)'
    BY <1>1, <1>3, <1>8, <2>1, Offsets
  <2>2. ASSUME NEW d \in Consumers, stage'[d] = "committing"
        PROVE  Settled(msg[d])'
    <3>1. stage[d] = "committing" /\ msg'[d] = msg[d]
      BY <1>1, <1>3, <2>2
    <3>2. PICK k \in 1..Len(topic) : k = msg[d] /\ Settled(k)
      BY <3>1, Offsets
    <3>3. Settled(k)' /\ k = msg'[d]
      BY <1>8, <3>1, <3>2
    <3> QED BY <3>3 DEF Settled
  <2> QED BY <1>1, <1>9, <1>10, <2>1, <2>2 DEF CommitsOK
<1> QED BY <1>1, <1>3, <1>6, <1>7, <1>11, GroupMoveKeeps DEF OthersKeepHandlers

LEMMA CommitsKeep ==
    ASSUME ConsumerInv, NEW c \in Consumers, Same,
           Commit(c) \/ CommitRejected(c) \/ CommitFails(c)
    PROVE  ConsumerInv'
<1>1. stage[c] = "committing" /\ CallerStep(c) /\ payments' = payments
  BY DEF Commit, CommitRejected, CommitFails, At, CallerStep, vars
<1>2. UNCHANGED <<topic, lost, msg>>
  BY DEF Commit, CommitRejected, CommitFails, groupVars
<1>3. Settled(msg[c])'
  <2>1. Settled(msg[c])
    BY <1>1, Offsets
  <2> QED BY <1>1, <1>2, <2>1 DEF Settled, Decided, PaymentsOf
<1>4. Leave(c)
  BY <1>1, <1>2, <1>3
     DEF Leave, Commit, CommitRejected, CommitFails, groupVars, FaultOrNone, Same
<1> QED BY <1>4, LeaveKeeps

LEMMA EndsKeep ==
    ASSUME ConsumerInv, NEW c \in Consumers, Same, Restart(c) \/ Shutdown(c)
    PROVE  ConsumerInv'
<1>1. Forget(c) /\ FaultOrNone /\ UNCHANGED <<topic, owner, msg, attempt>>
      /\ GoTo(c, "fetching", NoPlan)
  BY DEF Restart, Shutdown, Forget, FaultOrNone
<1>2. Leave(c)
  <2>1. CASE Restart(c)
    BY <1>1, <2>1 DEF Restart, Leave, CallerStep, Same
  <2>2. CASE Shutdown(c)
    <3>1. \/ offset' = offset /\ lost' = lost
          \/ offset' = msg[c] + 1 /\ Settled(msg[c])' /\ lost' = lost \cup {msg[c]}
      BY <1>1, <2>2 DEF Shutdown, Settled
    <3> QED BY <1>1, <2>2, <3>1 DEF Shutdown, Leave, CallerStep, Same
  <2> QED BY <2>1, <2>2
<1> QED BY <1>2, LeaveKeeps

LEMMA RebalanceKeeps ==
    ASSUME ConsumerInv, NEW d \in Consumers, Rebalance(d), UNCHANGED fits
    PROVE  ConsumerInv'
<1>1. /\ owner' = d /\ handovers' = handovers + 1 /\ faults < MaxFaults /\ faults' = faults + 1
      /\ position' = [position EXCEPT ![d] = offset]
      /\ UNCHANGED <<vars, fits, topic, offset, lost, msg, stage, plan, attempt>>
      /\ OthersKeepHandlers(d) /\ CallerStep(d)
  BY DEF Rebalance, Fault, handlerVars, OthersKeepHandlers, CallerStep
<1>2. ConsumerTypeOK /\ d \in Callers /\ CommitsOK
  BY ConsumersAssumption DEF ConsumerInv
<1>3. GroupTyped'
  <2>1. faults' \in 0..MaxFaults /\ handovers' \in 0..faults'
    BY <1>1, <1>2, MaxFaultsAssumption DEF ConsumerTypeOK
  <2>2. position' \in [Consumers -> 1..(Len(topic) + 1)]
    BY <1>1, <1>2 DEF ConsumerTypeOK
  <2> QED BY <1>1, <1>2, <2>1, <2>2 DEF GroupTyped, ConsumerTypeOK
<1>4. HandlerOK(d)'
  BY <1>1 DEF ConsumerInv, HandlerOK, PlanFits, CommandFits, OnPayment, Message, vars
<1>5. \A i : Settled(i)' <=> Settled(i)
  BY <1>1 DEF Settled, Decided, PaymentsOf, vars
<1>6. CommitsOK'
  <2>1. position'[owner'] = offset
    BY <1>1, <1>2 DEF ConsumerTypeOK
  <2> QED BY <1>1, <1>2, <1>5, <2>1 DEF CommitsOK
<1> QED BY <1>1, <1>3, <1>4, <1>6, GroupMoveKeeps

\* The steps of the HTTP requests, and those of nobody.
LEMMA RequestsKeep ==
    ASSUME ConsumerInv, NEW r \in Callers, CallerStep(r),
           r \in HTTPRequests \/ UNCHANGED vars, UNCHANGED consumerVars
    PROVE  ConsumerInv'
<1>1. UNCHANGED <<fits, topic, offset, owner, position, lost, msg, stage, plan, attempt,
                  faults, handovers>>
  BY DEF consumerVars, groupVars, handlerVars
<1>2. PaymentInv /\ OrdersKept /\ ConsumerTypeOK
  BY DEF ConsumerInv
<1>3. PaymentStep /\ OthersKeepCommands(r)
  BY <1>2, CallerStepCases
<1>4. PaymentInv' /\ OrdersKept' /\ RowsAdvance
  BY <1>2, <1>3, PaymentStepKeeps
<1>5. ConsumerTypeOK'
  BY <1>1, <1>2, <1>4 DEF ConsumerTypeOK, PaymentInv
<1>6. ASSUME NEW d \in Consumers PROVE HandlerOK(d)'
  <2>1. job'[d] = job[d] /\ pc'[d] = pc[d]
    BY <1>3, ConsumersAssumption DEF OthersKeepCommands, HTTPRequests, vars
  <2> QED BY <1>1, <1>2, <1>4, <2>1, HandlerStays DEF ConsumerInv
<1>7. CommitsOK'
  BY <1>1, <1>4, CommitsStay
<1> QED BY <1>4, <1>5, <1>6, <1>7 DEF ConsumerInv

LEMMA StutterKeeps ==
    ASSUME ConsumerInv, UNCHANGED allVars
    PROVE  ConsumerInv'
<1>1. UNCHANGED vars /\ UNCHANGED consumerVars
  BY DEF allVars
<1>2. owner \in Callers
  BY ConsumersAssumption DEF ConsumerInv, ConsumerTypeOK
<1> QED BY <1>1, <1>2, RequestsKeep DEF CallerStep

LEMMA NextKeepsConsumerInv == ConsumerInv /\ [ConsumerNext]_allVars => ConsumerInv'
<1> SUFFICES ASSUME ConsumerInv, [ConsumerNext]_allVars PROVE ConsumerInv'
  OBVIOUS
<1>1. ASSUME NEW c \in Consumers, Work(c) \/ Trouble(c), Same
      PROVE  ConsumerInv'
  BY <1>1, FetchKeeps, LookKeeps, IssueKeeps, CommandStepKeeps, CommandSucceededKeeps,
     ReloadKeeps, ErrorsKeep, CommitsKeep, EndsKeep DEF Work, Trouble
<1>2. ASSUME NEW c \in Consumers, Rebalance(c), UNCHANGED fits PROVE ConsumerInv'
  BY <1>2, RebalanceKeeps
<1>3. ASSUME NEW r \in HTTPRequests, Command(r) \/ Refuse(r) \/ Progress(r),
             UNCHANGED consumerVars
      PROVE  ConsumerInv'
  BY <1>3, RequestsKeep DEF CallerStep, HTTPRequests
<1>4. CASE UNCHANGED allVars
  BY <1>4, StutterKeeps
<1> QED BY <1>1, <1>2, <1>3, <1>4 DEF ConsumerNext, Same

LEMMA InitConsumerInv == ConsumerInit => ConsumerInv
<1> SUFFICES ASSUME ConsumerInit PROVE ConsumerInv
  OBVIOUS
<1>1. PaymentInv
  BY InitPaymentInv DEF ConsumerInit
<1>2. topic \in Seq(Messages) /\ Len(topic) \in Nat
  BY TopicsAssumption DEF ConsumerInit
<1>3. ConsumerTypeOK
  BY <1>1, <1>2, MaxAttemptsAssumption, MaxFaultsAssumption, PlanShapes
     DEF ConsumerInit, ConsumerTypeOK, PaymentInv, Stages
<1>4. \A c \in Callers : job[c] = NoJob
  BY DEF ConsumerInit, Init
<1>5. OrdersKept
  BY <1>4 DEF OrdersKept
<1>6. \A c \in Consumers : stage[c] = "fetching"
  BY DEF ConsumerInit
<1>7. \A c \in Consumers : HandlerOK(c)
  BY <1>6 DEF HandlerOK, PlanFits, CommandFits, Busy
<1>8. CommitsOK
  <2>1. offset = 1 /\ position[owner] = 1
    BY DEF ConsumerInit
  <2> QED BY <1>6, <2>1 DEF CommitsOK
<1> QED BY <1>1, <1>3, <1>5, <1>7, <1>8 DEF ConsumerInv

----------------------------------------------------------------------------
(***************************************************************************)
(* The whole invariant, inductively: however handlers, retries, shutdowns, *)
(* rebalances and requests interleave, handlers act on rows of the order   *)
(* of their message, and offsets move past settled messages only.          *)
(***************************************************************************)
THEOREM ConsumerInvariant == ConsumerSpec => []ConsumerInv
BY InitConsumerInv, NextKeepsConsumerInv, PTL DEF ConsumerSpec

(***************************************************************************)
(* Every state of the group is well typed: no offset, position or message  *)
(* in hand is beyond the partition, and no plan is malformed.              *)
(***************************************************************************)
THEOREM ConsumerTypeCorrect == ConsumerSpec => []ConsumerTypeOK
<1>1. ConsumerInv => ConsumerTypeOK
  BY DEF ConsumerInv
<1> QED BY <1>1, ConsumerInvariant, PTL

(***************************************************************************)
(* A committed OrderPlaced whose handling was not abandoned has a payment  *)
(* that is decided: a commit never overtakes the handler.                  *)
(***************************************************************************)
THEOREM CommittedAreDecided == ConsumerSpec => []CommittedOrdersDecided
<1>1. ConsumerInv => CommittedOrdersDecided
  BY DEF ConsumerInv, CommitsOK, CommittedOrdersDecided, Settled, Decided
<1> QED BY <1>1, ConsumerInvariant, PTL

(***************************************************************************)
(* handleOrderPlaced never pays on its second look: the payment it marked  *)
(* paid is not pending when it is loaded again.                            *)
(***************************************************************************)
THEOREM ReloadNeverPays == ConsumerSpec => []ReloadIsLast
<1>1. ConsumerInv => ReloadIsLast
  <2> SUFFICES ASSUME ConsumerInv, NEW c \in Consumers, stage[c] = "reloading"
               PROVE  payments[plan[c].payment].status \in Statuses \ {"pending"}
    BY DEF ReloadIsLast
  <2>1. /\ Message(c).order \in Orders /\ PlanFits(c) /\ plan[c].payment \in Payments
        /\ PaymentInv
    BY Planned DEF Busy, ConsumerInv
  <2> QED BY <2>1, OwnRow DEF PlanFits, Busy
<1> QED BY <1>1, ConsumerInvariant, PTL

(***************************************************************************)
(* The payment service keeps its invariant behind this consumer: callers   *)
(* that retry, restart and forget their commands leave no row that it      *)
(* could not load again.                                                   *)
(***************************************************************************)
THEOREM ConsumerRowsReconstruct == ConsumerSpec => []RowsReconstruct
<1>1. ConsumerInv => RowsReconstruct
  BY DEF ConsumerInv, PaymentInv
<1> QED BY <1>1, ConsumerInvariant, PTL
----------------------------------------------------------------------------
(***************************************************************************)
(* Counting payments.  A consumer that lost the partition in the middle of *)
(* a handler is one of the rebalances; whoever is about to create a        *)
(* payment of an order is counted with the payments the order has.  A      *)
(* handler plans a payment only when the order has none, and then there    *)
(* are no more creators than the owner, the superseded handlers and the    *)
(* requests that create.                                                   *)
(***************************************************************************)
Superseded == {c \in Consumers \ {owner} : stage[c] # "fetching"}

Creates(c, o) ==
    \/ Creating(c) /\ job[c].order = o
    \/ c \in Consumers /\ stage[c] = "issuing" /\ plan[c].op = "create" /\ Message(c).order = o

Creators(o) == {c \in Callers : Creates(c, o)}

CommandsHaveHandlers == \A c \in Consumers : Running(c) => stage[c] = "waiting"

SupersededCounted == IsFiniteSet(Superseded) /\ Cardinality(Superseded) <= handovers

PaymentsCounted(o) ==
    /\ IsFiniteSet(PaymentsOf(o)) /\ IsFiniteSet(Creators(o))
    /\ IsFiniteSet(RequestsDoing("create", o))
    /\ Cardinality(PaymentsOf(o)) + Cardinality(Creators(o))
         <= 1 + handovers + Cardinality(RequestsDoing("create", o))

CountsInv ==
    /\ ConsumerInv
    /\ CommandsHaveHandlers
    /\ SupersededCounted
    /\ \A o \in Orders : PaymentsCounted(o)

\* Sets that grow by at most one element, or lose one.
LEMMA OneMore ==
    ASSUME NEW S, NEW T, NEW x, IsFiniteSet(S), T \subseteq S \cup {x}
    PROVE  /\ IsFiniteSet(T) /\ Cardinality(S) \in Nat /\ Cardinality(T) \in Nat
           /\ Cardinality(T) <= Cardinality(S) + 1
<1>1. IsFiniteSet(S \cup {x}) /\ Cardinality(S) \in Nat /\ Cardinality(S \cup {x}) \in Nat
  BY FS_AddElement, FS_CardinalityType
<1>2. Cardinality(S \cup {x}) <= Cardinality(S) + 1
  BY <1>1, FS_AddElement
<1>3. IsFiniteSet(T) /\ Cardinality(T) <= Cardinality(S \cup {x})
  BY <1>1, FS_Subset
<1>4. Cardinality(T) \in Nat
  BY <1>3, FS_CardinalityType
<1> QED BY <1>1, <1>2, <1>3, <1>4

LEMMA OneLess ==
    ASSUME NEW S, NEW T, NEW x \in S, IsFiniteSet(S), T \subseteq S \ {x}
    PROVE  /\ IsFiniteSet(T) /\ Cardinality(S) \in Nat /\ Cardinality(T) \in Nat
           /\ Cardinality(T) + 1 <= Cardinality(S)
<1>1. IsFiniteSet(S \ {x}) /\ Cardinality(S) \in Nat /\ Cardinality(S \ {x}) = Cardinality(S) - 1
  BY FS_RemoveElement, FS_CardinalityType
<1>2. IsFiniteSet(T) /\ Cardinality(T) <= Cardinality(S \ {x})
  BY <1>1, FS_Subset
<1>3. Cardinality(T) \in Nat
  BY <1>2, FS_CardinalityType
<1> QED BY <1>1, <1>2, <1>3

LEMMA NoMore ==
    ASSUME NEW S, NEW T, IsFiniteSet(S), T \subseteq S
    PROVE  /\ IsFiniteSet(T) /\ Cardinality(S) \in Nat /\ Cardinality(T) \in Nat
           /\ Cardinality(T) <= Cardinality(S)
BY FS_Subset, FS_CardinalityType

(***************************************************************************)
(* What a caller's step does to the payments of an order: it stores the    *)
(* one it was creating, or none.                                           *)
(***************************************************************************)
LEMMA PaymentsOfStep ==
    ASSUME PaymentInv, OrdersKept, NEW c \in Callers, CallerStep(c), NEW o \in Orders
    PROVE  \/ PaymentsOf(o)' = PaymentsOf(o)
           \/ /\ Creating(c) /\ job[c].order = o /\ ~Creating(c)'
              /\ PaymentsOf(o)' \subseteq PaymentsOf(o) \cup {job[c].payment}
<1>1. CASE Save(c) \/ SaveAnswerLost(c)
  <2> DEFINE j == job[c]
  <2>1. /\ pc[c] = "saving" /\ j \in Jobs /\ j # NoJob /\ JobShape(j) /\ j.payment \in Payments
        /\ SaveTransaction(j) /\ UNCHANGED job
        /\ \E a \in {"ok", "failed"} : pc' = [pc EXCEPT ![c] = a]
    BY <1>1, SavedCases
  <2>2. pc'[c] # "saving"
    BY <2>1 DEF PaymentInv, TypeOK
  <2>3. j.op # "create" => j.order = payments[j.payment].order
    BY <2>1 DEF OrdersKept
  <2> HIDE DEF j
  <2>4. /\ payments'[j.payment] = RowAfter(j)
        /\ \A p \in Payments : p # j.payment => payments'[p] = payments[p]
    BY <2>1 DEF SaveTransaction, PaymentInv, TypeOK
  <2>5. RowAfter(j).order = j.order
    BY DEF RowAfter
  <2>6. CASE j.op # "create"
    <3>1. \A p \in Payments : payments'[p].order = payments[p].order
      BY <2>3, <2>4, <2>5, <2>6
    <3> QED BY <3>1 DEF PaymentsOf
  <2>7. CASE j.op = "create" /\ j.order # o
    <3>1. ~Stored(j.payment)
      BY <2>1, <2>7 DEF PaymentInv, CreationsOK, Creating, j
    <3>2. payments[j.payment].order # o
      BY <2>1, <3>1, OwnRow
    <3> QED BY <2>4, <2>5, <2>7, <3>2 DEF PaymentsOf
  <2>8. CASE j.op = "create" /\ j.order = o
    <3>1. Creating(c) /\ ~Creating(c)' /\ job[c].order = o
      BY <2>1, <2>2, <2>8 DEF Creating, j
    <3>2. PaymentsOf(o)' \subseteq PaymentsOf(o) \cup {job[c].payment}
      BY <2>4 DEF PaymentsOf, j
    <3> QED BY <3>1, <3>2
  <2> QED BY <2>6, <2>7, <2>8
<1>2. ASSUME UNCHANGED payments PROVE PaymentsOf(o)' = PaymentsOf(o)
  BY <1>2 DEF PaymentsOf
<1>3. CASE UNCHANGED vars \/ Forget(c) \/ ProviderAccepts(c) \/ ProviderFails(c) \/ SaveFails(c)
  BY <1>2, <1>3 DEF vars, Forget, ProviderAccepts, ProviderFails, SaveFails, tables
<1>4. CASE Command(c) \/ Refuse(c)
  BY <1>2, <1>4 DEF Command, Refuse, Create, MarkPaid, MarkFailed, Refund, Decide, tables
<1> QED BY <1>1, <1>3, <1>4 DEF CallerStep, Progress

\* A creation that is running was running before, or begins with Create.
LEMMA CreatingStep ==
    ASSUME PaymentInv, NEW c \in Callers, CallerStep(c), Creating(c)'
    PROVE  \/ Creating(c) /\ job'[c] = job[c]
           \/ /\ pc[c] = "idle" /\ job[c] = NoJob
              /\ \E p \in Payments, o \in Orders :
                    Create(c, p, o) /\ job'[c].order = o
              /\ UNCHANGED payments
<1>1. pc'[c] = "saving" /\ job'[c].op = "create"
  BY DEF Creating
<1>2. pc \in [Callers -> PCs] /\ job \in [Callers -> Jobs \cup {NoJob}]
  BY DEF PaymentInv, TypeOK
<1>3. CASE UNCHANGED vars
  BY <1>1, <1>3 DEF vars, Creating
<1>4. CASE Forget(c)
  BY <1>1, <1>2, <1>4 DEF Forget
<1>5. CASE Progress(c)
  <2>1. CASE ProviderAccepts(c) \/ ProviderFails(c)
    <3>1. pc[c] = "calling" /\ job' = job
      BY <2>1, ProviderCases
    <3>2. job[c].op # "create"
      BY <3>1 DEF PaymentInv, CommandsOK
    <3> QED BY <1>1, <3>1, <3>2
  <2>2. CASE Save(c) \/ SaveAnswerLost(c) \/ SaveFails(c)
    BY <1>1, <1>2, <2>2 DEF Save, SaveAnswerLost, SaveFails
  <2> QED BY <1>5, <2>1, <2>2 DEF Progress
<1>6. CASE Deciding(c)
  <2>1. PICK j \in Jobs \cup {NoJob}, next \in {"calling", "saving", "refused"} :
          Decide(c, j, next) /\ (j = NoJob \/ j.op # "create")
    BY <1>6, DecisionCases
  <2>2. job'[c] = j
    BY <1>2, <2>1 DEF Decide
  <2> QED BY <1>1, <2>1, <2>2 DEF NoJob
<1>7. ASSUME NEW p \in Payments, NEW o \in Orders, Create(c, p, o)
      PROVE  /\ pc[c] = "idle" /\ job[c] = NoJob /\ job'[c].order = o /\ UNCHANGED payments
  <2>1. pc[c] = "idle" /\ UNCHANGED payments
    BY <1>7 DEF Create, Idle
  <2>2. job[c] = NoJob
    BY <2>1 DEF PaymentInv, CommandsOK
  <2>3. job'[c].order = o
    BY <1>2, <1>7 DEF Create
  <2> QED BY <2>1, <2>2, <2>3
<1> QED BY <1>3, <1>4, <1>5, <1>6, <1>7 DEF CallerStep, Command, Deciding

(***************************************************************************)
(* What a consumer's step does to its own handler.                         *)
(***************************************************************************)
HandlerEffect(c) ==
    \/ stage'[c] \notin {"issuing", "waiting"} /\ ~Running(c)'
    \/ stage'[c] = "issuing" /\ plan'[c].op # "create" /\ ~Running(c)'
    \/ Look(c) /\ stage'[c] = "issuing" /\ ~Running(c)'
    \/ Issue(c) /\ stage'[c] = "waiting"
    \/ CommandStep(c) /\ stage'[c] = "waiting"

LEMMA OwnStep ==
    ASSUME ConsumerTypeOK, NEW c \in Consumers, NEW st \in Stages, NEW pl \in Plans, GoTo(c, st, pl),
           \A d \in Consumers : d # c => msg'[d] = msg[d] /\ attempt'[d] = attempt[d]
    PROVE  stage'[c] = st /\ plan'[c] = pl /\ OthersKeepHandlers(c)
BY Moves DEF OthersKeepHandlers

LEMMA ErrorStep ==
    ASSUME ConsumerTypeOK, NEW c \in Consumers, ReturnError(c)
    PROVE  /\ OthersKeepHandlers(c) /\ UNCHANGED <<topic, owner>>
           /\ stage'[c] \in {"looking", "committing"}
<1>1. attempt \in [Consumers -> 1..MaxAttempts] /\ NoPlan \in Plans
  BY PlanShapes DEF ConsumerTypeOK
<1>2. CASE /\ attempt' = [attempt EXCEPT ![c] = @ + 1]
           /\ GoTo(c, "looking", NoPlan)
           /\ UNCHANGED <<msg, groupVars>>
  BY <1>1, <1>2, OwnStep DEF Stages, groupVars
<1>3. CASE /\ GoTo(c, "committing", NoPlan)
           /\ UNCHANGED <<msg, attempt, topic, offset, owner, position>>
  BY <1>1, <1>3, OwnStep DEF Stages
<1> QED BY <1>2, <1>3 DEF ReturnError

LEMMA ReturnStep ==
    ASSUME ConsumerTypeOK, NEW c \in Consumers, Return(c)
    PROVE  /\ OthersKeepHandlers(c) /\ UNCHANGED <<topic, owner>>
           /\ stage'[c] = "committing"
BY OwnStep, PlanShapes DEF Return, groupVars, Stages

LEMMA ConsumerSteps ==
    ASSUME ConsumerInv, CommandsHaveHandlers, NEW c \in Consumers, Work(c) \/ Trouble(c)
    PROVE  /\ CallerStep(c) /\ OthersKeepHandlers(c) /\ UNCHANGED <<topic, owner>>
           /\ HandlerEffect(c)
           /\ stage[c] = "fetching" => stage'[c] = "fetching" \/ owner = c
<1> DEFINE Goal == /\ CallerStep(c) /\ OthersKeepHandlers(c) /\ UNCHANGED <<topic, owner>>
                   /\ HandlerEffect(c)
                   /\ stage[c] = "fetching" => stage'[c] = "fetching" \/ owner = c
<1>1. ConsumerTypeOK /\ c \in Callers /\ pc \in [Callers -> PCs]
  BY ConsumersAssumption DEF ConsumerInv, ConsumerTypeOK, TypeOK
<1>2. NoPlan \in Plans /\ \A pl \in [op : Ops, payment : Payments] : pl \in Plans
  BY PlanShapes
<1>3. ASSUME UNCHANGED vars, stage[c] # "waiting" PROVE CallerStep(c) /\ ~Running(c)'
  BY <1>3 DEF CallerStep, CommandsHaveHandlers, Running, vars
<1>4. ASSUME pc' = [pc EXCEPT ![c] = "idle"] PROVE ~Running(c)'
  BY <1>1, <1>4 DEF Running
<1>5. CASE Fetch(c)
  <2>1. /\ stage'[c] = "looking" /\ OthersKeepHandlers(c)
    <3>1. \A d \in Consumers : d # c => msg'[d] = msg[d] /\ attempt'[d] = attempt[d]
      BY <1>1, <1>5 DEF Fetch, ConsumerTypeOK
    <3> QED BY <1>1, <1>2, <1>5, <3>1, OwnStep DEF Fetch, Stages
  <2> QED BY <1>3, <1>5, <2>1 DEF Fetch, At, HandlerEffect
<1>6. CASE Look(c)
  <2>1. CASE Return(c)
    BY <1>1, <1>3, <1>6, <2>1, ReturnStep DEF Look, At, HandlerEffect
  <2>2. CASE /\ PlanFor(Message(c)) # NoPlan
             /\ GoTo(c, "issuing", PlanFor(Message(c)))
             /\ UNCHANGED <<msg, attempt, groupVars>>
    <3>1. Message(c) \in Messages
      BY <1>6, InHand DEF ConsumerInv, HandlerOK, Look, At
    <3>2. PlanFor(Message(c)) \in Plans
      BY <3>1, PlanForFits, PlanShapes DEF ConsumerInv
    <3>3. OthersKeepHandlers(c) /\ stage'[c] = "issuing" /\ UNCHANGED <<topic, owner>>
      BY <1>1, <2>2, <3>2, OwnStep DEF Stages, groupVars
    <3> QED BY <1>3, <1>6, <3>3 DEF Look, At, HandlerEffect
  <2> QED BY <1>6, <2>1, <2>2 DEF Look
<1>7. CASE \/ DecodeFails(c) \/ LookFails(c) \/ IssueRefused(c) \/ IssueFails(c) \/ ReloadFails(c)
  <2>1. /\ UNCHANGED vars /\ stage[c] \in {"looking", "issuing", "reloading"}
        /\ ReturnError(c)
    BY <1>7 DEF DecodeFails, LookFails, IssueRefused, IssueFails, ReloadFails, At
  <2> QED BY <1>1, <1>3, <2>1, ErrorStep DEF HandlerEffect
<1>8. CASE CommandFailed(c)
  <2>1. /\ stage[c] = "waiting" /\ CallerStep(c) /\ ReturnError(c)
        /\ pc' = [pc EXCEPT ![c] = "idle"]
    BY <1>8, AnswerIsForgotten DEF CommandFailed, TakeAnswer
  <2> QED BY <1>1, <1>4, <2>1, ErrorStep DEF HandlerEffect
<1>9. CASE Issue(c)
  <2>1. stage[c] = "issuing" /\ UNCHANGED <<msg, attempt, topic, owner>>
    BY <1>9 DEF Issue, groupVars
  <2>2. /\ Message(c).order \in Orders
        /\ plan[c].op # "create" => plan[c] \in Plans /\ plan[c].payment \in Payments
    BY <1>2, <2>1, Planned DEF Busy, OnPayment
  <2>3. CASE plan[c].op = "create"
    <3>1. PICK p \in Payments : /\ Create(c, p, Message(c).order)
                                /\ GoTo(c, "waiting", [op |-> "create", payment |-> p])
      BY <1>9, <2>3 DEF Issue
    <3>2. [op |-> "create", payment |-> p] \in Plans
      BY PlanShapes DEF Ops
    <3>3. OthersKeepHandlers(c) /\ stage'[c] = "waiting"
      BY <1>1, <2>1, <3>1, <3>2, OwnStep DEF Stages
    <3> QED BY <1>9, <2>1, <2>2, <3>1, <3>3 DEF CallerStep, Command, HandlerEffect
  <2>4. CASE plan[c].op # "create"
    <3>1. GoTo(c, "waiting", plan[c])
      BY <1>9, <2>4 DEF Issue
    <3>2. Command(c)
      BY <1>9, <2>2, <2>4, ReasonAssumption DEF Issue, Command
    <3>3. OthersKeepHandlers(c) /\ stage'[c] = "waiting"
      BY <1>1, <2>1, <2>2, <2>4, <3>1, OwnStep DEF Stages
    <3> QED BY <1>9, <2>1, <3>2, <3>3 DEF CallerStep, HandlerEffect
  <2> QED BY <2>3, <2>4
<1>10. CASE CommandStep(c)
  BY <1>10 DEF CommandStep, CallerStep, Progress, OthersKeepHandlers, groupVars, handlerVars,
               HandlerEffect
<1>11. CASE CommandSucceeded(c)
  <2>1. /\ stage[c] = "waiting" /\ CallerStep(c) /\ pc' = [pc EXCEPT ![c] = "idle"]
    BY <1>11, AnswerIsForgotten DEF CommandSucceeded, TakeAnswer
  <2>2. OnPayment(c) /\ plan[c].payment \in Payments /\ plan[c] \in Plans
    BY <1>2, <2>1, Planned DEF Busy, OnPayment
  <2>3. ASSUME NEW st \in {"issuing", "reloading"}, NEW pl \in Plans, pl.op # "create",
               GoTo(c, st, pl), UNCHANGED <<msg, attempt, groupVars>>
        PROVE  Goal
    <3>1. stage'[c] = st /\ plan'[c] = pl /\ OthersKeepHandlers(c)
      BY <1>1, <2>3, OwnStep DEF Stages
    <3> QED BY <1>4, <2>1, <2>3, <3>1 DEF HandlerEffect, groupVars
  <2>4. CASE /\ plan[c].op = "create"
             /\ GoTo(c, "issuing", [op |-> "paid", payment |-> plan[c].payment])
             /\ UNCHANGED <<msg, attempt, groupVars>>
    <3>1. /\ [op |-> "paid", payment |-> plan[c].payment] \in Plans
          /\ [op |-> "paid", payment |-> plan[c].payment].op # "create"
      BY <2>2, PlanShapes DEF Ops
    <3> QED BY <2>3, <2>4, <3>1
  <2>5. CASE /\ plan[c].op = "paid" /\ GoTo(c, "reloading", plan[c])
             /\ UNCHANGED <<msg, attempt, groupVars>>
    BY <2>2, <2>3, <2>5
  <2>6. CASE Return(c)
    BY <1>1, <1>4, <2>1, <2>6, ReturnStep DEF HandlerEffect
  <2> QED BY <1>11, <2>4, <2>5, <2>6 DEF CommandSucceeded
<1>12. CASE Reload(c)
  BY <1>1, <1>3, <1>12, ReturnStep DEF Reload, At, HandlerEffect
<1>13. CASE Commit(c) \/ CommitRejected(c) \/ CommitFails(c)
  <2>1. /\ stage[c] = "committing" /\ UNCHANGED vars /\ GoTo(c, "fetching", NoPlan)
        /\ UNCHANGED <<msg, attempt, topic, owner>>
    BY <1>13 DEF Commit, CommitRejected, CommitFails, At, groupVars
  <2>2. OthersKeepHandlers(c) /\ stage'[c] = "fetching"
    BY <1>1, <1>2, <2>1, OwnStep DEF Stages
  <2> QED BY <1>3, <2>1, <2>2 DEF HandlerEffect
<1>14. CASE Restart(c) \/ Shutdown(c)
  <2>1. /\ Forget(c) /\ GoTo(c, "fetching", NoPlan) /\ UNCHANGED <<msg, attempt, topic, owner>>
    BY <1>14 DEF Restart, Shutdown, Forget
  <2>2. OthersKeepHandlers(c) /\ stage'[c] = "fetching"
    BY <1>1, <1>2, <2>1, OwnStep DEF Stages
  <2>3. ~Running(c)'
    BY <1>4, <2>1 DEF Forget
  <2> QED BY <2>1, <2>2, <2>3 DEF HandlerEffect, CallerStep
<1> QED BY <1>5, <1>6, <1>7, <1>8, <1>9, <1>10, <1>11, <1>12, <1>13, <1>14 DEF Work, Trouble

LEMMA OthersCreate ==
    ASSUME ConsumerInv, NEW c \in Callers, CallerStep(c), OthersKeepHandlers(c), topic' = topic,
           NEW o, NEW d \in Callers, d # c
    PROVE  Creates(d, o)' <=> Creates(d, o)
<1>1. job'[d] = job[d] /\ pc'[d] = pc[d]
  BY CallerStepCases DEF OthersKeepCommands, ConsumerInv
<1> QED BY <1>1 DEF Creates, Creating, Message, OthersKeepHandlers

LEMMA RequestsStay ==
    ASSUME ConsumerInv, NEW c \in Consumers, CallerStep(c), NEW op, NEW o
    PROVE  RequestsDoing(op, o)' = RequestsDoing(op, o)
<1>1. \A r \in HTTPRequests : job'[r] = job[r]
  BY ConsumersAssumption, CallerStepCases DEF OthersKeepCommands, ConsumerInv, HTTPRequests
<1> QED BY <1>1 DEF RequestsDoing

LEMMA PaymentsCountTyped ==
    ASSUME ConsumerInv, NEW o \in Orders, PaymentsCounted(o)
    PROVE  /\ handovers \in Nat /\ Cardinality(PaymentsOf(o)) \in Nat
           /\ Cardinality(Creators(o)) \in Nat
           /\ Cardinality(RequestsDoing("create", o)) \in Nat
<1>1. handovers \in Nat
  BY DEF ConsumerInv, ConsumerTypeOK
<1> QED BY <1>1, FS_CardinalityType DEF PaymentsCounted

(***************************************************************************)
(* A step that gives the order no creator: if it stores a payment, its     *)
(* caller was a creator and is none any more.                              *)
(***************************************************************************)
LEMMA CountStays ==
    ASSUME ConsumerInv, NEW c \in Callers, CallerStep(c), OthersKeepHandlers(c),
           UNCHANGED <<topic, handovers>>, NEW o \in Orders, PaymentsCounted(o),
           RequestsDoing("create", o) \subseteq RequestsDoing("create", o)',
           IsFiniteSet(RequestsDoing("create", o)'),
           Creates(c, o)' => Creates(c, o) /\ (Creating(c) => Creating(c)')
    PROVE  PaymentsCounted(o)'
<1>1. /\ handovers \in Nat /\ Cardinality(PaymentsOf(o)) \in Nat
      /\ Cardinality(Creators(o)) \in Nat
      /\ Cardinality(RequestsDoing("create", o)) \in Nat
  BY PaymentsCountTyped
<1>2. Creators(o)' \subseteq Creators(o)
  BY OthersCreate DEF Creators
<1>3. /\ Cardinality(RequestsDoing("create", o)') \in Nat
      /\ Cardinality(RequestsDoing("create", o)) <= Cardinality(RequestsDoing("create", o)')
  BY NoMore
<1>4. CASE PaymentsOf(o)' = PaymentsOf(o)
  <2>1. IsFiniteSet(Creators(o)') /\ Cardinality(Creators(o)') \in Nat
        /\ Cardinality(Creators(o)') <= Cardinality(Creators(o))
    BY <1>2, NoMore DEF PaymentsCounted
  <2> QED BY <1>1, <1>4, <1>3, <2>1 DEF PaymentsCounted
<1>5. CASE /\ Creating(c) /\ job[c].order = o /\ ~Creating(c)'
           /\ PaymentsOf(o)' \subseteq PaymentsOf(o) \cup {job[c].payment}
  <2>1. c \in Creators(o) /\ c \notin Creators(o)'
    BY <1>5 DEF Creators, Creates
  <2>2. Creators(o)' \subseteq Creators(o) \ {c}
    BY <1>2, <2>1
  <2>3. /\ IsFiniteSet(Creators(o)') /\ Cardinality(Creators(o)') \in Nat
        /\ Cardinality(Creators(o)') + 1 <= Cardinality(Creators(o))
    BY <2>1, <2>2, OneLess DEF PaymentsCounted
  <2>4. /\ IsFiniteSet(PaymentsOf(o)') /\ Cardinality(PaymentsOf(o)') \in Nat
        /\ Cardinality(PaymentsOf(o)') <= Cardinality(PaymentsOf(o)) + 1
    BY <1>5, OneMore DEF PaymentsCounted
  <2> QED BY <1>1, <1>3, <2>3, <2>4 DEF PaymentsCounted
<1> QED BY <1>4, <1>5, PaymentsOfStep DEF ConsumerInv

\* Only a caller without a command takes one up, and a request never drops its own.
LEMMA RequestsHoldOn ==
    ASSUME PaymentInv, NEW r \in Callers, Command(r) \/ Refuse(r) \/ Progress(r)
    PROVE  job'[r] = job[r] \/ job[r] = NoJob
<1>1. CASE Progress(r)
  BY <1>1 DEF Progress, ProviderAccepts, ProviderFails, Save, SaveFails, SaveAnswerLost
<1>2. CASE Command(r) \/ Refuse(r)
  <2>1. pc[r] = "idle"
    BY <1>2 DEF Command, Refuse, Create, MarkPaid, MarkFailed, Refund, Decide, Idle
  <2> QED BY <2>1 DEF PaymentInv, CommandsOK
<1> QED BY <1>1, <1>2

\* A request that begins to create is counted on both sides.
LEMMA CountKeptByRequest ==
    ASSUME ConsumerInv, NEW r \in HTTPRequests, Command(r) \/ Refuse(r) \/ Progress(r),
           UNCHANGED consumerVars, NEW o \in Orders, PaymentsCounted(o)
    PROVE  PaymentsCounted(o)'
<1> DEFINE R == RequestsDoing("create", o)
<1>1. /\ r \in Callers /\ r \notin Consumers /\ CallerStep(r)
      /\ UNCHANGED <<topic, handovers>> /\ OthersKeepHandlers(r)
  BY DEF HTTPRequests, consumerVars, groupVars, handlerVars, OthersKeepHandlers, CallerStep
<1>2. PaymentInv /\ OrdersKept /\ OthersKeepCommands(r)
  BY <1>1, CallerStepCases DEF ConsumerInv
<1>3. job'[r] = job[r] \/ job[r] = NoJob
  BY <1>1, <1>2, RequestsHoldOn
<1>4. R \subseteq R' /\ R' \subseteq R \cup {r}
  BY <1>2, <1>3 DEF RequestsDoing, OthersKeepCommands, HTTPRequests
<1>5. IsFiniteSet(R')
  BY <1>4, OneMore DEF PaymentsCounted
<1>6. CASE Creates(r, o)' => Creates(r, o) /\ (Creating(r) => Creating(r)')
  <2> HIDE DEF R
  <2> QED BY <1>1, <1>4, <1>5, <1>6, CountStays DEF R
<1>7. CASE ~(Creates(r, o)' => Creates(r, o) /\ (Creating(r) => Creating(r)'))
  <2>1. Creating(r)' /\ job'[r].order = o /\ ~(Creating(r) /\ job'[r] = job[r])
    BY <1>1, <1>7 DEF Creates, Creating
  <2>2. job[r] = NoJob /\ UNCHANGED payments
    BY <1>1, <1>2, <2>1, CreatingStep
  <2>3. r \notin R /\ r \in R'
    <3>1. job'[r].op = "create"
      BY <2>1 DEF Creating
    <3> QED BY <2>1, <2>2, <3>1 DEF RequestsDoing, NoJob
  <2>4. R' = R \cup {r}
    BY <1>4, <2>3
  <2>5. PaymentsOf(o)' = PaymentsOf(o)
    BY <2>2 DEF PaymentsOf
  <2>6. Creators(o)' \subseteq Creators(o) \cup {r}
    BY <1>1, OthersCreate DEF Creators
  <2>7. /\ IsFiniteSet(Creators(o)') /\ Cardinality(Creators(o)') \in Nat
        /\ Cardinality(Creators(o)') <= Cardinality(Creators(o)) + 1
    BY <2>6, OneMore DEF PaymentsCounted
  <2>8. Cardinality(R') = Cardinality(R) + 1
    BY <2>3, <2>4, FS_AddElement DEF PaymentsCounted
  <2>9. /\ handovers \in Nat /\ Cardinality(PaymentsOf(o)) \in Nat
        /\ Cardinality(Creators(o)) \in Nat /\ Cardinality(R) \in Nat
    BY PaymentsCountTyped
  <2> QED BY <1>1, <1>5, <2>5, <2>7, <2>8, <2>9 DEF PaymentsCounted
<1> QED BY <1>6, <1>7

(***************************************************************************)
(* A handler that plans a payment found none, and no more than the owner   *)
(* and the superseded handlers can have come that far.                     *)
(***************************************************************************)
LEMMA CountKeptByPlan ==
    ASSUME ConsumerInv, CommandsHaveHandlers, SupersededCounted, NEW c \in Consumers,
           Look(c), Same, NEW o \in Orders, PaymentsCounted(o), Creates(c, o)'
    PROVE  PaymentsCounted(o)'
<1> DEFINE R == RequestsDoing("create", o)
           N == Creators(o)' \ R
<1>1. /\ CallerStep(c) /\ OthersKeepHandlers(c) /\ UNCHANGED <<topic, owner>>
      /\ UNCHANGED <<vars, handovers>> /\ stage[c] = "looking"
      /\ c \in Callers
  BY ConsumerSteps, ConsumersAssumption DEF Work, Same, Look, At
<1>2. ConsumerTypeOK /\ PaymentInv /\ handovers \in Nat
  BY DEF ConsumerInv, ConsumerTypeOK
<1>3. PaymentsOf(o)' = {}
  <2>1. Message(c) \in Messages
    BY <1>1, InHand DEF ConsumerInv, HandlerOK
  <2>2. ~Creating(c)'
    BY <1>1 DEF Creating, CommandsHaveHandlers, Running, vars
  <2>3. stage'[c] = "issuing" /\ plan'[c].op = "create" /\ Message(c)'.order = o
    BY <2>2 DEF Creates
  <2>4. ~Return(c)
    BY <1>2, <2>3, ReturnStep
  <2>5. /\ PlanFor(Message(c)) # NoPlan /\ GoTo(c, "issuing", PlanFor(Message(c)))
        /\ UNCHANGED <<msg, attempt, groupVars>>
    BY <2>4 DEF Look
  <2>6. PlanFor(Message(c)) \in Plans
    BY <1>2, <2>1, PlanForFits, PlanShapes
  <2>7. plan'[c] = PlanFor(Message(c))
    BY <1>2, <2>5, <2>6, Moves DEF Stages
  <2>8. Message(c).order = o
    BY <2>3, <2>5 DEF Message, groupVars
  <2>9. PaymentsOf(Message(c).order) = {}
    BY <1>2, <2>1, <2>3, <2>5, <2>7, PlanForFits
  <2> QED BY <1>1, <2>8, <2>9 DEF PaymentsOf, vars
<1>4. Creators(o)' \cap HTTPRequests \subseteq R
  <2>1. ASSUME NEW r \in HTTPRequests, Creates(r, o)' PROVE r \in R
    <3>1. r \in Callers /\ r \notin Consumers
      BY DEF HTTPRequests
    <3>2. Creating(r)' /\ job'[r].order = o
      BY <2>1, <3>1 DEF Creates
    <3>3. job[r] # NoJob /\ job[r].op = "create" /\ job[r].order = o
      BY <1>1, <3>2 DEF Creating, vars, NoJob
    <3> QED BY <3>3 DEF RequestsDoing
  <2> QED BY <2>1 DEF Creators
<1>5. Creators(o)' \cap Consumers \subseteq Superseded \cup {owner}
  <2>1. ASSUME NEW d \in Consumers, Creates(d, o)' PROVE stage[d] # "fetching"
    <3>1. CASE d = c
      BY <1>1, <3>1
    <3>2. CASE d # c
      <4>1. Creates(d, o)
        BY <1>1, <2>1, <3>2, OthersCreate, ConsumersAssumption
      <4> QED BY <4>1 DEF Creates, Creating, CommandsHaveHandlers, Running
    <3> QED BY <3>1, <3>2
  <2> QED BY <2>1 DEF Creators, Superseded
<1>6. N \subseteq Superseded \cup {owner}
  BY <1>4, <1>5 DEF HTTPRequests, Creators
<1>7. /\ IsFiniteSet(N) /\ Cardinality(N) \in Nat /\ Cardinality(N) <= handovers + 1
  <2> HIDE DEF N
  <2>1. /\ IsFiniteSet(N) /\ Cardinality(Superseded) \in Nat /\ Cardinality(N) \in Nat
        /\ Cardinality(N) <= Cardinality(Superseded) + 1
    BY <1>6, OneMore DEF SupersededCounted
  <2> QED BY <1>2, <2>1 DEF SupersededCounted
<1>8. IsFiniteSet(R) /\ R' = R
  BY <1>1, RequestsStay DEF PaymentsCounted
<1>9. /\ IsFiniteSet(Creators(o)')
      /\ Cardinality(Creators(o)') \in Nat /\ Cardinality(R) \in Nat
      /\ Cardinality(Creators(o)') <= Cardinality(N) + Cardinality(R)
  <2> HIDE DEF N, R
  <2>1. Creators(o)' \subseteq N \cup R
    BY DEF N
  <2>2. IsFiniteSet(N \cup R)
    BY <1>7, <1>8, FS_Union
  <2>3. /\ Cardinality(N) \in Nat /\ Cardinality(R) \in Nat /\ Cardinality(N \cap R) \in Nat
        /\ Cardinality(N \cup R) \in Nat
        /\ Cardinality(N \cup R) = Cardinality(N) + Cardinality(R) - Cardinality(N \cap R)
    <3>1. IsFiniteSet(N \cap R)
      BY <1>7, NoMore
    <3> QED BY <1>7, <1>8, <2>2, <3>1, FS_Union, FS_CardinalityType
  <2>4. /\ IsFiniteSet(Creators(o)') /\ Cardinality(Creators(o)') \in Nat
        /\ Cardinality(Creators(o)') <= Cardinality(N \cup R)
    BY <2>1, <2>2, NoMore
  <2> QED BY <2>3, <2>4
<1>10. IsFiniteSet(PaymentsOf(o)') /\ Cardinality(PaymentsOf(o)') = 0
  BY <1>3, FS_EmptySet
<1> QED BY <1>1, <1>2, <1>7, <1>8, <1>9, <1>10 DEF PaymentsCounted

LEMMA CountsKeptByConsumer ==
    ASSUME CountsInv, NEW c \in Consumers, Work(c) \/ Trouble(c), Same
    PROVE  CommandsHaveHandlers' /\ SupersededCounted' /\ \A o \in Orders : PaymentsCounted(o)'
<1>1. /\ ConsumerInv /\ CommandsHaveHandlers /\ SupersededCounted
      /\ \A o \in Orders : PaymentsCounted(o)
  BY DEF CountsInv
<1>2. /\ CallerStep(c) /\ OthersKeepHandlers(c) /\ UNCHANGED <<topic, owner, handovers>>
      /\ HandlerEffect(c) /\ c \in Callers
      /\ stage[c] = "fetching" => stage'[c] = "fetching" \/ owner = c
  BY <1>1, ConsumerSteps, ConsumersAssumption DEF Same
<1>3. OthersKeepCommands(c)
  BY <1>1, <1>2, CallerStepCases DEF ConsumerInv
<1>4. CommandsHaveHandlers'
  <2>1. Running(c)' => stage'[c] = "waiting"
    BY <1>2 DEF HandlerEffect
  <2>2. ASSUME NEW d \in Consumers, d # c, Running(d)' PROVE stage'[d] = "waiting"
    <3>1. d \in Callers /\ Running(d)
      BY <1>3, <2>2, ConsumersAssumption DEF OthersKeepCommands, Running
    <3> QED BY <1>1, <1>2, <2>2, <3>1 DEF CommandsHaveHandlers, OthersKeepHandlers
  <2> QED BY <2>1, <2>2 DEF CommandsHaveHandlers
<1>5. SupersededCounted'
  <2>1. Superseded' \subseteq Superseded
    BY <1>2 DEF Superseded, OthersKeepHandlers
  <2>2. /\ IsFiniteSet(Superseded') /\ Cardinality(Superseded) \in Nat
        /\ Cardinality(Superseded') \in Nat /\ Cardinality(Superseded') <= Cardinality(Superseded)
    BY <1>1, <2>1, NoMore DEF SupersededCounted
  <2>3. handovers \in Nat /\ handovers' = handovers
    BY <1>1, <1>2 DEF ConsumerInv, ConsumerTypeOK
  <2> QED BY <1>1, <2>2, <2>3 DEF SupersededCounted
<1>6. ASSUME NEW o \in Orders PROVE PaymentsCounted(o)'
  <2>1. RequestsDoing("create", o)' = RequestsDoing("create", o)
    BY <1>1, <1>2, RequestsStay
  <2>2. IsFiniteSet(RequestsDoing("create", o)')
    BY <1>1, <2>1 DEF PaymentsCounted
  <2>3. ASSUME Creates(c, o)' => Creates(c, o) /\ (Creating(c) => Creating(c)')
        PROVE  PaymentsCounted(o)'
    BY <1>1, <1>2, <2>1, <2>2, <2>3, CountStays
  <2>4. ASSUME Creates(c, o)' PROVE PaymentsCounted(o)'
    <3>1. stage'[c] = "issuing" \/ Running(c)'
      BY <2>4 DEF Creates, Creating, Running
    <3>2. CASE stage'[c] = "issuing" /\ plan'[c].op # "create" /\ ~Running(c)'
      BY <2>4, <3>2 DEF Creates, Creating, Running
    <3>3. CASE Look(c)
      BY <1>1, <2>4, <3>3, CountKeptByPlan
    <3>4. CASE Issue(c) /\ stage'[c] = "waiting"
      <4>1. Creating(c)' /\ job'[c].order = o /\ ~Creating(c) /\ stage[c] = "issuing"
        BY <1>1, <2>4, <3>4
           DEF Creates, Creating, CommandsHaveHandlers, Running, Issue
      <4>2. /\ job \in [Callers -> Jobs \cup {NoJob}]
            /\ OnPayment(c) \/ plan[c].op = "create"
        BY <1>1, <4>1, Planned DEF Busy, ConsumerInv, PaymentInv, TypeOK
      <4>3. CASE plan[c].op = "create"
        <5>1. PICK p \in Payments : Create(c, p, Message(c).order)
          BY <3>4, <4>3 DEF Issue
        <5>2. job'[c].order = Message(c).order
          BY <1>2, <4>2, <5>1 DEF Create
        <5>3. Creates(c, o)
          BY <4>1, <4>3, <5>2 DEF Creates
        <5> QED BY <2>3, <4>1, <5>3
      <4>4. CASE plan[c].op # "create"
        <5>1. \E st, reason, event, next :
                 Decide(c, Loaded(plan[c].op, plan[c].payment, st, reason, event), next)
          BY <3>4, <4>4 DEF Issue, MarkPaid, MarkFailed, Refund
        <5>2. job'[c].op = plan[c].op
          BY <1>2, <4>2, <5>1 DEF Decide, Loaded
        <5> QED BY <4>1, <4>4, <5>2 DEF Creating
      <4> QED BY <4>3, <4>4
    <3>5. CASE CommandStep(c) /\ stage'[c] = "waiting"
      <4>1. Creating(c)' /\ job'[c].order = o /\ stage[c] = "waiting"
        BY <2>4, <3>5 DEF Creates, CommandStep
      <4>2. job' = job /\ pc[c] # "idle"
        BY <3>5 DEF CommandStep, ProviderAccepts, ProviderFails, Save, SaveFails, SaveAnswerLost
      <4>3. Creating(c) /\ job'[c] = job[c]
        BY <1>1, <1>2, <4>1, <4>2, CreatingStep DEF ConsumerInv
      <4> QED BY <2>3, <4>1, <4>3 DEF Creates
    <3> QED BY <1>2, <3>1, <3>2, <3>3, <3>4, <3>5 DEF HandlerEffect
  <2> QED BY <2>3, <2>4
<1> QED BY <1>4, <1>5, <1>6

\* The handler that the rebalance left behind is the only new one of its kind.
LEMMA CountsKeptByRebalance ==
    ASSUME CountsInv, NEW d \in Consumers, Rebalance(d)
    PROVE  CommandsHaveHandlers' /\ SupersededCounted' /\ \A o \in Orders : PaymentsCounted(o)'
<1>1. /\ owner' = d /\ handovers' = handovers + 1 /\ handovers \in Nat
      /\ UNCHANGED <<payments, created, outbox, captures, refunds, job, pc,
                     topic, msg, stage, plan>>
  BY DEF Rebalance, handlerVars, vars, CountsInv, ConsumerInv, ConsumerTypeOK
<1>2. CommandsHaveHandlers'
  BY <1>1 DEF CountsInv, CommandsHaveHandlers, Running
<1>3. SupersededCounted'
  <2>1. Superseded' \subseteq Superseded \cup {owner}
    BY <1>1 DEF Superseded
  <2>2. IsFiniteSet(Superseded) /\ Cardinality(Superseded) <= handovers
    BY DEF CountsInv, SupersededCounted
  <2>3. /\ IsFiniteSet(Superseded') /\ Cardinality(Superseded) \in Nat
        /\ Cardinality(Superseded') \in Nat
        /\ Cardinality(Superseded') <= Cardinality(Superseded) + 1
    BY <2>1, <2>2, OneMore
  <2> QED BY <1>1, <2>2, <2>3 DEF SupersededCounted
<1>4. ASSUME NEW o \in Orders PROVE PaymentsCounted(o)'
  <2>1. PaymentsCounted(o) /\ ConsumerInv
    BY DEF CountsInv
  <2>2. /\ PaymentsOf(o)' = PaymentsOf(o)
        /\ RequestsDoing("create", o)' = RequestsDoing("create", o)
        /\ Creators(o)' = Creators(o)
    BY <1>1 DEF PaymentsOf, RequestsDoing, Creators, Creates, Creating, Message
  <2>3. /\ Cardinality(PaymentsOf(o)) \in Nat /\ Cardinality(Creators(o)) \in Nat
        /\ Cardinality(RequestsDoing("create", o)) \in Nat
    BY <2>1, PaymentsCountTyped
  <2> QED BY <1>1, <2>1, <2>2, <2>3 DEF PaymentsCounted
<1> QED BY <1>2, <1>3, <1>4

LEMMA NextKeepsCounts == CountsInv /\ [ConsumerNext]_allVars => CountsInv'
<1> SUFFICES ASSUME CountsInv, [ConsumerNext]_allVars PROVE CountsInv'
  OBVIOUS
<1>1. ConsumerInv'
  BY NextKeepsConsumerInv DEF CountsInv
<1>2. ASSUME NEW c \in Consumers, Work(c) \/ Trouble(c), Same PROVE CountsInv'
  BY <1>1, <1>2, CountsKeptByConsumer DEF CountsInv
<1>3. ASSUME NEW c \in Consumers, Rebalance(c) PROVE CountsInv'
  BY <1>1, <1>3, CountsKeptByRebalance DEF CountsInv
<1>4. ASSUME UNCHANGED <<owner, stage, handovers>> PROVE SupersededCounted'
  BY <1>4 DEF CountsInv, SupersededCounted, Superseded
<1>5. ASSUME NEW r \in HTTPRequests, Command(r) \/ Refuse(r) \/ Progress(r),
             UNCHANGED consumerVars
      PROVE  CountsInv'
  <2>1. UNCHANGED <<owner, stage, handovers>>
    BY <1>5 DEF consumerVars, groupVars, handlerVars
  <2>2. CommandsHaveHandlers'
    <3>1. OthersKeepCommands(r)
      BY <1>5, CallerStepCases DEF CallerStep, HTTPRequests, CountsInv, ConsumerInv
    <3>2. \A c \in Consumers : pc'[c] = pc[c]
      BY <1>5, <3>1, ConsumersAssumption DEF OthersKeepCommands, HTTPRequests
    <3> QED BY <2>1, <3>2 DEF CountsInv, CommandsHaveHandlers, Running
  <2>3. \A o \in Orders : PaymentsCounted(o)'
    BY <1>5, CountKeptByRequest DEF CountsInv
  <2> QED BY <1>1, <1>4, <2>1, <2>2, <2>3 DEF CountsInv
<1>6. CASE UNCHANGED allVars
  <2>1. UNCHANGED <<payments, job, pc, topic, msg, owner, stage, plan, handovers>>
    BY <1>6 DEF allVars, vars, consumerVars, groupVars, handlerVars
  <2>2. CommandsHaveHandlers'
    BY <2>1 DEF CountsInv, CommandsHaveHandlers, Running
  <2>3. ASSUME NEW o \in Orders PROVE PaymentsCounted(o)'
    <3>1. /\ PaymentsOf(o)' = PaymentsOf(o)
          /\ RequestsDoing("create", o)' = RequestsDoing("create", o)
          /\ Creators(o)' = Creators(o)
      BY <2>1 DEF PaymentsOf, RequestsDoing, Creators, Creates, Creating, Message
    <3> QED BY <2>1, <3>1 DEF CountsInv, PaymentsCounted
  <2> QED BY <1>1, <1>4, <2>1, <2>2, <2>3 DEF CountsInv
<1> QED BY <1>2, <1>3, <1>5, <1>6 DEF ConsumerNext, Same

LEMMA InitCountsInv == ConsumerInit => CountsInv
<1> SUFFICES ASSUME ConsumerInit PROVE CountsInv
  OBVIOUS
<1>1. /\ ConsumerInv /\ handovers = 0 /\ \A c \in Consumers : stage[c] = "fetching"
      /\ \A c \in Callers : job[c] = NoJob /\ pc[c] = "idle"
      /\ \A p \in Payments : payments[p] = NoRow
  BY InitConsumerInv DEF ConsumerInit, Init
<1>2. CommandsHaveHandlers
  BY <1>1, ConsumersAssumption DEF CommandsHaveHandlers, Running
<1>3. SupersededCounted
  <2>1. Superseded = {}
    BY <1>1 DEF Superseded
  <2> QED BY <1>1, <2>1, FS_EmptySet DEF SupersededCounted
<1>4. ASSUME NEW o \in Orders PROVE PaymentsCounted(o)
  <2>1. PaymentsOf(o) = {}
    BY <1>1, NoOrderAssumption DEF PaymentsOf, NoRow
  <2>2. Creators(o) = {}
    BY <1>1 DEF Creators, Creates, Creating
  <2>3. RequestsDoing("create", o) = {}
    BY <1>1 DEF RequestsDoing, HTTPRequests
  <2> QED BY <1>1, <2>1, <2>2, <2>3, FS_EmptySet DEF PaymentsCounted
<1> QED BY <1>1, <1>2, <1>3, <1>4 DEF CountsInv

THEOREM CountsInvariant == ConsumerSpec => []CountsInv
BY InitCountsInv, NextKeepsCounts, PTL DEF ConsumerSpec

(***************************************************************************)
(* Redelivery alone never gives an order a second payment: an order has at *)
(* most one, and one more for each rebalance, whether or not it overtook a *)
(* handler, and each request that creates one, for every topic and number  *)
(* of failures.                                                            *)
(***************************************************************************)
THEOREM ExtraPaymentsAreExplained == ConsumerSpec => []ExtraPaymentsExplained
<1>1. CountsInv => ExtraPaymentsExplained
  <2> SUFFICES ASSUME CountsInv, NEW o \in Orders
               PROVE  Cardinality(PaymentsOf(o))
                        <= 1 + handovers + Cardinality(RequestsDoing("create", o))
    BY DEF ExtraPaymentsExplained
  <2>1. PaymentsCounted(o) /\ ConsumerInv
    BY DEF CountsInv
  <2> QED BY <2>1, PaymentsCountTyped DEF PaymentsCounted
<1> QED BY <1>1, CountsInvariant, PTL

----------------------------------------------------------------------------
(***************************************************************************)
(* Cancelled orders.  While nothing is abandoned, the partition stays with *)
(* its owner and no request interferes, the owner's handler is the only    *)
(* one that changes a payment: what it saw still holds when it acts, and   *)
(* an order has one payment at most.                                       *)
(***************************************************************************)
Quiet == lost = {} /\ handovers = 0 /\ \A r \in HTTPRequests : job[r] = NoJob

StatusSeen(c) == payments[plan[c].payment].status

QuietHandler(c) ==
    /\ \A o \in Orders : Creates(c, o) => PaymentsOf(o) = {}
    /\ stage[c] \in Busy /\ plan[c].op = "paid" => StatusSeen(c) \in {"pending", "paid"}
    /\ stage[c] \in Busy /\ plan[c].op = "failed" => StatusSeen(c) \in {"pending", "failed"}
    /\ stage[c] \in Busy /\ plan[c].op = "refund" => StatusSeen(c) \in {"paid", "refunded"}
    /\ stage[c] \in Busy /\ plan[c].op \in {"failed", "refund"} =>
          payments[plan[c].payment].order = Message(c).order
    /\ stage[c] \in Busy /\ Message(c).name = "OrderCancelled" => plan[c].op \in {"failed", "refund"}
    /\ stage[c] = "waiting" /\ pc[c] = "ok" =>
          /\ plan[c].op = "create" => StatusSeen(c) = "pending"
          /\ plan[c].op = "failed" => StatusSeen(c) = "failed"
          /\ plan[c].op = "refund" => StatusSeen(c) = "refunded"

Closed(o) ==
    /\ PaymentsOf(o) # {}
    /\ \A p \in PaymentsOf(o) : payments[p].status \in {"failed", "refunded"}

CancelSettled(i) ==
    topic[i].name = "OrderCancelled" /\ PlacedBefore(i) => Closed(topic[i].order)

\* CommitsOK for the cancellations, of which only the owner can have one in hand.
CancelsOK ==
    /\ \A i \in 1..(offset - 1) : CancelSettled(i)
    /\ \A i \in 1..(position[owner] - 1) :
          CancelSettled(i) \/ (stage[owner] # "fetching" /\ i = msg[owner])
    /\ stage[owner] # "fetching" => \A i \in 1..(msg[owner] - 1) : CancelSettled(i)
    /\ stage[owner] = "committing" => CancelSettled(msg[owner])

QuietInv == Quiet => QuietHandler(owner) /\ CancelsOK

LEMMA QuietFacts ==
    ASSUME CountsInv, Quiet
    PROVE  /\ \A c \in Consumers : c # owner => stage[c] = "fetching"
           /\ \A o \in Orders : \A p, q \in PaymentsOf(o) : p = q
<1>1. \A c \in Consumers : c # owner => stage[c] = "fetching"
  <2>1. IsFiniteSet(Superseded) /\ Cardinality(Superseded) <= 0
    BY DEF CountsInv, SupersededCounted, Quiet
  <2>2. Cardinality(Superseded) \in Nat
    BY <2>1, FS_CardinalityType
  <2>3. Superseded = {}
    BY <2>1, <2>2, FS_EmptySet
  <2> QED BY <2>3 DEF Superseded
<1>2. ASSUME NEW o \in Orders, NEW p \in PaymentsOf(o), NEW q \in PaymentsOf(o) PROVE p = q
  <2> DEFINE S == PaymentsOf(o)
             T == S \ {p}
  <2>1. PaymentsCounted(o) /\ ConsumerInv
    BY DEF CountsInv
  <2>2. /\ IsFiniteSet(S) /\ Cardinality(S) \in Nat /\ Cardinality(Creators(o)) \in Nat
        /\ Cardinality(S) + Cardinality(Creators(o))
             <= 1 + handovers + Cardinality(RequestsDoing("create", o))
    BY <2>1, PaymentsCountTyped DEF PaymentsCounted
  <2>3. RequestsDoing("create", o) = {} /\ handovers = 0
    BY DEF Quiet, RequestsDoing
  <2>4. Cardinality(S) <= 1
    BY <2>2, <2>3, FS_EmptySet
  <2>5. IsFiniteSet(T) /\ Cardinality(T) \in Nat /\ Cardinality(T) + 1 <= Cardinality(S)
    BY <2>2, OneLess
  <2>6. T = {}
    BY <2>2, <2>4, <2>5, FS_EmptySet
  <2> QED BY <2>6
<1> QED BY <1>1, <1>2

\* A settled cancellation stays settled while the payments stay as they are.
LEMMA CancelsUnchanged ==
    ASSUME UNCHANGED <<topic, payments>>, NEW i
    PROVE  CancelSettled(i)' <=> CancelSettled(i)
BY DEF CancelSettled, PlacedBefore, Closed, PaymentsOf

LEMMA IdleHandlerIsQuiet ==
    ASSUME NEW c \in Consumers, stage'[c] \notin Busy, ~Running(c)'
    PROVE  QuietHandler(c)'
BY DEF QuietHandler, Creates, Creating, Running, Busy

\* Steps of the owner's handler that leave the offsets alone.
LEMMA CancelsStay ==
    ASSUME ConsumerInv, CancelsOK, UNCHANGED <<topic, offset, owner, position, msg>>,
           stage[owner] # "fetching", stage'[owner] # "fetching",
           \A i \in 1..Len(topic) : CancelSettled(i) => CancelSettled(i)',
           stage'[owner] = "committing" => CancelSettled(msg[owner])'
    PROVE  CancelsOK'
<1>1. /\ \A i \in 1..(offset - 1) : i \in 1..Len(topic)
      /\ \A i \in 1..(position[owner] - 1) : i \in 1..Len(topic)
      /\ \A i \in 1..(msg[owner] - 1) : i \in 1..Len(topic)
  BY Offsets
<1> QED BY <1>1 DEF CancelsOK

LEMMA CancelsAtReturn ==
    ASSUME CountsInv, Quiet, CancelsOK, NEW c \in Consumers, stage[c] # "fetching", Return(c),
           UNCHANGED payments,
           Message(c).name = "OrderCancelled" /\ PlacedBefore(msg[c]) => Closed(Message(c).order)
    PROVE  CancelsOK'
<1>1. c = owner
  BY QuietFacts
<1>2. /\ ConsumerInv /\ UNCHANGED <<topic, offset, owner, position, msg>>
      /\ stage'[c] = "committing"
  BY ReturnStep DEF CountsInv, ConsumerInv, Return, groupVars
<1>3. CancelSettled(msg[c])
  BY DEF CancelSettled, Message
<1> QED BY <1>1, <1>2, <1>3, CancelsUnchanged, CancelsStay

LEMMA CancelsAtError ==
    ASSUME CountsInv, Quiet', CancelsOK, Quiet, NEW c \in Consumers, stage[c] # "fetching",
           ReturnError(c), UNCHANGED payments, ~Running(c)'
    PROVE  QuietHandler(owner)' /\ CancelsOK'
<1>1. c = owner
  BY QuietFacts
<1>2. lost' # lost \cup {msg[c]}
  BY DEF Quiet
<1>3. /\ ConsumerInv /\ ConsumerTypeOK /\ GoTo(c, "looking", NoPlan)
      /\ UNCHANGED <<topic, offset, owner, position, msg>>
  BY <1>2 DEF CountsInv, ConsumerInv, ReturnError, groupVars
<1>4. stage'[c] = "looking"
  BY <1>3, Moves, PlanShapes DEF Stages
<1>5. CancelsOK'
  BY <1>1, <1>3, <1>4, CancelsUnchanged, CancelsStay
<1>6. QuietHandler(c)'
  BY <1>4, IdleHandlerIsQuiet DEF Busy
<1> QED BY <1>1, <1>3, <1>5, <1>6

\* The end of a message, as in Leave: what is committed was settled.
LEMMA CancelsAtLeave ==
    ASSUME CountsInv, CancelsOK, NEW c \in Consumers, c = owner, UNCHANGED <<topic, payments, owner, msg>>,
           GoTo(c, "fetching", NoPlan), ~Running(c)',
           \/ offset' = offset
           \/ offset' = msg[c] + 1 /\ stage[c] = "committing",
           \/ stage[c] = "committing" /\ position' = position
           \/ position' = [position EXCEPT ![c] = offset']
    PROVE  QuietHandler(owner)' /\ CancelsOK'
<1>1. ConsumerInv /\ ConsumerTypeOK
  BY DEF CountsInv, ConsumerInv
<1>2. stage'[c] = "fetching"
  BY <1>1, Moves, PlanShapes DEF Stages
<1>3. QuietHandler(c)'
  BY <1>2, IdleHandlerIsQuiet DEF Busy
<1>4. \A i : CancelSettled(i)' <=> CancelSettled(i)
  BY CancelsUnchanged
<1>5. ASSUME stage[c] = "committing" PROVE \A i \in 1..(msg[c]) : CancelSettled(i)
  <2>1. msg[c] \in 1..Len(topic)
    BY <1>1, <1>5, Offsets
  <2>2. \A i \in 1..(msg[c] - 1) : CancelSettled(i)
    BY <1>5 DEF CancelsOK
  <2>3. CancelSettled(msg[c])
    BY <1>5 DEF CancelsOK
  <2> QED BY <2>1, <2>2, <2>3
<1>6. \A i \in 1..(offset' - 1) : CancelSettled(i)
  <2>1. msg[c] \in Int
    BY <1>1, Offsets
  <2> QED BY <1>5, <2>1 DEF CancelsOK
<1>7. \A i \in 1..(position'[c] - 1) : CancelSettled(i)
  <2>1. CASE stage[c] = "committing" /\ position' = position
    <3>1. msg[c] \in 1..Len(topic) /\ position[c] \in 1..(Len(topic) + 1) /\ Len(topic) \in Nat
      BY <1>1, <2>1, Offsets
    <3>2. \A i \in 1..(position[c] - 1) : CancelSettled(i) \/ i = msg[c]
      BY DEF CancelsOK
    <3> QED BY <1>5, <2>1, <3>1, <3>2
  <2>2. CASE position' = [position EXCEPT ![c] = offset']
    BY <1>1, <1>6, <2>2 DEF ConsumerTypeOK
  <2> QED BY <2>1, <2>2
<1>8. CancelsOK'
  BY <1>2, <1>4, <1>6, <1>7 DEF CancelsOK
<1> QED BY <1>3, <1>8

LEMMA PlanForStatus ==
    ASSUME PaymentInv, NEW m \in Messages
    PROVE  LET pl == PlanFor(m)
               found(op, st) == \E p \in PaymentsOf(m.order) :
                                   pl = [op |-> op, payment |-> p] /\ payments[p].status = st
           IN \/ /\ pl = NoPlan
                 /\ m.name = "OrderCancelled" /\ PaymentsOf(m.order) # {} =>
                      \E p \in PaymentsOf(m.order) : payments[p].status \in {"failed", "refunded"}
              \/ pl = [op |-> "create"] /\ m.name = "OrderPlaced" /\ PaymentsOf(m.order) = {}
              \/ m.name = "OrderPlaced" /\ found("paid", "pending")
              \/ m.name = "OrderCancelled" /\ found("refund", "paid")
              \/ m.name = "OrderCancelled" /\ found("failed", "pending")
<1> DEFINE p == Latest(m.order)
           none == PaymentsOf(m.order) = {}
<1>1. m.order \in Orders
  BY DEF Messages
<1>2. ~none => p \in PaymentsOf(m.order) /\ payments[p].status \in Statuses
  <2>1. ~none => p \in PaymentsOf(m.order)
    BY <1>1, FoundPayment
  <2> QED BY <1>1, <2>1, OwnRow DEF PaymentsOf
<1> HIDE DEF p
<1>3. CASE m.name = "OrderPlaced" /\ none
  BY <1>3 DEF PlanFor, p
<1>4. CASE m.name = "OrderPlaced" /\ ~none /\ payments[p].status = "pending"
  BY <1>2, <1>4 DEF PlanFor, p
<1>5. CASE m.name = "OrderCancelled" /\ ~none /\ payments[p].status = "paid"
  BY <1>2, <1>5 DEF PlanFor, p
<1>6. CASE m.name = "OrderCancelled" /\ ~none /\ payments[p].status = "pending"
  BY <1>2, <1>6 DEF PlanFor, p
<1>7. CASE /\ ~(m.name = "OrderPlaced" /\ (none \/ payments[p].status = "pending"))
           /\ ~(m.name = "OrderCancelled" /\ ~none /\ payments[p].status \in {"paid", "pending"})
  <2>1. PlanFor(m) = NoPlan
    BY <1>7 DEF PlanFor, p
  <2>2. m.name = "OrderCancelled" /\ ~none => payments[p].status \in {"failed", "refunded"}
    BY <1>2, <1>7 DEF Statuses
  <2> QED BY <1>2, <2>1, <2>2
<1> QED BY <1>3, <1>4, <1>5, <1>6, <1>7

LEMMA QuietAtFetch ==
    ASSUME CountsInv, CancelsOK, NEW c \in Consumers, c = owner, Fetch(c)
    PROVE  QuietHandler(owner)' /\ CancelsOK'
<1>1. /\ ConsumerInv /\ ConsumerTypeOK /\ CommandsHaveHandlers /\ stage[c] = "fetching"
      /\ UNCHANGED <<topic, payments, offset, owner, pc>>
      /\ position[c] <= Len(topic)
      /\ msg' = [msg EXCEPT ![c] = position[c]]
      /\ position' = [position EXCEPT ![c] = @ + 1]
      /\ GoTo(c, "looking", NoPlan)
  BY DEF CountsInv, ConsumerInv, Fetch, At, vars
<1>2. stage'[c] = "looking"
  BY <1>1, Moves, PlanShapes DEF Stages
<1>3. QuietHandler(c)'
  <2>1. ~Running(c)'
    BY <1>1 DEF CommandsHaveHandlers, Running
  <2> QED BY <1>2, <2>1, IdleHandlerIsQuiet DEF Busy
<1>4. /\ position[c] \in 1..Len(topic)
      /\ position'[c] = position[c] + 1 /\ msg'[c] = position[c]
  BY <1>1, Offsets DEF ConsumerTypeOK
<1>5. \A i : CancelSettled(i)' <=> CancelSettled(i)
  BY <1>1, CancelsUnchanged
<1>6. \A i \in 1..(position[c] - 1) : CancelSettled(i)
  BY <1>1 DEF CancelsOK
<1>7. CancelsOK'
  <2>1. \A i \in 1..(offset' - 1) : CancelSettled(i)'
    BY <1>1, <1>5 DEF CancelsOK
  <2>2. \A i \in 1..(position'[c] - 1) : CancelSettled(i)' \/ i = msg'[c]
    BY <1>4, <1>5, <1>6
  <2>3. \A i \in 1..(msg'[c] - 1) : CancelSettled(i)'
    BY <1>4, <1>5, <1>6
  <2> QED BY <1>1, <1>2, <2>1, <2>2, <2>3 DEF CancelsOK
<1> QED BY <1>1, <1>3, <1>7

LEMMA QuietAtLook ==
    ASSUME CountsInv, CancelsOK, Quiet, NEW c \in Consumers, c = owner, Look(c)
    PROVE  QuietHandler(owner)' /\ CancelsOK'
<1>1. /\ ConsumerInv /\ ConsumerTypeOK /\ PaymentInv /\ CommandsHaveHandlers
      /\ stage[c] = "looking" /\ UNCHANGED <<payments, pc>>
      /\ \A o : PaymentsOf(o)' = PaymentsOf(o)
  BY DEF CountsInv, ConsumerInv, Look, At, vars, PaymentsOf
<1>2. /\ Message(c) \in Messages /\ msg[c] \in 1..Len(topic) /\ Message(c).order \in Orders
  BY <1>1, InHand DEF ConsumerInv, HandlerOK
<1>3. ~Running(c) /\ ~Running(c)'
  BY <1>1 DEF CommandsHaveHandlers, Running
<1> DEFINE m == Message(c)
           pl == PlanFor(m)
           found(op, st) == \E p \in PaymentsOf(m.order) :
                               pl = [op |-> op, payment |-> p] /\ payments[p].status = st
<1>4. \/ /\ pl = NoPlan
         /\ m.name = "OrderCancelled" /\ PaymentsOf(m.order) # {} =>
              \E p \in PaymentsOf(m.order) : payments[p].status \in {"failed", "refunded"}
      \/ pl = [op |-> "create"] /\ m.name = "OrderPlaced" /\ PaymentsOf(m.order) = {}
      \/ m.name = "OrderPlaced" /\ found("paid", "pending")
      \/ m.name = "OrderCancelled" /\ found("refund", "paid")
      \/ m.name = "OrderCancelled" /\ found("failed", "pending")
  BY <1>1, <1>2, PlanForStatus
<1>5. pl \in Plans
  BY <1>1, <1>2, PlanForFits, PlanShapes
<1>6. CASE pl = NoPlan /\ Return(c)
  <2>1. UNCHANGED <<owner, topic, msg>> /\ stage'[c] = "committing"
    BY <1>1, <1>6, ReturnStep DEF Return, groupVars
  <2>2. QuietHandler(c)'
    BY <1>3, <2>1, IdleHandlerIsQuiet DEF Busy
  <2>3. ASSUME m.name = "OrderCancelled", PlacedBefore(msg[c])
        PROVE  Closed(m.order)
    <3>1. PICK k \in 1..(msg[c] - 1) : topic[k] = [name |-> "OrderPlaced", order |-> m.order]
      BY <2>3 DEF PlacedBefore, Message
    <3>2. Settled(k)
      BY <1>1, Offsets
    <3>3. PaymentsOf(m.order) # {}
      BY <3>1, <3>2 DEF Settled, Decided, Quiet
    <3>4. PICK p \in PaymentsOf(m.order) : payments[p].status \in {"failed", "refunded"}
      BY <1>4, <1>6, <2>3, <3>3, PlanShapes
    <3>5. \A q \in PaymentsOf(m.order) : q = p
      BY <1>2, <3>4, QuietFacts
    <3> QED BY <3>3, <3>4, <3>5 DEF Closed
  <2>4. CancelsOK'
    BY <1>1, <1>6, <2>3, CancelsAtReturn
  <2> QED BY <2>1, <2>2, <2>4
<1>7. CASE pl # NoPlan /\ GoTo(c, "issuing", pl) /\ UNCHANGED <<msg, attempt, groupVars>>
  <2>1. stage'[c] = "issuing" /\ plan'[c] = pl
    BY <1>1, <1>5, <1>7, Moves DEF Stages
  <2>2. UNCHANGED <<topic, offset, owner, position, msg>>
    BY <1>7 DEF groupVars
  <2>3. CancelsOK'
    BY <1>1, <2>1, <2>2, CancelsUnchanged, CancelsStay
  <2>4. Message(c)' = m
    BY <2>2 DEF Message
  <2> HIDE DEF m, pl, found
  <2>5. CASE pl = [op |-> "create"] /\ m.name = "OrderPlaced" /\ PaymentsOf(m.order) = {}
    <3>1. plan'[c].op = "create" /\ Message(c)'.name = "OrderPlaced"
      BY <2>1, <2>4, <2>5
    <3>2. \A o \in Orders : Creates(c, o)' => PaymentsOf(o)' = {}
      BY <1>1, <1>3, <2>4, <2>5 DEF Creates, Creating, Running, m
    <3> QED BY <2>1, <2>2, <2>3, <3>1, <3>2 DEF QuietHandler
  <2>6. ASSUME NEW op \in {"paid", "failed", "refund"}, NEW st \in Statuses, found(op, st),
               \/ m.name = "OrderPlaced" /\ op = "paid" /\ st = "pending"
               \/ m.name = "OrderCancelled" /\ op = "refund" /\ st = "paid"
               \/ m.name = "OrderCancelled" /\ op = "failed" /\ st = "pending"
        PROVE  QuietHandler(c)'
    <3>1. /\ plan'[c].op = op /\ StatusSeen(c)' = st
          /\ payments'[plan'[c].payment].order = m.order
      BY <1>1, <2>1, <2>6 DEF StatusSeen, PaymentsOf, found
    <3>2. \A o \in Orders : ~Creates(c, o)'
      BY <1>3, <3>1 DEF Creates, Creating, Running
    <3> QED BY <2>1, <2>4, <2>6, <3>1, <3>2 DEF QuietHandler
  <2>7. CASE m.name = "OrderPlaced" /\ found("paid", "pending")
    <3>1. QuietHandler(c)'
      BY <2>6, <2>7 DEF Statuses
    <3> QED BY <2>2, <2>3, <3>1
  <2>8. CASE m.name = "OrderCancelled" /\ found("refund", "paid")
    <3>1. QuietHandler(c)'
      BY <2>6, <2>8 DEF Statuses
    <3> QED BY <2>2, <2>3, <3>1
  <2>9. CASE m.name = "OrderCancelled" /\ found("failed", "pending")
    <3>1. QuietHandler(c)'
      BY <2>6, <2>9 DEF Statuses
    <3> QED BY <2>2, <2>3, <3>1
  <2> QED BY <1>4, <1>7, <2>5, <2>7, <2>8, <2>9
<1> QED BY <1>6, <1>7 DEF Look

LEMMA QuietAtIssue ==
    ASSUME CountsInv, CancelsOK, NEW c \in Consumers, QuietHandler(c), c = owner, Issue(c)
    PROVE  QuietHandler(owner)' /\ CancelsOK'
<1>1. /\ ConsumerInv /\ ConsumerTypeOK /\ PaymentInv /\ CommandsHaveHandlers
      /\ c \in Callers /\ stage[c] = "issuing" /\ UNCHANGED <<topic, offset, owner, position, msg>>
      /\ job \in [Callers -> Jobs \cup {NoJob}] /\ pc \in [Callers -> PCs]
  BY ConsumersAssumption DEF CountsInv, ConsumerInv, ConsumerTypeOK, TypeOK, Issue, groupVars
<1>2. ~Running(c)
  BY <1>1 DEF CommandsHaveHandlers
<1>3. Message(c)' = Message(c)
  BY <1>1 DEF Message
<1>4. plan[c].op # "create" => OnPayment(c)
  BY <1>1, Planned DEF Busy
<1>5. CASE plan[c].op = "create"
  <2>1. PICK p \in Payments : /\ Create(c, p, Message(c).order)
                              /\ GoTo(c, "waiting", [op |-> "create", payment |-> p])
    BY <1>5 DEF Issue
  <2>2. [op |-> "create", payment |-> p] \in Plans
    BY PlanShapes DEF Ops
  <2>3. stage'[c] = "waiting" /\ plan'[c].op = "create"
    BY <1>1, <2>1, <2>2, Moves DEF Stages
  <2>4. UNCHANGED payments /\ pc'[c] = "saving" /\ job'[c].order = Message(c).order
    BY <1>1, <2>1 DEF Create
  <2>5. CancelsOK'
    BY <1>1, <2>3, <2>4, CancelsUnchanged, CancelsStay
  <2>6. \A o \in Orders : Creates(c, o)' => PaymentsOf(o)' = {}
    <3>1. ASSUME NEW o \in Orders, Creates(c, o)' PROVE Creates(c, o)
      BY <1>1, <1>3, <1>5, <2>3, <2>4, <3>1 DEF Creates
    <3> QED BY <2>4, <3>1 DEF QuietHandler, PaymentsOf
  <2>7. Message(c).name # "OrderCancelled"
    BY <1>1, <1>5 DEF QuietHandler, Busy
  <2>8. QuietHandler(c)'
    BY <1>3, <2>3, <2>4, <2>6, <2>7 DEF QuietHandler
  <2> QED BY <1>1, <2>5, <2>8
<1>6. CASE plan[c].op # "create"
  <2>1. GoTo(c, "waiting", plan[c])
    BY <1>6 DEF Issue
  <2>2. stage'[c] = "waiting" /\ plan'[c] = plan[c]
    BY <1>1, <1>4, <1>6, <2>1, Moves, PlanShapes DEF Stages, OnPayment
  <2>3. \E st, reason, event, next :
           /\ Decide(c, Loaded(plan[c].op, plan[c].payment, st, reason, event), next)
           /\ next \in {"calling", "saving"}
    BY <1>6 DEF Issue, MarkPaid, MarkFailed, Refund
  <2>4. UNCHANGED payments /\ pc'[c] # "ok" /\ job'[c].op = plan[c].op
    BY <1>1, <2>3 DEF Decide, Loaded, tables
  <2>5. CancelsOK'
    BY <1>1, <2>2, <2>4, CancelsUnchanged, CancelsStay
  <2>6. \A o \in Orders : ~Creates(c, o)'
    BY <1>6, <2>2, <2>4 DEF Creates, Creating
  <2>7. QuietHandler(c)'
    BY <1>1, <1>3, <2>2, <2>4, <2>6 DEF QuietHandler, StatusSeen, Busy
  <2> QED BY <1>1, <2>5, <2>7
<1> QED BY <1>5, <1>6

(***************************************************************************)
(* The handler's own save is the only step that changes a payment: of an   *)
(* order that is closed it can only close the payment again.               *)
(***************************************************************************)
LEMMA QuietAtSave ==
    ASSUME CountsInv, CancelsOK, NEW c \in Consumers, QuietHandler(c), c = owner,
           stage[c] = "waiting", Save(c) \/ SaveAnswerLost(c),
           UNCHANGED <<groupVars, handlerVars>>
    PROVE  QuietHandler(owner)' /\ CancelsOK'
<1> DEFINE j == job[c]
           p == plan[c].payment
<1>1. /\ ConsumerInv /\ ConsumerTypeOK /\ PaymentInv /\ OrdersKept /\ c \in Callers
      /\ UNCHANGED <<topic, offset, owner, position, msg, stage, plan>>
  BY ConsumersAssumption DEF CountsInv, ConsumerInv, groupVars, handlerVars
<1>2. /\ p \in Payments /\ plan[c].op \in Ops
      /\ Message(c).order \in Orders /\ PlanFits(c)
      /\ j # NoJob /\ j.op = plan[c].op /\ j.payment = p
  BY <1>1, Planned DEF Busy, CommandFits
<1>3. /\ pc[c] = "saving" /\ JobShape(j) /\ SaveTransaction(j) /\ j \in Jobs
      /\ \E a \in {"ok", "failed"} : pc' = [pc EXCEPT ![c] = a]
      /\ UNCHANGED job
  BY <1>1, SavedCases
<1>4. pc'[c] # "saving"
  BY <1>1, <1>3 DEF PaymentInv, TypeOK
<1>5. j.op # "create" => j.order = payments[p].order
  BY <1>1, <1>2 DEF OrdersKept
<1>6. j.op = "create" => Creates(c, j.order) /\ j.order \in Orders /\ ~Stored(p)
  BY <1>1, <1>2, <1>3, Shapes DEF Creates, Creating, PaymentInv, CreationsOK
<1> HIDE DEF j, p
<1>7. /\ payments'[p] = RowAfter(j)
      /\ \A q \in Payments : q # p => payments'[q] = payments[q]
      /\ RowAfter(j).order = j.order /\ RowAfter(j).status = j.status
  BY <1>1, <1>2, <1>3 DEF SaveTransaction, PaymentInv, TypeOK, RowAfter
<1>8. StatusSeen(c)' = j.status /\ Message(c)' = Message(c)
  BY <1>1, <1>7 DEF StatusSeen, Message, p
<1>9. QuietHandler(c)'
  <2>1. \A o \in Orders : ~Creates(c, o)'
    BY <1>1, <1>4 DEF Creates, Creating
  <2>2. /\ j.op = "create" => j.status = "pending"
        /\ j.op = "paid" => j.status = "paid"
        /\ j.op = "failed" => j.status = "failed"
        /\ j.op = "refund" => j.status = "refunded"
    BY <1>3 DEF JobShape
  <2>3. plan[c].op \in {"failed", "refund"} => payments'[p].order = Message(c).order
    BY <1>1, <1>2, <1>5, <1>7 DEF QuietHandler, Busy, p
  <2> QED BY <1>1, <1>2, <1>8, <2>1, <2>2, <2>3 DEF QuietHandler, Busy, p
<1>10. ASSUME NEW o \in Orders, Closed(o) PROVE Closed(o)'
  <2>1. CASE j.op = "create"
    <3>1. j.order # o
      BY <1>6, <1>10, <2>1 DEF QuietHandler, Closed
    <3>2. payments[p].order # o
      BY <1>1, <1>2, <1>6, <2>1, OwnRow
    <3>3. \A q \in Payments : payments'[q].order = o <=> payments[q].order = o
      BY <1>7, <3>1, <3>2
    <3>4. PaymentsOf(o)' = PaymentsOf(o) /\ p \notin PaymentsOf(o)
      BY <3>2, <3>3 DEF PaymentsOf
    <3> QED BY <1>7, <1>10, <3>4 DEF Closed, PaymentsOf
  <2>2. CASE j.op # "create"
    <3>1. \A q \in Payments : payments'[q].order = payments[q].order
      BY <1>5, <1>7, <2>2
    <3>2. PaymentsOf(o)' = PaymentsOf(o)
      BY <3>1 DEF PaymentsOf
    <3>3. p \in PaymentsOf(o) => j.op # "paid"
      BY <1>1, <1>2, <1>10 DEF QuietHandler, Closed, Busy, StatusSeen, p
    <3>4. p \in PaymentsOf(o) => payments'[p].status \in {"failed", "refunded"}
      BY <1>2, <1>3, <1>7, <2>2, <3>3 DEF JobShape, Ops
    <3> QED BY <1>7, <1>10, <3>2, <3>4 DEF Closed, PaymentsOf
  <2> QED BY <2>1, <2>2
<1>11. ASSUME NEW i \in 1..Len(topic), CancelSettled(i) PROVE CancelSettled(i)'
  <2>1. topic[i].order \in Orders
    <3>1. topic \in Seq(Messages)
      BY <1>1 DEF ConsumerTypeOK
    <3>2. topic[i] \in Messages
      BY <3>1
    <3> QED BY <3>2 DEF Messages
  <2>2. PlacedBefore(i)' <=> PlacedBefore(i)
    BY <1>1 DEF PlacedBefore
  <2> QED BY <1>1, <1>10, <1>11, <2>1, <2>2 DEF CancelSettled
<1>12. CancelsOK'
  BY <1>1, <1>11, CancelsStay
<1> QED BY <1>1, <1>9, <1>12

LEMMA QuietAtCommandStep ==
    ASSUME CountsInv, CancelsOK, NEW c \in Consumers, QuietHandler(c), c = owner, CommandStep(c)
    PROVE  QuietHandler(owner)' /\ CancelsOK'
<1>1. stage[c] = "waiting" /\ UNCHANGED <<groupVars, handlerVars>>
  BY DEF CommandStep
<1>2. CASE Save(c) \/ SaveAnswerLost(c)
  BY <1>1, <1>2, QuietAtSave
<1>3. CASE ProviderAccepts(c) \/ ProviderFails(c) \/ SaveFails(c)
  <2>1. /\ ConsumerInv /\ PaymentInv /\ c \in Callers /\ CallerStep(c)
        /\ pc[c] \in {"calling", "saving"} /\ pc \in [Callers -> PCs]
        /\ UNCHANGED <<topic, offset, owner, position, msg, stage, plan, payments, job>>
    BY <1>1, <1>3, ConsumersAssumption
       DEF CountsInv, ConsumerInv, PaymentInv, TypeOK, groupVars, handlerVars, ProviderAccepts,
           ProviderFails, SaveFails, tables, CallerStep, Progress
  <2>2. pc'[c] # "ok"
    BY <1>3, <2>1 DEF ProviderAccepts, ProviderFails, SaveFails
  <2>3. Creating(c)' => Creating(c)
    BY <2>1, CreatingStep
  <2>4. ASSUME NEW o \in Orders, Creates(c, o)' PROVE PaymentsOf(o)' = {}
    BY <2>1, <2>3, <2>4 DEF Creates, PaymentsOf, QuietHandler, Message
  <2>5. QuietHandler(c)'
    BY <2>1, <2>2, <2>4 DEF QuietHandler, StatusSeen, Message
  <2>6. CancelsOK'
    BY <1>1, <2>1, CancelsUnchanged, CancelsStay
  <2> QED BY <2>1, <2>5, <2>6
<1> QED BY <1>2, <1>3 DEF CommandStep

LEMMA QuietAtSuccess ==
    ASSUME CountsInv, CancelsOK, Quiet, NEW c \in Consumers, QuietHandler(c), c = owner,
           CommandSucceeded(c)
    PROVE  QuietHandler(owner)' /\ CancelsOK'
<1>1. /\ ConsumerInv /\ ConsumerTypeOK /\ PaymentInv /\ c \in Callers
      /\ stage[c] = "waiting" /\ pc[c] = "ok" /\ UNCHANGED payments
      /\ pc' = [pc EXCEPT ![c] = "idle"] /\ pc \in [Callers -> PCs]
  BY ConsumersAssumption
     DEF CountsInv, ConsumerInv, PaymentInv, TypeOK, CommandSucceeded, TakeAnswer, tables
<1>2. ~Running(c)' /\ pc'[c] = "idle"
  BY <1>1 DEF Running
<1>3. /\ plan[c].payment \in Payments /\ plan[c].op \in Ops /\ OnPayment(c)
      /\ Message(c).order \in Orders
  BY <1>1, Planned DEF Busy
<1>4. ASSUME NEW st \in {"issuing", "reloading"}, NEW pl \in Plans, pl.op = "paid",
             pl.payment = plan[c].payment, StatusSeen(c) \in {"pending", "paid"},
             plan[c].op \in {"create", "paid"},
             GoTo(c, st, pl), UNCHANGED <<msg, attempt, groupVars>>
      PROVE  QuietHandler(owner)' /\ CancelsOK'
  <2>1. stage'[c] = st /\ plan'[c] = pl
    BY <1>1, <1>4, Moves DEF Stages
  <2>2. UNCHANGED <<topic, offset, owner, position, msg>> /\ Message(c)' = Message(c)
    BY <1>4 DEF groupVars, Message
  <2>3. Message(c).name # "OrderCancelled"
    BY <1>1, <1>4 DEF QuietHandler, Busy
  <2>4. StatusSeen(c)' \in {"pending", "paid"}
    BY <1>1, <1>4, <2>1 DEF StatusSeen
  <2>5. \A o \in Orders : ~Creates(c, o)'
    BY <1>2, <1>4, <2>1 DEF Creates, Creating
  <2>6. QuietHandler(c)'
    BY <1>2, <1>4, <2>1, <2>2, <2>3, <2>4, <2>5 DEF QuietHandler
  <2>7. CancelsOK'
    BY <1>1, <1>4, <2>1, <2>2, CancelsUnchanged, CancelsStay
  <2> QED BY <2>2, <2>6, <2>7
<1>5. CASE /\ plan[c].op = "create"
           /\ GoTo(c, "issuing", [op |-> "paid", payment |-> plan[c].payment])
           /\ UNCHANGED <<msg, attempt, groupVars>>
  <2> DEFINE pl == [op |-> "paid", payment |-> plan[c].payment]
  <2>1. pl \in Plans /\ pl.op = "paid" /\ pl.payment = plan[c].payment
    BY <1>3, PlanShapes DEF Ops
  <2>2. StatusSeen(c) = "pending"
    BY <1>1, <1>5 DEF QuietHandler
  <2>3. GoTo(c, "issuing", pl)
    BY <1>5
  <2> HIDE DEF pl
  <2> QED BY <1>4, <1>5, <2>1, <2>2, <2>3
<1>6. CASE /\ plan[c].op = "paid" /\ GoTo(c, "reloading", plan[c])
           /\ UNCHANGED <<msg, attempt, groupVars>>
  <2>1. plan[c] \in Plans
    BY <1>3, PlanShapes DEF OnPayment
  <2>2. StatusSeen(c) \in {"pending", "paid"}
    BY <1>1, <1>6 DEF QuietHandler, Busy
  <2> QED BY <1>4, <1>6, <2>1, <2>2
<1>7. CASE plan[c].op \in {"failed", "refund"} /\ Return(c)
  <2>1. /\ payments[plan[c].payment].order = Message(c).order
        /\ payments[plan[c].payment].status \in {"failed", "refunded"}
    BY <1>1, <1>7 DEF QuietHandler, StatusSeen, Busy
  <2>2. plan[c].payment \in PaymentsOf(Message(c).order)
    BY <1>3, <2>1 DEF PaymentsOf
  <2>3. \A q \in PaymentsOf(Message(c).order) : q = plan[c].payment
    BY <1>3, <2>2, QuietFacts
  <2>4. Closed(Message(c).order)
    BY <2>1, <2>2, <2>3 DEF Closed
  <2>5. CancelsOK'
    BY <1>1, <1>7, <2>4, CancelsAtReturn
  <2>6. stage'[c] = "committing" /\ owner' = owner
    BY <1>1, <1>7, ReturnStep
  <2>7. QuietHandler(c)'
    BY <1>2, <2>6, IdleHandlerIsQuiet DEF Busy
  <2> QED BY <2>5, <2>6, <2>7
<1> QED BY <1>5, <1>6, <1>7 DEF CommandSucceeded

LEMMA QuietAtReload ==
    ASSUME CountsInv, CancelsOK, Quiet, NEW c \in Consumers, QuietHandler(c), c = owner, Reload(c)
    PROVE  QuietHandler(owner)' /\ CancelsOK'
<1>1. /\ ConsumerTypeOK /\ stage[c] = "reloading" /\ Return(c) /\ UNCHANGED <<payments, pc>>
  BY DEF CountsInv, ConsumerInv, Reload, At, vars
<1>2. Message(c).name # "OrderCancelled"
  BY <1>1, Planned DEF CountsInv, PlanFits, QuietHandler, Busy
<1>3. CancelsOK'
  BY <1>1, <1>2, CancelsAtReturn
<1>4. ~Running(c)' /\ stage'[c] = "committing" /\ owner' = owner
  BY <1>1, ReturnStep DEF CountsInv, CommandsHaveHandlers, Running
<1>5. QuietHandler(c)'
  BY <1>4, IdleHandlerIsQuiet DEF Busy
<1> QED BY <1>3, <1>4, <1>5

\* What disturbs the quiet is never taken back.
LEMMA QuietBefore ==
    ASSUME ConsumerInv, CommandsHaveHandlers, NEW c \in Consumers, Work(c) \/ Trouble(c), Same,
           Quiet'
    PROVE  Quiet
<1>1. lost \subseteq lost'
  BY DEF Work, Trouble, Fetch, Look, DecodeFails, Issue, IssueRefused, CommandStep,
         CommandSucceeded, CommandFailed, Reload, Commit, CommitRejected, LookFails, IssueFails,
         ReloadFails, CommitFails, Restart, Shutdown, Return, ReturnError, groupVars
<1>2. OthersKeepCommands(c)
  BY ConsumerSteps, CallerStepCases, ConsumersAssumption DEF ConsumerInv
<1>3. \A r \in HTTPRequests : job'[r] = job[r]
  BY <1>2 DEF OthersKeepCommands, HTTPRequests
<1> QED BY <1>1, <1>3 DEF Quiet, Same

LEMMA QuietKeptByConsumer ==
    ASSUME CountsInv, QuietInv, NEW c \in Consumers, Work(c) \/ Trouble(c), Same
    PROVE  QuietInv'
<1> SUFFICES ASSUME Quiet' PROVE QuietHandler(owner)' /\ CancelsOK'
  BY DEF QuietInv
<1>1. /\ ConsumerInv /\ ConsumerTypeOK /\ PaymentInv /\ CommandsHaveHandlers /\ c \in Callers
      /\ pc \in [Callers -> PCs]
  BY ConsumersAssumption DEF CountsInv, ConsumerInv, PaymentInv, TypeOK
<1>2. Quiet /\ QuietHandler(owner) /\ CancelsOK
  BY <1>1, QuietBefore DEF QuietInv
<1>3. ASSUME pc' = [pc EXCEPT ![c] = "idle"] PROVE ~Running(c)'
  BY <1>1, <1>3 DEF Running
<1>4. ASSUME stage[c] # "waiting", UNCHANGED vars PROVE ~Running(c)'
  BY <1>1, <1>4 DEF CommandsHaveHandlers, Running, vars
<1>5. CASE c # owner
  <2>1. stage[c] = "fetching"
    BY <1>2, <1>5, QuietFacts
  <2>2. Restart(c)
    BY <1>5, <2>1
       DEF Work, Trouble, Fetch, Look, DecodeFails, Issue, IssueRefused, CommandStep,
           CommandSucceeded, CommandFailed, TakeAnswer, Reload, Commit, CommitRejected,
           LookFails, IssueFails, ReloadFails, CommitFails, Shutdown, At
  <2>3. /\ UNCHANGED <<payments, topic, offset, owner, position, msg>>
        /\ GoTo(c, "fetching", NoPlan) /\ owner \in Consumers
    BY <1>1, <1>5, <2>2 DEF Restart, tables, ConsumerTypeOK
  <2>4. stage'[owner] = stage[owner] /\ plan'[owner] = plan[owner]
    BY <1>1, <1>5, <2>3, Moves, PlanShapes DEF Stages
  <2>5. job'[owner] = job[owner] /\ pc'[owner] = pc[owner]
    BY <1>1, <1>5, <2>2, <2>3, ConsumersAssumption DEF Restart, PaymentInv, TypeOK
  <2>6. QuietHandler(owner)'
    BY <1>2, <2>3, <2>4, <2>5
       DEF QuietHandler, Creates, Creating, PaymentsOf, Message, StatusSeen
  <2>7. CancelsOK'
    BY <1>2, <2>3, <2>4, CancelsUnchanged DEF CancelsOK
  <2> QED BY <2>6, <2>7
<1>6. CASE c = owner
  <2>1. CASE Fetch(c)
    BY <1>2, <1>6, <2>1, QuietAtFetch
  <2>2. CASE Look(c)
    BY <1>2, <1>6, <2>2, QuietAtLook
  <2>3. CASE Issue(c)
    BY <1>2, <1>6, <2>3, QuietAtIssue
  <2>4. CASE CommandStep(c)
    BY <1>2, <1>6, <2>4, QuietAtCommandStep
  <2>5. CASE CommandSucceeded(c)
    BY <1>2, <1>6, <2>5, QuietAtSuccess
  <2>6. CASE Reload(c)
    BY <1>2, <1>6, <2>6, QuietAtReload
  <2>7. CASE \/ DecodeFails(c) \/ LookFails(c) \/ IssueRefused(c) \/ IssueFails(c)
             \/ ReloadFails(c)
    <3>1. /\ UNCHANGED vars /\ stage[c] \in {"looking", "issuing", "reloading"}
          /\ ReturnError(c)
      BY <2>7 DEF DecodeFails, LookFails, IssueRefused, IssueFails, ReloadFails, At
    <3> QED BY <1>2, <1>4, <3>1, CancelsAtError DEF vars
  <2>8. CASE CommandFailed(c)
    <3>1. /\ stage[c] = "waiting" /\ ReturnError(c) /\ UNCHANGED payments
          /\ pc' = [pc EXCEPT ![c] = "idle"]
      BY <2>8 DEF CommandFailed, TakeAnswer, tables
    <3> QED BY <1>2, <1>3, <3>1, CancelsAtError
  <2>9. CASE Commit(c) \/ CommitRejected(c) \/ CommitFails(c)
    <3>1. /\ stage[c] = "committing" /\ UNCHANGED vars
          /\ UNCHANGED <<topic, owner, msg, position>> /\ GoTo(c, "fetching", NoPlan)
          /\ offset' = offset \/ offset' = msg[c] + 1
      BY <2>9 DEF Commit, CommitRejected, CommitFails, At, groupVars
    <3> QED BY <1>2, <1>4, <1>6, <3>1, CancelsAtLeave DEF vars
  <2>10. CASE Restart(c) \/ Shutdown(c)
    <3>1. /\ UNCHANGED <<topic, owner, msg, payments>> /\ GoTo(c, "fetching", NoPlan)
          /\ pc' = [pc EXCEPT ![c] = "idle"]
      BY <2>10 DEF Restart, Shutdown, tables
    <3>2. lost' # lost \cup {msg[c]}
      BY <1>2 DEF Quiet
    <3>3. offset' = offset /\ position' = [position EXCEPT ![c] = offset']
      BY <1>6, <2>10, <3>2 DEF Restart, Shutdown
    <3> QED BY <1>2, <1>3, <1>6, <3>1, <3>3, CancelsAtLeave
  <2> QED BY <2>1, <2>2, <2>3, <2>4, <2>5, <2>6, <2>7, <2>8, <2>9, <2>10 DEF Work, Trouble
<1> QED BY <1>5, <1>6

LEMMA QuietUntouched ==
    ASSUME ConsumerInv, QuietInv, Quiet' => Quiet, UNCHANGED <<payments, consumerVars>>,
           job'[owner] = job[owner], pc'[owner] = pc[owner]
    PROVE  QuietInv'
<1>1. UNCHANGED <<payments, topic, offset, owner, position, msg, stage, plan>>
  BY DEF consumerVars, groupVars, handlerVars
<1>2. QuietHandler(owner) => QuietHandler(owner)'
  BY <1>1 DEF QuietHandler, Creates, Creating, PaymentsOf, Message, StatusSeen
<1>3. CancelsOK => CancelsOK'
  BY <1>1, CancelsUnchanged DEF CancelsOK
<1> QED BY <1>2, <1>3 DEF QuietInv

\* A request that does anything but refuse disturbs the quiet.
LEMMA QuietKeptByRequest ==
    ASSUME ConsumerInv, QuietInv, NEW r \in HTTPRequests, Command(r) \/ Refuse(r) \/ Progress(r),
           UNCHANGED consumerVars
    PROVE  QuietInv'
<1>1. /\ r \in Callers /\ r \notin Consumers /\ owner \in Consumers /\ owner \in Callers
      /\ PaymentInv /\ job \in [Callers -> Jobs \cup {NoJob}]
      /\ UNCHANGED <<lost, handovers>>
  BY ConsumersAssumption
     DEF HTTPRequests, ConsumerInv, ConsumerTypeOK, TypeOK, consumerVars, groupVars
<1>2. OthersKeepCommands(r)
  BY <1>1, CallerStepCases DEF CallerStep
<1>3. job'[owner] = job[owner] /\ pc'[owner] = pc[owner]
  BY <1>1, <1>2 DEF OthersKeepCommands
<1>4. CASE job'[r] = NoJob
  <2>1. job[r] = NoJob
    <3>1. CASE Progress(r)
      BY <1>4, <3>1 DEF Progress, ProviderAccepts, ProviderFails, Save, SaveFails, SaveAnswerLost
    <3>2. CASE Command(r) \/ Refuse(r)
      <4>1. pc[r] = "idle"
        BY <3>2 DEF Command, Refuse, Create, MarkPaid, MarkFailed, Refund, Decide, Idle
      <4> QED BY <1>1, <4>1 DEF PaymentInv, CommandsOK
    <3> QED BY <3>1, <3>2
  <2>2. Quiet' => Quiet
    <3>1. \A s \in HTTPRequests : s # r => job'[s] = job[s]
      BY <1>2 DEF OthersKeepCommands, HTTPRequests
    <3> QED BY <1>1, <2>1, <3>1 DEF Quiet
  <2>3. UNCHANGED payments
    <3>1. CASE Progress(r)
      <4>1. Running(r)
        BY <3>1 DEF Progress, ProviderAccepts, ProviderFails, Save, SaveFails, SaveAnswerLost,
                    Running
      <4> QED BY <1>1, <2>1, <4>1 DEF PaymentInv, CommandsOK
    <3>2. CASE Command(r) \/ Refuse(r)
      BY <3>2 DEF Command, Refuse, Create, MarkPaid, MarkFailed, Refund, Decide, tables
    <3> QED BY <3>1, <3>2
  <2> QED BY <1>3, <2>2, <2>3, QuietUntouched
<1>5. CASE job'[r] # NoJob
  BY <1>5 DEF QuietInv, Quiet
<1> QED BY <1>4, <1>5

LEMMA NextKeepsQuiet == CountsInv /\ QuietInv /\ [ConsumerNext]_allVars => QuietInv'
<1> SUFFICES ASSUME CountsInv, QuietInv, [ConsumerNext]_allVars PROVE QuietInv'
  OBVIOUS
<1>1. ConsumerInv
  BY DEF CountsInv
<1>2. ASSUME NEW c \in Consumers, Work(c) \/ Trouble(c), Same PROVE QuietInv'
  BY <1>2, QuietKeptByConsumer
<1>3. ASSUME NEW c \in Consumers, Rebalance(c) PROVE QuietInv'
  <2>1. handovers \in Nat /\ handovers' = handovers + 1
    BY <1>1, <1>3 DEF Rebalance, ConsumerInv, ConsumerTypeOK
  <2>2. ~Quiet'
    BY <2>1 DEF Quiet
  <2> QED BY <2>2 DEF QuietInv
<1>4. ASSUME NEW r \in HTTPRequests, Command(r) \/ Refuse(r) \/ Progress(r),
             UNCHANGED consumerVars
      PROVE  QuietInv'
  BY <1>1, <1>4, QuietKeptByRequest
<1>5. CASE UNCHANGED allVars
  <2>1. UNCHANGED <<payments, job, pc, lost, handovers, consumerVars>>
    BY <1>5 DEF allVars, vars, consumerVars, groupVars
  <2>2. Quiet' => Quiet
    BY <2>1 DEF Quiet
  <2> QED BY <1>1, <2>1, <2>2, QuietUntouched
<1> QED BY <1>2, <1>3, <1>4, <1>5 DEF ConsumerNext, Same

LEMMA InitQuietInv == ConsumerInit => QuietInv
<1> SUFFICES ASSUME ConsumerInit PROVE QuietHandler(owner) /\ CancelsOK
  BY DEF QuietInv
<1>1. /\ offset = 1 /\ owner \in Consumers /\ position[owner] = 1 /\ stage[owner] = "fetching"
      /\ pc[owner] = "idle"
  BY ConsumersAssumption DEF ConsumerInit, Init
<1>2. QuietHandler(owner)
  BY <1>1 DEF QuietHandler, Creates, Creating, Busy
<1>3. CancelsOK
  BY <1>1 DEF CancelsOK
<1> QED BY <1>2, <1>3

(***************************************************************************)
(* A cancelled order does not stay charged: unless something was abandoned *)
(* or a rebalance or a request interfered, a committed OrderCancelled that *)
(* followed its OrderPlaced leaves every payment of the order failed or    *)
(* refunded, whatever was retried, restarted or delivered again.           *)
(***************************************************************************)
THEOREM CancelledAreSettled == ConsumerSpec => []CancelledOrdersSettled
<1>1. ConsumerSpec => [](CountsInv /\ QuietInv)
  BY InitCountsInv, NextKeepsCounts, InitQuietInv, NextKeepsQuiet, PTL DEF ConsumerSpec
<1>2. QuietInv => CancelledOrdersSettled
  BY DEF QuietInv, Quiet, CancelsOK, CancelSettled, Closed, CancelledOrdersSettled
<1> QED BY <1>1, <1>2, PTL

----------------------------------------------------------------------------
(***************************************************************************)
(* Who asked.  A payment is created for an OrderPlaced of the topic or for *)
(* an HTTP request, and given back or failed for an OrderCancelled or a    *)
(* request.  Commands under way and commands planned have the same reason. *)
(***************************************************************************)
InTopic(name, o) == \E i \in 1..Len(topic) : topic[i] = [name |-> name, order |-> o]

PlacedAsked(o) == InTopic("OrderPlaced", o) \/ RequestsDoing("create", o) # {}

CancelAsked(o) ==
    \/ InTopic("OrderCancelled", o)
    \/ \E op \in {"failed", "refund"} : RequestsDoing(op, o) # {}

AskedFor(op, o) ==
    /\ op = "create" => PlacedAsked(o)
    /\ op \in {"failed", "refund"} => CancelAsked(o)

PaymentsAskedFor ==
    \A p \in Payments :
        /\ Stored(p) => PlacedAsked(payments[p].order)
        /\ payments[p].status \in {"failed", "refunded"} => CancelAsked(payments[p].order)

PlanAsked(c) ==
    stage[c] = "issuing" =>
        /\ AskedFor(plan[c].op, Message(c).order)
        /\ plan[c].op \in {"failed", "refund"} =>
              payments[plan[c].payment].order = Message(c).order

CommandsAskedFor ==
    \A c \in Callers : job[c] # NoJob => AskedFor(job[c].op, job[c].order)

AskedInv ==
    /\ PaymentsAskedFor
    /\ CommandsAskedFor
    /\ \A c \in Consumers : PlanAsked(c)

AskedStays ==
    \A o \in Orders : /\ PlacedAsked(o) => PlacedAsked(o)'
                      /\ CancelAsked(o) => CancelAsked(o)'

\* A step of one caller, whose new command, if any, was asked for.
LEMMA CallerKeepsAsked ==
    ASSUME ConsumerInv, AskedInv, NEW c \in Callers, CallerStep(c), AskedStays,
           \/ job'[c] \in {job[c], NoJob}
           \/ AskedFor(job[c].op, job[c].order)'
    PROVE  PaymentsAskedFor' /\ CommandsAskedFor'
<1>1. /\ PaymentInv /\ OrdersKept /\ OthersKeepCommands(c)
      /\ job \in [Callers -> Jobs \cup {NoJob}]
  BY CallerStepCases DEF ConsumerInv, PaymentInv, TypeOK
<1>2. ASSUME NEW op, NEW o \in Orders, AskedFor(op, o) PROVE AskedFor(op, o)'
  <2>1. /\ PlacedAsked(o) => PlacedAsked(o)'
        /\ CancelAsked(o) => CancelAsked(o)'
    BY DEF AskedStays
  <2> QED BY <1>2, <2>1 DEF AskedFor
<1>3. CommandsAskedFor'
  <2> SUFFICES ASSUME NEW d \in Callers, job'[d] # NoJob
               PROVE  AskedFor(job[d].op, job[d].order)'
    BY DEF CommandsAskedFor
  <2>1. CASE job'[d] = job[d]
    <3>1. job[d].op \in Ops /\ job[d].order \in Orders
      BY <1>1, <2>1, Shapes
    <3>2. PICK op \in Ops, o \in Orders : op = job[d].op /\ o = job[d].order
      BY <3>1
    <3>3. AskedFor(op, o)
      BY <2>1, <3>2 DEF AskedInv, CommandsAskedFor
    <3>4. AskedFor(op, o)'
      BY <1>2, <3>3
    <3> QED BY <2>1, <3>2, <3>4
  <2>2. CASE job'[d] # job[d]
    <3>1. d = c
      BY <1>1, <2>2 DEF OthersKeepCommands
    <3> QED BY <2>2, <3>1
  <2> QED BY <2>1, <2>2
<1>4. \A p \in Payments : Stored(p) => payments[p].order \in Orders
  BY Shapes DEF Stored, PaymentInv, ConsumerInv, TypeOK
<1> DEFINE PaymentAsked(p) ==
             /\ Stored(p) => PlacedAsked(payments[p].order)
             /\ payments[p].status \in {"failed", "refunded"} => CancelAsked(payments[p].order)
<1>5. ASSUME NEW p \in Payments, payments'[p] = payments[p]
      PROVE  PaymentAsked(p)'
  <2>1. payments[p].status \in {"failed", "refunded"} => Stored(p)
    BY Shapes DEF Stored
  <2> QED BY <1>4, <1>5, <2>1 DEF AskedInv, PaymentsAskedFor, AskedStays, Stored
<1>6. CASE Save(c) \/ SaveAnswerLost(c)
  <2>1. PICK j \in Jobs : /\ j = job[c] /\ j # NoJob /\ JobShape(j) /\ j.payment \in Payments
                          /\ SaveTransaction(j)
    BY <1>1, <1>6, SavedCases
  <2>2. PICK o \in Orders : o = j.order
    BY Shapes
  <2>3. /\ j.op \in Ops /\ AskedFor(j.op, o)
        /\ j.op # "create" => o = payments[j.payment].order /\ Stored(j.payment)
    BY <1>1, <2>1, <2>2, Shapes DEF AskedInv, CommandsAskedFor, OrdersKept, PaymentInv, LoadedStored
  <2>4. /\ payments'[j.payment] = RowAfter(j)
        /\ \A p \in Payments : p # j.payment => payments'[p] = payments[p]
    BY <2>1 DEF SaveTransaction, ConsumerInv, PaymentInv, TypeOK
  <2>5. payments'[j.payment].order = o /\ payments'[j.payment].status = j.status
    BY <2>2, <2>4 DEF RowAfter
  <2>6. PlacedAsked(o)
    BY <2>1, <2>3 DEF AskedFor, AskedInv, PaymentsAskedFor
  <2>7. j.status \in {"failed", "refunded"} => CancelAsked(o)
    BY <2>1, <2>3 DEF JobShape, Ops, AskedFor
  <2>8. PaymentAsked(j.payment)'
    BY <2>5, <2>6, <2>7 DEF AskedStays, PlacedAsked, CancelAsked, InTopic, RequestsDoing
  <2>9. PaymentsAskedFor'
    <3> SUFFICES ASSUME NEW p \in Payments PROVE PaymentAsked(p)'
      BY DEF PaymentsAskedFor
    <3> HIDE DEF PaymentAsked
    <3> QED BY <1>5, <2>4, <2>8
  <2> QED BY <1>3, <2>1, <2>9
<1>7. ASSUME UNCHANGED payments PROVE PaymentsAskedFor'
  BY <1>5, <1>7 DEF PaymentsAskedFor
<1>8. CASE UNCHANGED vars \/ Forget(c) \/ ProviderAccepts(c) \/ ProviderFails(c) \/ SaveFails(c)
  BY <1>3, <1>7, <1>8 DEF vars, Forget, ProviderAccepts, ProviderFails, SaveFails, tables
<1>9. CASE Command(c) \/ Refuse(c)
  BY <1>3, <1>7, <1>9 DEF Command, Refuse, Create, MarkPaid, MarkFailed, Refund, Decide, tables
<1> QED BY <1>6, <1>8, <1>9 DEF CallerStep, Progress

\* What was asked for stays so: the topic is there, and requests never forget.
LEMMA AskedRemains ==
    ASSUME UNCHANGED topic,
           \A r \in HTTPRequests : job[r] # NoJob => job'[r] = job[r]
    PROVE  AskedStays
<1>1. \A op, o : RequestsDoing(op, o) # {} => RequestsDoing(op, o)' # {}
  BY DEF RequestsDoing
<1> QED BY <1>1 DEF AskedStays, PlacedAsked, CancelAsked, InTopic

\* A handler plans a command when it looks, or the payment of one it created.
LEMMA PlansComeFrom ==
    ASSUME CountsInv, NEW c \in Consumers, Work(c) \/ Trouble(c), stage'[c] = "issuing"
    PROVE  Look(c) \/ plan'[c].op = "paid"
<1>1. /\ ConsumerInv /\ ConsumerTypeOK /\ NoPlan \in Plans
      /\ {"looking", "committing", "fetching", "waiting", "reloading"} \subseteq Stages
  BY PlanShapes DEF CountsInv, ConsumerInv, Stages
<1>2. ASSUME NEW st \in Stages, NEW pl \in Plans, GoTo(c, st, pl) PROVE st = "issuing" /\ plan'[c] = pl
  BY <1>1, <1>2, Moves
<1>3. ~GoTo(c, "looking", NoPlan) /\ ~GoTo(c, "committing", NoPlan) /\ ~GoTo(c, "fetching", NoPlan)
  BY <1>1, <1>2
<1>4. CASE Issue(c)
  <2>1. stage[c] = "issuing"
    BY <1>4 DEF Issue
  <2>2. /\ plan[c].op # "create" => plan[c] \in Plans
        /\ \A p \in Payments : [op |-> "create", payment |-> p] \in Plans
    BY <1>1, <2>1, Planned, PlanShapes DEF Busy, OnPayment, Ops
  <2>3. \E pl \in Plans : GoTo(c, "waiting", pl)
    BY <1>4, <2>2 DEF Issue
  <2> QED BY <1>1, <1>2, <2>3
<1>5. CASE CommandSucceeded(c)
  <2>1. stage[c] = "waiting"
    BY <1>5 DEF CommandSucceeded, TakeAnswer
  <2>2. plan[c] \in Plans /\ plan[c].payment \in Payments
    BY <1>1, <2>1, Planned, PlanShapes DEF Busy, OnPayment
  <2>3. CASE GoTo(c, "issuing", [op |-> "paid", payment |-> plan[c].payment])
    <3> DEFINE pl == [op |-> "paid", payment |-> plan[c].payment]
    <3>1. pl \in Plans /\ pl.op = "paid"
      BY <2>2, PlanShapes DEF Ops
    <3>2. plan'[c] = pl
      BY <1>1, <2>3, <3>1, Moves DEF Stages
    <3> QED BY <3>1, <3>2
  <2>4. CASE GoTo(c, "reloading", plan[c])
    BY <1>1, <1>2, <2>2, <2>4
  <2>5. CASE Return(c)
    BY <1>3, <2>5 DEF Return
  <2> QED BY <1>5, <2>3, <2>4, <2>5 DEF CommandSucceeded
<1>6. CASE CommandStep(c)
  BY <1>6 DEF CommandStep, handlerVars
<1>7. ~ReturnError(c) /\ ~Return(c)
  BY <1>3 DEF ReturnError, Return
<1>8. CASE \/ Fetch(c) \/ DecodeFails(c) \/ IssueRefused(c) \/ CommandFailed(c) \/ Reload(c)
           \/ Commit(c) \/ CommitRejected(c) \/ LookFails(c) \/ IssueFails(c) \/ ReloadFails(c)
           \/ CommitFails(c) \/ Restart(c) \/ Shutdown(c)
  BY <1>3, <1>7, <1>8
     DEF Fetch, DecodeFails, IssueRefused, CommandFailed, Reload, Commit, CommitRejected,
         LookFails, IssueFails, ReloadFails, CommitFails, Restart, Shutdown
<1> QED BY <1>4, <1>5, <1>6, <1>8 DEF Work, Trouble

\* What a handler plans, its message asks for.
LEMMA LookAsked ==
    ASSUME ConsumerInv, NEW c \in Consumers, Look(c)
    PROVE  PlanAsked(c)'
<1> SUFFICES ASSUME stage'[c] = "issuing"
             PROVE  /\ AskedFor(plan[c].op, Message(c).order)'
                    /\ plan'[c].op \in {"failed", "refund"} =>
                         payments'[plan'[c].payment].order = Message(c)'.order
  BY DEF PlanAsked
<1>1. /\ ConsumerTypeOK /\ PaymentInv /\ stage[c] = "looking" /\ UNCHANGED payments
  BY DEF ConsumerInv, Look, At, vars
<1>2. /\ Message(c) \in Messages /\ msg[c] \in 1..Len(topic)
  BY <1>1, InHand DEF ConsumerInv, HandlerOK
<1>3. UNCHANGED <<topic, msg>>
  BY DEF Look, Return, groupVars
<1>4. PICK m \in Messages : m = Message(c) /\ m = topic[msg[c]]
  BY <1>2 DEF Message
<1>5. PICK o \in Orders : o = m.order
  BY DEF Messages
<1>6. /\ m.name = "OrderPlaced" => InTopic("OrderPlaced", o)'
      /\ m.name = "OrderCancelled" => InTopic("OrderCancelled", o)'
  <2>1. m = [name |-> m.name, order |-> o]
    BY <1>5 DEF Messages
  <2> QED BY <1>2, <1>3, <1>4, <2>1 DEF InTopic
<1> DEFINE pl == PlanFor(m)
<1>7. pl \in Plans
  BY <1>1, PlanForFits, PlanShapes
<1>8. plan'[c] = pl
  <2>1. CASE Return(c)
    BY <1>1, <2>1, ReturnStep
  <2>2. CASE GoTo(c, "issuing", PlanFor(Message(c)))
    <3> HIDE DEF pl
    <3>1. GoTo(c, "issuing", pl)
      BY <1>4, <2>2 DEF pl
    <3> QED BY <1>1, <1>7, <3>1, Moves DEF Stages
  <2> QED BY <2>1, <2>2 DEF Look
<1>9. \/ pl.op = "create" /\ m.name = "OrderPlaced"
      \/ pl.op = "paid"
      \/ /\ pl.op \in {"failed", "refund"} /\ m.name = "OrderCancelled"
         /\ payments[pl.payment].order = o
      \/ pl.op = "none"
  BY <1>1, <1>5, PlanForStatus, PlanShapes DEF PaymentsOf, Ops
<1> HIDE DEF pl
<1>10. Message(c)'.order = o
  BY <1>3, <1>4, <1>5 DEF Message
<1>11. AskedFor(plan[c].op, Message(c).order)'
  BY <1>6, <1>8, <1>9, <1>10 DEF AskedFor, PlacedAsked, CancelAsked, InTopic, RequestsDoing
<1> QED BY <1>1, <1>8, <1>9, <1>10, <1>11

\* The plan of a handler that does not move: its payment keeps its order.
LEMMA PlanStaysAsked ==
    ASSUME ConsumerInv, AskedInv, NEW c \in Callers, CallerStep(c), AskedStays,
           NEW d \in Consumers,
           UNCHANGED topic, msg'[d] = msg[d], stage'[d] = stage[d], plan'[d] = plan[d]
    PROVE  PlanAsked(d)'
<1> SUFFICES ASSUME stage[d] = "issuing" PROVE PlanAsked(d)'
  BY DEF PlanAsked
<1>1. /\ PaymentInv /\ RowsAdvance
      /\ Message(d).order \in Orders /\ PlanAsked(d)
      /\ plan[d].op # "create" => plan[d].payment \in Payments
  BY CallerStepCases, PaymentStepKeeps, Planned DEF Busy, ConsumerInv, AskedInv
<1>2. PICK o \in Orders : o = Message(d).order
  BY <1>1
<1>3. Message(d)'.order = o
  BY <1>2 DEF Message
<1>4. AskedFor(plan[d].op, o)
  BY <1>1, <1>2 DEF PlanAsked
<1>5. /\ plan[d].op = "create" => PlacedAsked(o)'
      /\ plan[d].op \in {"failed", "refund"} => CancelAsked(o)'
  BY <1>4 DEF AskedFor, AskedStays
<1>6. AskedFor(plan[d].op, Message(d).order)'
  BY <1>3, <1>5 DEF AskedFor, PlacedAsked, CancelAsked, InTopic, RequestsDoing
<1>7. ASSUME plan[d].op \in {"failed", "refund"}
      PROVE  payments'[plan[d].payment].order = o
  <2>1. payments[plan[d].payment].order = o /\ plan[d].payment \in Payments
    BY <1>1, <1>2, <1>7 DEF PlanAsked
  <2> QED BY <1>1, <2>1, OwnRow DEF RowsAdvance
<1> QED BY <1>3, <1>6, <1>7 DEF PlanAsked

\* The command that is issued is the one planned, about the same order.
LEMMA IssueAsked ==
    ASSUME ConsumerInv, AskedInv, NEW c \in Consumers, Issue(c), AskedStays
    PROVE  AskedFor(job[c].op, job[c].order)'
<1>1. /\ c \in Callers /\ job \in [Callers -> Jobs \cup {NoJob}]
      /\ stage[c] = "issuing" /\ Message(c).order \in Orders
      /\ plan[c].op # "create" => plan[c].payment \in Payments
  BY Planned DEF Busy, Issue, ConsumerInv, PaymentInv, TypeOK
<1>2. PICK o \in Orders : o = Message(c).order
  BY <1>1
<1>3. /\ AskedFor(plan[c].op, o)
      /\ plan[c].op \in {"failed", "refund"} => payments[plan[c].payment].order = o
  BY <1>1, <1>2 DEF AskedInv, PlanAsked
<1>4. ASSUME NEW j, Decide(c, j, pc'[c]) \/ job' = [job EXCEPT ![c] = j] PROVE job'[c] = j
  BY <1>1, <1>4 DEF Decide
<1>5. CASE plan[c].op = "create"
  <2>1. PICK p \in Payments : Create(c, p, o)
    BY <1>2, <1>5 DEF Issue
  <2>2. job'[c].op = "create" /\ job'[c].order = o
    BY <1>1, <2>1 DEF Create
  <2>3. PlacedAsked(o)'
    BY <1>3, <1>5 DEF AskedFor, AskedStays
  <2> QED BY <2>2, <2>3 DEF AskedFor, PlacedAsked, InTopic, RequestsDoing
<1>6. CASE plan[c].op # "create"
  <2> DEFINE p == plan[c].payment
  <2>1. CASE plan[c].op = "paid" /\ MarkPaid(c, p)
    <3>1. job'[c].op = "paid"
      BY <1>1, <2>1 DEF MarkPaid, Decide, Loaded
    <3> QED BY <3>1 DEF AskedFor
  <2>2. CASE \/ plan[c].op = "failed" /\ MarkFailed(c, p, OrderCancelled)
             \/ plan[c].op = "refund" /\ Refund(c, p)
    <3>1. job'[c].op \in {"failed", "refund"} /\ job'[c].order = o
      BY <1>1, <1>3, <2>2 DEF MarkFailed, Refund, Decide, Loaded
    <3>2. CancelAsked(o)'
      BY <1>3, <2>2 DEF AskedFor, AskedStays
    <3> QED BY <3>1, <3>2 DEF AskedFor, CancelAsked, InTopic, RequestsDoing
  <2> QED BY <1>6, <2>1, <2>2 DEF Issue
<1> QED BY <1>5, <1>6

LEMMA AskedKeptByConsumer ==
    ASSUME CountsInv, AskedInv, NEW c \in Consumers, Work(c) \/ Trouble(c)
    PROVE  AskedInv'
<1>1. /\ ConsumerInv /\ c \in Callers /\ CommandsHaveHandlers
      /\ job \in [Callers -> Jobs \cup {NoJob}]
  BY ConsumersAssumption DEF CountsInv, ConsumerInv, PaymentInv, TypeOK
<1>2. CallerStep(c) /\ OthersKeepHandlers(c) /\ topic' = topic
  BY <1>1, ConsumerSteps
<1>3. OthersKeepCommands(c)
  BY <1>1, <1>2, CallerStepCases DEF ConsumerInv
<1>4. AskedStays
  <2>1. \A r \in HTTPRequests : job'[r] = job[r]
    BY <1>3 DEF OthersKeepCommands, HTTPRequests
  <2> QED BY <1>2, <2>1, AskedRemains
<1>5. Issue(c) \/ job'[c] \in {job[c], NoJob}
  <2>1. ASSUME UNCHANGED vars PROVE job'[c] = job[c]
    BY <2>1 DEF vars
  <2>2. ASSUME job' = [job EXCEPT ![c] = NoJob] PROVE job'[c] = NoJob
    BY <1>1, <2>2
  <2>3. CASE CommandStep(c)
    BY <2>3 DEF CommandStep, ProviderAccepts, Save, SaveFails, ProviderFails, SaveAnswerLost
  <2>4. CASE CommandSucceeded(c) \/ CommandFailed(c) \/ Restart(c) \/ Shutdown(c)
    BY <2>2, <2>4 DEF CommandSucceeded, CommandFailed, TakeAnswer, Restart, Shutdown
  <2>5. CASE \/ Fetch(c) \/ Look(c) \/ DecodeFails(c) \/ IssueRefused(c) \/ Reload(c)
             \/ Commit(c) \/ CommitRejected(c) \/ LookFails(c) \/ IssueFails(c)
             \/ ReloadFails(c) \/ CommitFails(c)
    BY <2>1, <2>5 DEF Fetch, Look, DecodeFails, IssueRefused, Reload, Commit, CommitRejected,
                      LookFails, IssueFails, ReloadFails, CommitFails, At
  <2> QED BY <2>3, <2>4, <2>5 DEF Work, Trouble
<1>6. PaymentsAskedFor' /\ CommandsAskedFor'
  BY <1>1, <1>2, <1>4, <1>5, IssueAsked, CallerKeepsAsked
<1>7. PlanAsked(c)'
  <2>1. CASE stage'[c] = "issuing" /\ Look(c)
    BY <1>1, <2>1, LookAsked
  <2>2. CASE stage'[c] = "issuing" /\ plan'[c].op = "paid"
    BY <2>2 DEF PlanAsked, AskedFor
  <2>3. CASE stage'[c] # "issuing"
    BY <2>3 DEF PlanAsked
  <2> QED BY <2>1, <2>2, <2>3, PlansComeFrom
<1>8. ASSUME NEW d \in Consumers, d # c PROVE PlanAsked(d)'
  BY <1>1, <1>2, <1>4, <1>8, PlanStaysAsked DEF OthersKeepHandlers
<1> QED BY <1>6, <1>7, <1>8 DEF AskedInv

LEMMA AskedKeptByRequest ==
    ASSUME ConsumerInv, AskedInv, NEW r \in HTTPRequests, Command(r) \/ Refuse(r) \/ Progress(r),
           UNCHANGED consumerVars
    PROVE  AskedInv'
<1>1. /\ r \in Callers /\ CallerStep(r) /\ UNCHANGED <<topic, msg, stage, plan>>
      /\ job \in [Callers -> Jobs \cup {NoJob}]
  BY DEF HTTPRequests, CallerStep, consumerVars, groupVars, handlerVars, ConsumerInv, PaymentInv, TypeOK
<1>2. PaymentInv /\ PaymentInv' /\ OthersKeepCommands(r)
  BY <1>1, CallerStepCases, PaymentStepKeeps DEF ConsumerInv
<1>3. job'[r] = job[r] \/ job[r] = NoJob
  BY <1>1, <1>2, RequestsHoldOn
<1>4. AskedStays
  BY <1>1, <1>2, <1>3, AskedRemains DEF OthersKeepCommands, HTTPRequests
<1>5. ASSUME job'[r] # NoJob PROVE AskedFor(job[r].op, job[r].order)'
  <2>1. r \in RequestsDoing(job[r].op, job[r].order)'
    BY <1>5 DEF RequestsDoing
  <2> QED BY <2>1 DEF AskedFor, PlacedAsked, CancelAsked, RequestsDoing
<1>6. PaymentsAskedFor' /\ CommandsAskedFor'
  <2>1. CASE job'[r] = NoJob
    BY <1>1, <1>4, <2>1, CallerKeepsAsked
  <2>2. CASE job'[r] # NoJob
    BY <1>1, <1>4, <1>5, <2>2, CallerKeepsAsked
  <2> QED BY <2>1, <2>2
<1>7. ASSUME NEW d \in Consumers PROVE PlanAsked(d)'
  BY <1>1, <1>4, <1>7, PlanStaysAsked
<1> QED BY <1>6, <1>7 DEF AskedInv

LEMMA AskedUntouched ==
    ASSUME AskedInv, UNCHANGED <<payments, job, topic, msg, stage, plan>>
    PROVE  AskedInv'
BY DEF AskedInv, PaymentsAskedFor, CommandsAskedFor, PlanAsked, AskedFor, PlacedAsked, CancelAsked,
       InTopic, RequestsDoing, Message, Stored

LEMMA NextKeepsAsked == CountsInv /\ AskedInv /\ [ConsumerNext]_allVars => AskedInv'
<1> SUFFICES ASSUME CountsInv, AskedInv, [ConsumerNext]_allVars PROVE AskedInv'
  OBVIOUS
<1>1. ASSUME NEW c \in Consumers, Work(c) \/ Trouble(c) PROVE AskedInv'
  BY <1>1, AskedKeptByConsumer
<1>2. ASSUME NEW c \in Consumers, Rebalance(c) PROVE AskedInv'
  BY <1>2, AskedUntouched DEF Rebalance, vars, handlerVars
<1>3. ASSUME NEW r \in HTTPRequests, Command(r) \/ Refuse(r) \/ Progress(r), UNCHANGED consumerVars
      PROVE  AskedInv'
  BY <1>3, AskedKeptByRequest DEF CountsInv
<1>4. CASE UNCHANGED allVars
  BY <1>4, AskedUntouched DEF allVars, vars, consumerVars, groupVars, handlerVars
<1> QED BY <1>1, <1>2, <1>3, <1>4 DEF ConsumerNext

LEMMA InitAskedInv == ConsumerInit => AskedInv
BY DEF ConsumerInit, Init, AskedInv, PaymentsAskedFor, CommandsAskedFor, PlanAsked, Stored, NoRow

(***************************************************************************)
(* A payment exists because an OrderPlaced or a request created it, and it *)
(* is failed or refunded because an OrderCancelled or a request said so:   *)
(* no redelivery, retry, restart or rebalance makes a handler act on       *)
(* another order's event.                                                  *)
(***************************************************************************)
THEOREM MoneyIsAskedFor == ConsumerSpec => []PaymentsAskedFor
<1>1. ConsumerSpec => [](CountsInv /\ AskedInv)
  BY InitCountsInv, InitAskedInv, NextKeepsCounts, NextKeepsAsked, PTL DEF ConsumerSpec
<1>2. CountsInv /\ AskedInv => PaymentsAskedFor
  BY DEF AskedInv
<1> QED BY <1>1, <1>2, PTL

----------------------------------------------------------------------------
(***************************************************************************)
(* Counting captures.  A handler that has neither captured nor returned    *)
(* may still capture once.  Of the superseded handlers each such one is    *)
(* counted by itself (Late); the owner's budget is counted by payment: a   *)
(* payment is open while it is pending or the owner is on its way to pay   *)
(* it, and not once the owner has captured it (Open).  A request that is   *)
(* calling the provider has its one capture before it (Paying).  What is   *)
(* left of the allowance, times Attempts, bounds the captures made.        *)
(***************************************************************************)
Captured(c) == stage[c] = "waiting" /\ plan[c].op = "paid" /\ pc[c] \in {"saving", "ok"}

Undecided(c) == stage[c] \in {"looking", "issuing", "waiting"} /\ ~Captured(c)

Holds(c, p) ==
    /\ stage[c] \in {"issuing", "waiting"} /\ OnPayment(c) /\ plan[c].payment = p
    /\ plan[c].op \in {"create", "paid"}

Claims(c, p) ==
    \/ payments[p].status = "pending" /\ ~(Captured(c) /\ Holds(c, p))
    \/ Holds(c, p) /\ ~Captured(c)

Late == {c \in Superseded : Undecided(c)}

Open(o) == {p \in PaymentsOf(o) : Claims(owner, p)}

Paying(o) == {r \in RequestsDoing("paid", o) : pc[r] = "calling"}

Credit(o) == Cardinality(PaymentsOf(o)) + faults - Cardinality(Late) - Cardinality(Open(o))

Allowance(o) == Credit(o) + Cardinality(RequestsDoing("paid", o)) - Cardinality(Paying(o))

ChargesCounted(o) ==
    /\ IsFiniteSet(Charges(o)) /\ IsFiniteSet(RequestsDoing("paid", o))
    /\ Cardinality(Charges(o)) <= Attempts * Allowance(o)

UnstoredUncharged == \A p \in Payments : ~Stored(p) => captures[p] = 0

ChargesInv ==
    /\ CountsInv
    /\ UnstoredUncharged
    /\ \A o \in Orders : ChargesCounted(o)

\* A part of a set grows by no more than the set does.
LEMMA PartGrows ==
    ASSUME NEW S, NEW T, IsFiniteSet(T), S \subseteq T,
           NEW A, NEW B, A \subseteq S, B \subseteq A \cup (T \ S)
    PROVE  /\ IsFiniteSet(A) /\ IsFiniteSet(B) /\ IsFiniteSet(S)
           /\ Cardinality(A) \in Nat /\ Cardinality(B) \in Nat
           /\ Cardinality(S) \in Nat /\ Cardinality(T) \in Nat
           /\ Cardinality(B) + Cardinality(S) <= Cardinality(A) + Cardinality(T)
<1>1. IsFiniteSet(S) /\ IsFiniteSet(T \ S) /\ IsFiniteSet(A)
  <2>1. IsFiniteSet(S) /\ IsFiniteSet(T \ S)
    BY FS_Subset
  <2> QED BY <2>1, FS_Subset
<1>2. /\ Cardinality(S) \in Nat /\ Cardinality(T) \in Nat /\ Cardinality(A) \in Nat
      /\ Cardinality(T \ S) \in Nat
  BY <1>1, FS_CardinalityType
<1>3. S \cap (T \ S) = {} /\ S \cup (T \ S) = T /\ A \cap (T \ S) = {}
  OBVIOUS
<1>4. Cardinality(T) = Cardinality(S) + Cardinality(T \ S)
  <2>1. Cardinality(S \cup (T \ S)) = Cardinality(S) + Cardinality(T \ S) - Cardinality(S \cap (T \ S))
    BY <1>1, FS_Union
  <2>2. Cardinality(S \cap (T \ S)) = 0
    BY <1>3, FS_EmptySet
  <2> QED BY <1>2, <1>3, <2>1, <2>2
<1>5. /\ IsFiniteSet(A \cup (T \ S))
      /\ Cardinality(A \cup (T \ S)) = Cardinality(A) + Cardinality(T \ S)
  <2>1. /\ IsFiniteSet(A \cup (T \ S))
        /\ Cardinality(A \cup (T \ S)) = Cardinality(A) + Cardinality(T \ S) - Cardinality(A \cap (T \ S))
    BY <1>1, FS_Union
  <2>2. Cardinality(A \cap (T \ S)) = 0
    BY <1>3, FS_EmptySet
  <2> QED BY <1>2, <2>1, <2>2
<1>6. /\ IsFiniteSet(B) /\ Cardinality(B) \in Nat
      /\ Cardinality(B) <= Cardinality(A \cup (T \ S))
  BY <1>5, NoMore
<1> QED BY <1>1, <1>2, <1>4, <1>5, <1>6

\* The bound is kept if what is added on the left is added on the right.
LEMMA Balanced ==
    ASSUME NEW a \in Nat, NEW x \in Nat, NEW y \in Nat, NEW b \in Int, NEW d \in Int,
           x <= a * b,
           (y <= x /\ b <= d) \/ (y <= x + a /\ b + 1 <= d)
    PROVE  y <= a * d
<1>1. \A k \in Int : k >= 0 => a * k >= 0
  OBVIOUS
<1>2. a * (d - b) >= 0 /\ a * d = a * b + a * (d - b)
  <2>1. d - b \in Int /\ d - b >= 0
    OBVIOUS
  <2>2. a * (d - b) >= 0
    BY <1>1, <2>1
  <2> QED BY <2>2
<1>3. b + 1 <= d => a * d >= a * b + a
  <2>1. ASSUME b + 1 <= d PROVE a * (d - b - 1) >= 0
    <3>1. d - b - 1 \in Int /\ d - b - 1 >= 0
      BY <2>1
    <3> QED BY <1>1, <3>1
  <2>2. a * d = a * b + a + a * (d - b - 1)
    OBVIOUS
  <2>3. a * (d - b - 1) \in Int /\ a * b \in Int /\ a * d \in Int
    OBVIOUS
  <2> QED BY <2>1, <2>2, <2>3
<1>4. a * b \in Int /\ a * d \in Int /\ a * (d - b) \in Int
  OBVIOUS
<1> QED BY <1>2, <1>3, <1>4

(***************************************************************************)
(* A caller's step that captures an order's payment: the ledger is the     *)
(* only thing the step changes besides the caller's own progress.          *)
(***************************************************************************)
Capturing(c, o) ==
    /\ ProviderAccepts(c) \/ ProviderFails(c)
    /\ pc[c] = "calling" /\ job[c].op = "paid" /\ job[c].order = o
    /\ job[c].payment \in PaymentsOf(o)

LEMMA CapturesStep ==
    ASSUME PaymentInv, NEW c \in Callers, CallerStep(c)
    PROVE  \/ captures' = captures
           \/ /\ ProviderAccepts(c) \/ ProviderFails(c)
              /\ pc[c] = "calling" /\ job[c].op = "paid" /\ job[c] # NoJob
              /\ job[c].payment \in Payments
              /\ UNCHANGED <<payments, job>>
              /\ \E n \in 0..Attempts :
                    captures' = [captures EXCEPT ![job[c].payment] = @ + n]
<1>1. CASE ProviderAccepts(c) \/ ProviderFails(c)
  <2>1. PICK n \in 0..Attempts : CarryOut(c, n)
    BY <1>1, AttemptsAssumption DEF ProviderAccepts, ProviderFails
  <2>2. /\ pc[c] = "calling" /\ UNCHANGED <<payments, job>>
        /\ job[c] # NoJob /\ job[c].payment \in Payments
    <3>1. n \in Nat
      BY AttemptsAssumption
    <3> QED BY <1>1, <2>1, <3>1, ProviderCases, LedgerGrows
  <2>3. CASE job[c].op = "paid"
    BY <1>1, <2>1, <2>2, <2>3 DEF CarryOut
  <2>4. CASE job[c].op # "paid"
    BY <2>1, <2>4 DEF CarryOut
  <2> QED BY <2>3, <2>4
<1>2. CASE UNCHANGED vars \/ Forget(c) \/ Save(c) \/ SaveAnswerLost(c) \/ SaveFails(c)
  BY <1>2 DEF vars, Forget, Save, SaveAnswerLost, SaveFails, ledger
<1>3. CASE Command(c) \/ Refuse(c)
  BY <1>3 DEF Command, Refuse, Create, MarkPaid, MarkFailed, Refund, Decide, ledger
<1> QED BY <1>1, <1>2, <1>3 DEF CallerStep, Progress

LEMMA NumbersAfter ==
    ASSUME NEW k \in Nat, NEW n \in Nat
    PROVE  IsFiniteSet((k + 1)..(k + n)) /\ Cardinality((k + 1)..(k + n)) = n
<1>1. k + 1 \in Int /\ k + n \in Int
  OBVIOUS
<1>2. /\ IsFiniteSet((k + 1)..(k + n))
      /\ Cardinality((k + 1)..(k + n)) =
           IF k + 1 > k + n THEN 0 ELSE (k + n) - (k + 1) + 1
  BY <1>1, FS_Interval
<1> QED BY <1>2

LEMMA ChargesStep ==
    ASSUME PaymentInv, OrdersKept, UnstoredUncharged, NEW c \in Callers, CallerStep(c),
           NEW o \in Orders, IsFiniteSet(Charges(o))
    PROVE  /\ IsFiniteSet(Charges(o)')
           /\ Cardinality(Charges(o)) \in Nat /\ Cardinality(Charges(o)') \in Nat
           /\ \/ Cardinality(Charges(o)') <= Cardinality(Charges(o))
              \/ /\ Capturing(c, o)
                 /\ Cardinality(Charges(o)') <= Cardinality(Charges(o)) + Attempts
<1>1. Attempts \in Nat /\ captures \in [Payments -> Nat]
  BY AttemptsAssumption DEF PaymentInv, TypeOK
<1>2. \A p \in PaymentsOf(o) : p \in Payments /\ Stored(p)
  BY OwnRow DEF PaymentsOf
<1>3. RowsAdvance
  BY CallerStepCases, PaymentStepKeeps
<1>4. PaymentsOf(o) \subseteq PaymentsOf(o)'
  BY <1>2, <1>3 DEF RowsAdvance, PaymentsOf
<1>5. ASSUME NEW p \in PaymentsOf(o)' \ PaymentsOf(o) PROVE captures[p] = 0
  <2>1. p \in Payments /\ ~Stored(p)
    BY <1>3 DEF PaymentsOf, RowsAdvance
  <2> QED BY <2>1 DEF UnstoredUncharged
<1>6. ASSUME captures' = captures \/ ~(job[c].payment \in PaymentsOf(o)),
             NEW p \in PaymentsOf(o)',
             captures'[p] = captures[p]
      PROVE  {p} \X (1..captures'[p]) \subseteq Charges(o)
  <2>1. CASE p \in PaymentsOf(o)
    BY <1>6, <2>1 DEF Charges
  <2>2. CASE p \notin PaymentsOf(o)
    <3>1. captures'[p] = 0
      BY <1>5, <1>6, <2>2
    <3>2. 1..captures'[p] = {}
      BY <3>1
    <3> QED BY <3>2
  <2> QED BY <2>1, <2>2
<1>7. ASSUME \A p \in PaymentsOf(o)' : {p} \X (1..captures'[p]) \subseteq Charges(o)
      PROVE  /\ IsFiniteSet(Charges(o)')
             /\ Cardinality(Charges(o)) \in Nat /\ Cardinality(Charges(o)') \in Nat
             /\ Cardinality(Charges(o)') <= Cardinality(Charges(o))
  <2>1. Charges(o)' \subseteq Charges(o)
    BY <1>7 DEF Charges
  <2> QED BY <2>1, NoMore
<1>8. CASE captures' = captures
  BY <1>6, <1>7, <1>8
<1>9. CASE captures' # captures
  <2>1. /\ ProviderAccepts(c) \/ ProviderFails(c)
        /\ pc[c] = "calling" /\ job[c].op = "paid" /\ job[c] # NoJob
        /\ job[c].payment \in Payments
        /\ UNCHANGED <<payments, job>>
    BY <1>9, CapturesStep
  <2>2. PICK n \in 0..Attempts : captures' = [captures EXCEPT ![job[c].payment] = @ + n]
    BY <1>9, CapturesStep
  <2> DEFINE q == job[c].payment
             New == {q} \X ((captures[q] + 1)..(captures[q] + n))
  <2>3. PaymentsOf(o)' = PaymentsOf(o)
    BY <2>1 DEF PaymentsOf
  <2>4. payments[q].order = job[c].order
    BY <2>1 DEF OrdersKept
  <2>5. \A p \in Payments : p # q => captures'[p] = captures[p]
    BY <1>1, <2>2
  <2>6. CASE q \notin PaymentsOf(o)
    <3>1. \A p \in PaymentsOf(o)' : captures'[p] = captures[p]
      BY <1>2, <2>3, <2>5, <2>6
    <3> QED BY <1>6, <1>7, <2>6, <3>1
  <2>7. CASE q \in PaymentsOf(o)
    <3>1. Capturing(c, o)
      BY <2>1, <2>4, <2>7 DEF Capturing, PaymentsOf
    <3>2. captures'[q] = captures[q] + n /\ captures[q] \in Nat /\ n \in Nat /\ n <= Attempts
      BY <1>1, <2>1, <2>2
    <3>3. IsFiniteSet(New) /\ Cardinality(New) \in Nat /\ Cardinality(New) = n
      <4> DEFINE I == (captures[q] + 1)..(captures[q] + n)
      <4>1. IsFiniteSet(I) /\ Cardinality(I) = n
        <5> HIDE DEF q
        <5> QED BY <3>2, NumbersAfter
      <4>2. IsFiniteSet({q}) /\ Cardinality({q}) = 1
        BY FS_Singleton
      <4> HIDE DEF I
      <4>3. /\ IsFiniteSet({q} \X I)
            /\ Cardinality({q} \X I) = Cardinality({q}) * Cardinality(I)
        BY <4>1, <4>2, FS_Product
      <4>4. Cardinality({q} \X I) = n
        BY <3>2, <4>1, <4>2, <4>3
      <4> QED BY <3>2, <4>3, <4>4 DEF I
    <3> HIDE DEF q
    <3>4. Charges(o)' \subseteq Charges(o) \cup New
      <4>1. ASSUME NEW p \in PaymentsOf(o)', NEW k \in 1..captures'[p]
            PROVE  <<p, k>> \in Charges(o) \cup New
        <5>1. CASE p # q
          <6>1. p \in PaymentsOf(o) /\ k \in 1..captures[p]
            BY <1>2, <2>3, <2>5, <4>1, <5>1
          <6> QED BY <6>1 DEF Charges
        <5>2. CASE p = q /\ k <= captures[q]
          <6>1. p \in PaymentsOf(o) /\ k \in 1..captures[p]
            BY <2>3, <3>2, <4>1, <5>2
          <6> QED BY <6>1 DEF Charges
        <5>3. CASE p = q /\ ~(k <= captures[q])
          <6>1. k \in (captures[q] + 1)..(captures[q] + n)
            BY <3>2, <4>1, <5>3
          <6> QED BY <5>3, <6>1
        <5> QED BY <5>1, <5>2, <5>3
      <4> HIDE DEF New
      <4> QED BY <4>1 DEF Charges
    <3> HIDE DEF New
    <3>5. /\ IsFiniteSet(Charges(o) \cup New)
          /\ Cardinality(Charges(o) \cup New) =
               Cardinality(Charges(o)) + Cardinality(New) - Cardinality(Charges(o) \cap New)
          /\ IsFiniteSet(Charges(o) \cap New)
      <4>1. IsFiniteSet(Charges(o) \cap New)
        BY NoMore
      <4> QED BY <3>3, <4>1, FS_Union
    <3>6. /\ Cardinality(Charges(o)) \in Nat /\ Cardinality(Charges(o) \cap New) \in Nat
          /\ IsFiniteSet(Charges(o)') /\ Cardinality(Charges(o)') \in Nat
          /\ Cardinality(Charges(o)') <= Cardinality(Charges(o) \cup New)
      BY <3>4, <3>5, NoMore, FS_CardinalityType
    <3> QED BY <1>1, <3>1, <3>2, <3>3, <3>5, <3>6
  <2> QED BY <2>6, <2>7
<1> QED BY <1>8, <1>9

LEMMA UnchargedStays ==
    ASSUME PaymentInv, OrdersKept, UnstoredUncharged, NEW c \in Callers, CallerStep(c)
    PROVE  UnstoredUncharged'
<1>1. RowsAdvance
  BY CallerStepCases, PaymentStepKeeps
<1>2. ASSUME NEW p \in Payments, ~Stored(p)', captures'[p] # captures[p] PROVE FALSE
  <2>1. captures \in [Payments -> Nat] /\ captures' # captures
    BY <1>2 DEF PaymentInv, TypeOK
  <2>2. /\ job[c].op = "paid" /\ job[c] # NoJob
        /\ \E n \in 0..Attempts : captures' = [captures EXCEPT ![job[c].payment] = @ + n]
    BY <2>1, CapturesStep
  <2>3. p = job[c].payment
    BY <1>2, <2>1, <2>2
  <2>4. Stored(p)
    BY <2>2, <2>3 DEF PaymentInv, LoadedStored
  <2> QED BY <1>1, <1>2, <2>4 DEF RowsAdvance
<1>3. ASSUME NEW p \in Payments, ~Stored(p)' PROVE ~Stored(p)
  BY <1>1, <1>3 DEF RowsAdvance
<1> QED BY <1>2, <1>3 DEF UnstoredUncharged

(***************************************************************************)
(* Claims.  A step that goes through gives a handler no new claim: it      *)
(* plans to pay what is pending, and a payment it captured is not pending  *)
(* when the command succeeds.  Only a failure gives a claim back.          *)
(***************************************************************************)
LEMMA EntersCommand ==
    ASSUME ConsumerInv, NEW c \in Consumers, Work(c) \/ Trouble(c),
           stage'[c] \in {"issuing", "waiting"}
    PROVE  Look(c) \/ Issue(c) \/ CommandStep(c) \/ CommandSucceeded(c)
<1>1. ConsumerTypeOK
  BY DEF ConsumerInv
<1>2. ASSUME NEW st \in {"looking", "fetching", "committing"}, GoTo(c, st, NoPlan) PROVE FALSE
  BY <1>1, <1>2, Moves, PlanShapes DEF Stages
<1>3. CASE Fetch(c)
  BY <1>2, <1>3 DEF Fetch
<1>4. CASE \/ DecodeFails(c) \/ LookFails(c) \/ IssueRefused(c) \/ IssueFails(c)
           \/ ReloadFails(c) \/ CommandFailed(c)
  <2>1. ReturnError(c)
    BY <1>4 DEF DecodeFails, LookFails, IssueRefused, IssueFails, ReloadFails, CommandFailed
  <2> QED BY <1>1, <2>1, ErrorStep
<1>5. CASE Reload(c)
  BY <1>2, <1>5 DEF Reload, Return
<1>6. CASE Commit(c) \/ CommitRejected(c) \/ CommitFails(c) \/ Restart(c) \/ Shutdown(c)
  BY <1>2, <1>6 DEF Commit, CommitRejected, CommitFails, Restart, Shutdown
<1> QED BY <1>3, <1>4, <1>5, <1>6 DEF Work, Trouble

LEMMA TroubleIsAFault ==
    ASSUME NEW c \in Consumers, Trouble(c)
    PROVE  faults' = faults + 1
BY DEF Trouble, LookFails, IssueFails, ReloadFails, CommitFails, Restart, Shutdown, Fault

LEMMA FaultsMove ==
    ASSUME NEW c \in Consumers, Work(c) \/ Trouble(c)
    PROVE  faults' = faults \/ faults' = faults + 1
<1>1. CASE Work(c)
  BY <1>1 DEF Work, Fetch, Look, DecodeFails, Issue, IssueRefused, CommandStep, Fault,
              CommandSucceeded, CommandFailed, TakeAnswer, Reload, Commit, CommitRejected
<1> QED BY <1>1, TroubleIsAFault

LEMMA UndecidedStep ==
    ASSUME ConsumerInv, NEW c \in Consumers, Work(c) \/ Trouble(c), stage[c] # "fetching",
           Undecided(c)'
    PROVE  Undecided(c) \/ faults' = faults + 1
<1>1. SUFFICES ASSUME ~Undecided(c), Work(c) PROVE faults' = faults + 1
  BY TroubleIsAFault
<1>2. ConsumerTypeOK /\ stage[c] \in Stages /\ pc \in [Callers -> PCs] /\ c \in Callers
  BY ConsumersAssumption DEF ConsumerInv, ConsumerTypeOK, PaymentInv, TypeOK
<1>3. stage[c] \in {"reloading", "committing"} \/ Captured(c)
  BY <1>1, <1>2 DEF Undecided, Stages
<1>4. ASSUME NEW st \in {"reloading", "fetching", "committing"}, NEW pl \in Plans, GoTo(c, st, pl)
      PROVE  FALSE
  <2>1. stage'[c] = st
    BY <1>2, <1>4, Moves DEF Stages
  <2> QED BY <2>1 DEF Undecided
<1>5. CASE stage[c] = "reloading"
  <2>1. Reload(c)
    BY <1>1, <1>5 DEF Work, Fetch, Look, DecodeFails, Issue, IssueRefused, CommandStep,
                      CommandSucceeded, CommandFailed, TakeAnswer, Commit, CommitRejected, At
  <2> QED BY <1>4, <2>1, PlanShapes DEF Reload, Return
<1>6. CASE stage[c] = "committing"
  <2>1. Commit(c) \/ CommitRejected(c)
    BY <1>1, <1>6 DEF Work, Fetch, Look, DecodeFails, Issue, IssueRefused, CommandStep,
                      CommandSucceeded, CommandFailed, TakeAnswer, Reload, At
  <2> QED BY <1>4, <2>1, PlanShapes DEF Commit, CommitRejected
<1>7. CASE Captured(c)
  <2>1. CommandStep(c) \/ CommandSucceeded(c) \/ CommandFailed(c)
    BY <1>1, <1>7 DEF Captured, Work, Fetch, Look, DecodeFails, Issue, IssueRefused, Reload,
                      Commit, CommitRejected, At
  <2>2. stage[c] = "waiting" /\ plan[c].op = "paid" /\ pc[c] \in {"saving", "ok"}
    BY <1>7 DEF Captured
  <2>3. CASE CommandStep(c)
    <3>1. Save(c) \/ Fault
      BY <2>2, <2>3 DEF CommandStep, Storable, ProviderAccepts
    <3>2. CASE Save(c)
      <4>1. pc'[c] = "ok" /\ stage'[c] = "waiting" /\ plan'[c] = plan[c]
        BY <1>2, <2>2, <2>3, <3>2 DEF Save, CommandStep, handlerVars
      <4> QED BY <2>2, <4>1 DEF Undecided, Captured
    <3> QED BY <3>1, <3>2 DEF Fault
  <2>4. CASE CommandSucceeded(c)
    <3>1. GoTo(c, "reloading", plan[c])
      BY <2>2, <2>4 DEF CommandSucceeded
    <3>2. plan[c] \in Plans
      BY <1>2 DEF ConsumerTypeOK
    <3> QED BY <1>4, <3>1, <3>2
  <2>5. CASE CommandFailed(c)
    BY <2>2, <2>5 DEF CommandFailed, TakeAnswer
  <2> QED BY <2>1, <2>3, <2>4, <2>5
<1> QED BY <1>3, <1>5, <1>6, <1>7

LEMMA TroubleEnds ==
    ASSUME ConsumerInv, NEW c \in Consumers, Trouble(c)
    PROVE  stage'[c] \notin {"issuing", "waiting"}
<1>1. ConsumerTypeOK
  BY DEF ConsumerInv
<1>2. CASE ReturnError(c)
  BY <1>1, <1>2, ErrorStep
<1>3. CASE GoTo(c, "fetching", NoPlan)
  BY <1>1, <1>3, Moves, PlanShapes DEF Stages
<1> QED BY <1>2, <1>3 DEF Trouble, LookFails, IssueFails, ReloadFails, CommitFails, Restart, Shutdown

LEMMA PaidWhatIsPending ==
    ASSUME PaymentInv, NEW m \in Messages, PlanFor(m) \in [op : Ops, payment : Payments],
           PlanFor(m).op = "paid"
    PROVE  payments[PlanFor(m).payment].status = "pending"
<1>1. \/ PlanFor(m) = [op |-> "create"]
      \/ \E op \in {"refund", "failed"}, p \in PaymentsOf(m.order) :
            PlanFor(m) = [op |-> op, payment |-> p]
      \/ \E p \in PaymentsOf(m.order) :
            PlanFor(m) = [op |-> "paid", payment |-> p] /\ payments[p].status = "pending"
  BY PlanForStatus, PlanShapes
<1>2. \A op \in {"refund", "failed"}, p \in PaymentsOf(m.order) :
         PlanFor(m) # [op |-> op, payment |-> p]
  BY PlanShapes DEF Ops, PaymentsOf
<1> QED BY <1>1, <1>2, PlanShapes

LEMMA ClaimsStep ==
    ASSUME ConsumerInv, NEW c \in Consumers, Work(c) \/ Trouble(c), RowsAdvance,
           NEW p \in Payments, Stored(p), Claims(c, p)'
    PROVE  Claims(c, p) \/ (faults' = faults + 1 /\ p = plan[c].payment)
<1>1. /\ ConsumerTypeOK /\ PaymentInv /\ stage[c] \in Stages /\ c \in Callers
      /\ pc \in [Callers -> PCs] /\ job \in [Callers -> Jobs \cup {NoJob}]
  BY ConsumersAssumption DEF ConsumerInv, ConsumerTypeOK, PaymentInv, TypeOK
<1>2. payments'[p].status = "pending" => payments[p].status = "pending"
  BY DEF RowsAdvance
<1>3. CASE Trouble(c)
  <2>1. stage'[c] \notin {"issuing", "waiting"}
    BY <1>3, TroubleEnds
  <2>2. payments'[p].status = "pending"
    BY <2>1 DEF Claims, Holds
  <2> QED BY <1>2, <1>3, <2>2, TroubleIsAFault DEF Claims, Holds
<1>4. ASSUME Work(c), stage'[c] \notin {"issuing", "waiting"}, ~Claims(c, p) PROVE FALSE
  <2>1. payments[p].status = "pending"
    BY <1>2, <1>4 DEF Claims, Holds
  <2>2. Captured(c) /\ Holds(c, p)
    BY <1>4, <2>1 DEF Claims
  <2>3. /\ stage[c] = "waiting" /\ plan[c].op = "paid" /\ pc[c] \in {"saving", "ok"}
        /\ plan[c].payment = p
    BY <2>2 DEF Captured, Holds
  <2>4. CommandSucceeded(c) \/ CommandStep(c)
    BY <1>4, <2>3 DEF Work, Fetch, Look, DecodeFails, Issue, IssueRefused, Reload,
                      Commit, CommitRejected, At, CommandFailed, TakeAnswer
  <2>5. CASE CommandStep(c)
    BY <1>4, <2>3, <2>5 DEF CommandStep, handlerVars
  <2>6. CASE CommandSucceeded(c)
    <3>1. pc[c] = "ok"
      BY <2>6 DEF CommandSucceeded, TakeAnswer
    <3>2. CommandFits(c)
      BY DEF ConsumerInv, HandlerOK
    <3> QED BY <2>1, <2>3, <3>1, <3>2 DEF CommandFits
  <2> QED BY <2>4, <2>5, <2>6
<1>5. CASE Look(c) /\ stage'[c] \in {"issuing", "waiting"}
  <2>1. stage[c] = "looking" /\ UNCHANGED payments
    BY <1>5 DEF Look, At, vars
  <2>2. payments[p].status = "pending" => Claims(c, p)
    BY <2>1 DEF Claims, Captured
  <2>3. ASSUME Holds(c, p)' PROVE payments[p].status = "pending"
    <3>1. Message(c) \in Messages
      BY <2>1, InHand DEF ConsumerInv, HandlerOK
    <3>2. ~Return(c)
      BY <1>1, <1>5, ReturnStep
    <3>3. GoTo(c, "issuing", PlanFor(Message(c)))
      BY <1>5, <3>2 DEF Look
    <3>4. PlanFor(Message(c)) \in Plans
      BY <1>1, <3>1, PlanForFits, PlanShapes
    <3>5. plan'[c] = PlanFor(Message(c))
      BY <1>1, <3>3, <3>4, Moves DEF Stages
    <3>6. /\ PlanFor(Message(c)) \in [op : Ops, payment : Payments]
          /\ PlanFor(Message(c)).payment = p /\ PlanFor(Message(c)).op \in {"create", "paid"}
      BY <2>3, <3>5 DEF Holds, OnPayment
    <3>7. PlanFor(Message(c)).op = "paid"
      BY <1>1, <3>1, <3>6, PlanForFits, PlanShapes
    <3> QED BY <1>1, <3>1, <3>6, <3>7, PaidWhatIsPending
  <2> QED BY <1>2, <2>2, <2>3 DEF Claims
<1>6. CASE Issue(c)
  <2>1. stage[c] = "issuing" /\ ~Captured(c)
    BY <1>6 DEF Issue, Captured
  <2>2. UNCHANGED payments
    BY <1>6 DEF Issue, Create, MarkPaid, MarkFailed, Refund, Decide, tables
  <2>3. CASE plan[c].op = "create"
    <3>1. PICK q \in Payments : /\ Create(c, q, Message(c).order)
                                /\ GoTo(c, "waiting", [op |-> "create", payment |-> q])
      BY <1>6, <2>3 DEF Issue
    <3>2. q # p
      BY <1>1, <3>1 DEF Create, FreshId, PaymentInv, CreationsOK, Listed
    <3>3. plan'[c] = [op |-> "create", payment |-> q]
      BY <1>1, <3>1, Moves, PlanShapes DEF Stages, Ops
    <3>4. ~Holds(c, p)'
      BY <3>2, <3>3 DEF Holds
    <3> QED BY <2>1, <2>2, <3>4 DEF Claims
  <2>4. CASE plan[c].op # "create"
    <3>1. GoTo(c, "waiting", plan[c]) /\ plan[c] \in Plans
      BY <1>1, <1>6, <2>4 DEF Issue, ConsumerTypeOK
    <3>2. plan'[c] = plan[c]
      BY <1>1, <3>1, Moves DEF Stages
    <3> QED BY <2>1, <2>2, <3>2 DEF Claims, Holds, OnPayment
  <2> QED BY <2>3, <2>4
<1>7. CASE CommandStep(c)
  <2>1. UNCHANGED <<stage, plan>> /\ stage[c] = "waiting"
    BY <1>7 DEF CommandStep, handlerVars
  <2>2. Holds(c, p)' <=> Holds(c, p)
    BY <2>1 DEF Holds, OnPayment
  <2>3. ASSUME Captured(c), Holds(c, p), faults' # faults + 1 PROVE FALSE
    <3>1. plan[c].op = "paid" /\ pc[c] \in {"saving", "ok"}
      BY <2>3 DEF Captured
    <3>2. Save(c)
      BY <1>7, <2>3, <3>1 DEF CommandStep, Storable, ProviderAccepts, ProviderFails, Fault
    <3>3. pc'[c] = "ok"
      BY <1>1, <3>2 DEF Save
    <3>4. Captured(c)'
      BY <2>1, <3>1, <3>3 DEF Captured
    <3> QED BY <2>2, <2>3, <3>4 DEF Claims
  <2>4. ASSUME Captured(c), Holds(c, p), faults' = faults + 1 PROVE p = plan[c].payment
    BY <2>4 DEF Holds
  <2> QED BY <1>2, <2>2, <2>3, <2>4 DEF Claims
<1>8. CASE CommandSucceeded(c) /\ stage'[c] \in {"issuing", "waiting"}
  <2>1. stage[c] = "waiting" /\ pc[c] = "ok" /\ UNCHANGED payments
    BY <1>8 DEF CommandSucceeded, TakeAnswer, tables
  <2>2. OnPayment(c) /\ plan[c].payment \in Payments /\ plan[c] \in Plans
    BY <1>1, <2>1, Planned DEF Busy, ConsumerTypeOK
  <2>3. plan[c].op = "create"
    <3>1. ASSUME GoTo(c, "reloading", plan[c]) PROVE FALSE
      BY <1>1, <1>8, <2>2, <3>1, Moves DEF Stages
    <3>2. ~Return(c)
      BY <1>1, <1>8, ReturnStep
    <3> QED BY <1>8, <3>1, <3>2 DEF CommandSucceeded
  <2>4. GoTo(c, "issuing", [op |-> "paid", payment |-> plan[c].payment])
    BY <1>8, <2>3 DEF CommandSucceeded
  <2>5. plan'[c] = [op |-> "paid", payment |-> plan[c].payment]
    BY <1>1, <2>2, <2>4, Moves, PlanShapes DEF Stages, Ops
  <2>6. Holds(c, p)' => Holds(c, p)
    BY <2>1, <2>2, <2>3, <2>5 DEF Holds
  <2>7. ~Captured(c)
    BY <2>3 DEF Captured
  <2> QED BY <2>1, <2>6, <2>7 DEF Claims
<1> QED BY <1>3, <1>4, <1>5, <1>6, <1>7, <1>8, EntersCommand

\* The handler of a capturing consumer had its claim before, and has spent it after.
LEMMA CaptureSpends ==
    ASSUME ConsumerInv, CommandsHaveHandlers, NEW c \in Consumers, Work(c) \/ Trouble(c),
           NEW o \in Orders, Capturing(c, o)
    PROVE  /\ UNCHANGED payments /\ stage[c] = "waiting" /\ Undecided(c)
           /\ \E p \in PaymentsOf(o) :
                 /\ p = plan[c].payment /\ Claims(c, p)
                 /\ faults' = faults + 1 \/ (~Undecided(c)' /\ ~Claims(c, p)')
<1>0. PICK p : p = plan[c].payment
  OBVIOUS
<1>1. /\ pc[c] = "calling" /\ stage[c] = "waiting" /\ c \in Callers /\ pc \in [Callers -> PCs]
  BY ConsumersAssumption
     DEF Capturing, CommandsHaveHandlers, Running, ConsumerInv, PaymentInv, TypeOK
<1>2. /\ OnPayment(c) /\ plan[c].op = "paid" /\ p = job[c].payment
      /\ p \in PaymentsOf(o)
  BY <1>0, <1>1, Planned DEF Busy, CommandFits, Capturing
<1>3. ~Captured(c) /\ Holds(c, p)
  BY <1>0, <1>1, <1>2 DEF Captured, Holds
<1>4. Undecided(c) /\ Claims(c, p)
  BY <1>1, <1>3 DEF Undecided, Claims
<1>5. UNCHANGED payments
  BY DEF Capturing, ProviderAccepts, ProviderFails, tables
<1>6. CASE Trouble(c)
  BY <1>0, <1>1, <1>2, <1>4, <1>5, <1>6, TroubleIsAFault
<1>7. CASE Work(c)
  <2>1. CommandStep(c)
    BY <1>1, <1>7 DEF Work, Fetch, Look, DecodeFails, Issue, IssueRefused, Reload,
                      Commit, CommitRejected, At, CommandSucceeded, CommandFailed, TakeAnswer
  <2>2. ProviderAccepts(c) \/ Fault
    BY <1>1, <2>1 DEF CommandStep, Save, SaveFails, SaveAnswerLost
  <2>3. CASE ProviderAccepts(c)
    <3>1. pc'[c] = "saving" /\ UNCHANGED <<stage, plan>>
      BY <1>1, <2>1, <2>3 DEF ProviderAccepts, CommandStep, handlerVars
    <3>2. Captured(c)' /\ Holds(c, p)'
      BY <1>0, <1>1, <1>2, <3>1 DEF Captured, Holds, OnPayment
    <3>3. ~Undecided(c)' /\ ~Claims(c, p)'
      BY <3>1, <3>2 DEF Undecided, Claims
    <3> QED BY <1>0, <1>1, <1>2, <1>4, <1>5, <3>1, <3>3
  <2> QED BY <1>0, <1>1, <1>2, <1>4, <1>5, <2>2, <2>3 DEF Fault
<1> QED BY <1>6, <1>7

\* The handlers of the others keep their claims, on the payments that were stored.
LEMMA OthersClaim ==
    ASSUME PaymentInv, NEW c \in Callers, CallerStep(c), OthersKeepHandlers(c), RowsAdvance,
           NEW d \in Consumers, d # c
    PROVE  /\ stage'[d] = stage[d] /\ (Undecided(d)' <=> Undecided(d))
           /\ \A p \in Payments : Stored(p) /\ Claims(d, p)' => Claims(d, p)
<1>1. /\ stage'[d] = stage[d] /\ plan'[d] = plan[d] /\ pc'[d] = pc[d]
  BY CallerStepCases, ConsumersAssumption DEF OthersKeepHandlers, OthersKeepCommands
<1>2. Captured(d)' <=> Captured(d)
  BY <1>1 DEF Captured
<1>3. \A p \in Payments : Holds(d, p)' <=> Holds(d, p)
  BY <1>1 DEF Holds, OnPayment
<1>4. Undecided(d)' <=> Undecided(d)
  BY <1>1, <1>2 DEF Undecided
<1>5. ASSUME NEW p \in Payments, Stored(p), Claims(d, p)' PROVE Claims(d, p)
  BY <1>2, <1>3, <1>5 DEF Claims, RowsAdvance
<1> QED BY <1>1, <1>4, <1>5

LEMMA CreditTyped ==
    ASSUME SupersededCounted, ConsumerTypeOK, NEW o \in Orders, IsFiniteSet(PaymentsOf(o))
    PROVE  /\ IsFiniteSet(Late) /\ IsFiniteSet(Open(o)) /\ Open(o) \subseteq PaymentsOf(o)
           /\ Cardinality(Late) \in Nat /\ Cardinality(Open(o)) \in Nat
           /\ Cardinality(PaymentsOf(o)) \in Nat /\ faults \in Nat /\ Credit(o) \in Int
<1>1. Late \subseteq Superseded /\ Open(o) \subseteq PaymentsOf(o)
  BY DEF Late, Open
<1>2. /\ IsFiniteSet(Late) /\ IsFiniteSet(Open(o))
      /\ Cardinality(Late) \in Nat /\ Cardinality(Open(o)) \in Nat
      /\ Cardinality(PaymentsOf(o)) \in Nat
  BY <1>1, NoMore DEF SupersededCounted
<1>3. faults \in Nat
  BY DEF ConsumerTypeOK
<1> QED BY <1>1, <1>2, <1>3 DEF Credit

LEMMA PaymentsOfGrow ==
    ASSUME PaymentInv, RowsAdvance, NEW o \in Orders
    PROVE  /\ PaymentsOf(o) \subseteq PaymentsOf(o)'
           /\ \A p \in PaymentsOf(o) : p \in Payments /\ Stored(p)
<1>1. \A p \in PaymentsOf(o) : p \in Payments /\ Stored(p)
  BY OwnRow DEF PaymentsOf
<1> QED BY <1>1 DEF RowsAdvance, PaymentsOf

(***************************************************************************)
(* Credit.  A consumer's step lowers an order's credit never, and raises   *)
(* it by one when it captures.  For a superseded handler the difference    *)
(* shows in Late, for the owner's in Open.                                 *)
(***************************************************************************)
Earns(c, o) == Credit(o) <= Credit(o)' /\ (Capturing(c, o) => Credit(o) + 1 <= Credit(o)')

LEMMA CreditOfSuperseded ==
    ASSUME CountsInv, CountsInv', NEW c \in Consumers, c # owner, Work(c) \/ Trouble(c), Same,
           NEW o \in Orders
    PROVE  Earns(c, o)
<1>1. /\ ConsumerInv /\ CommandsHaveHandlers /\ SupersededCounted /\ PaymentsCounted(o)
      /\ ConsumerTypeOK /\ PaymentInv /\ OrdersKept
      /\ SupersededCounted' /\ PaymentsCounted(o)' /\ ConsumerTypeOK'
  BY DEF CountsInv, ConsumerInv
<1>2. /\ CallerStep(c) /\ OthersKeepHandlers(c) /\ owner' = owner /\ c \in Callers
      /\ stage[c] = "fetching" => stage'[c] = "fetching"
      /\ owner \in Consumers
  BY <1>1, ConsumerSteps, ConsumersAssumption DEF ConsumerTypeOK
<1>3. RowsAdvance
  BY <1>1, <1>2, CallerStepCases, PaymentStepKeeps
<1>4. /\ IsFiniteSet(Late) /\ Cardinality(Late) \in Nat /\ faults \in Nat
      /\ Open(o) \subseteq PaymentsOf(o)
  BY <1>1, CreditTyped DEF PaymentsCounted
<1>5. /\ IsFiniteSet(PaymentsOf(o)') /\ Cardinality(Late') \in Nat /\ faults' \in Nat
  <2>1. /\ IsFiniteSet(PaymentsOf(o)') /\ IsFiniteSet(Superseded') /\ Late' \subseteq Superseded'
    BY <1>1 DEF PaymentsCounted, SupersededCounted, Late
  <2>2. Cardinality(Late') \in Nat
    BY <2>1, NoMore
  <2>3. faults' \in Nat
    BY <1>1 DEF ConsumerTypeOK
  <2> QED BY <2>1, <2>2, <2>3
<1>6. /\ Cardinality(PaymentsOf(o)) \in Nat /\ Cardinality(PaymentsOf(o)') \in Nat
      /\ Cardinality(Open(o)) \in Nat /\ Cardinality(Open(o)') \in Nat
      /\ Cardinality(Open(o)') + Cardinality(PaymentsOf(o))
           <= Cardinality(Open(o)) + Cardinality(PaymentsOf(o)')
  <2>1. PaymentsOf(o) \subseteq PaymentsOf(o)' /\ \A p \in PaymentsOf(o) : p \in Payments /\ Stored(p)
    BY <1>1, <1>3, PaymentsOfGrow
  <2>2. Open(o)' \subseteq Open(o) \cup (PaymentsOf(o)' \ PaymentsOf(o))
    <3>1. \A p \in PaymentsOf(o) : Claims(owner, p)' => Claims(owner, p)
      BY <1>1, <1>2, <1>3, <2>1, OthersClaim
    <3> QED BY <1>2, <3>1 DEF Open
  <2> QED BY <1>4, <1>5, <2>1, <2>2, PartGrows
<1>7. \A d \in Consumers : d # c => stage'[d] = stage[d] /\ (Undecided(d)' <=> Undecided(d))
  BY <1>1, <1>2, <1>3, OthersClaim
<1>8. Late' \subseteq Late \cup {c}
  BY <1>2, <1>7 DEF Late, Superseded
<1>9. c \in Late' => c \in Late \/ faults' = faults + 1
  <2>1. ASSUME c \in Late' PROVE stage[c] # "fetching" /\ Undecided(c)'
    BY <1>2, <2>1 DEF Late, Superseded
  <2> QED BY <1>1, <1>2, <2>1, UndecidedStep DEF Late, Superseded
<1>10. faults' = faults \/ faults' = faults + 1
  BY FaultsMove
<1>11. CASE Capturing(c, o)
  <2>1. /\ stage[c] = "waiting" /\ Undecided(c)
        /\ faults' = faults + 1 \/ ~Undecided(c)'
    BY <1>1, <1>11, CaptureSpends
  <2>2. c \in Late
    BY <2>1 DEF Late, Superseded
  <2>3. CASE faults' = faults + 1
    <3>1. Late' \subseteq Late
      BY <1>8, <2>2
    <3>2. Cardinality(Late') <= Cardinality(Late)
      BY <1>4, <3>1, NoMore
    <3> QED BY <1>4, <1>5, <1>6, <2>3, <3>2 DEF Earns, Credit
  <2>4. CASE ~Undecided(c)'
    <3>1. Late' \subseteq Late \ {c}
      BY <1>8, <2>4 DEF Late
    <3>2. Cardinality(Late') + 1 <= Cardinality(Late)
      BY <1>4, <2>2, <3>1, OneLess
    <3> QED BY <1>4, <1>5, <1>6, <1>10, <3>2 DEF Earns, Credit
  <2> QED BY <2>1, <2>3, <2>4
<1>12. CASE ~Capturing(c, o)
  <2>1. CASE faults' = faults + 1
    <3>1. Cardinality(Late') <= Cardinality(Late) + 1
      BY <1>4, <1>8, OneMore
    <3> QED BY <1>4, <1>5, <1>6, <1>12, <2>1, <3>1 DEF Earns, Credit
  <2>2. CASE faults' = faults
    <3>1. Late' \subseteq Late
      BY <1>4, <1>8, <1>9, <2>2
    <3>2. Cardinality(Late') <= Cardinality(Late)
      BY <1>4, <3>1, NoMore
    <3> QED BY <1>4, <1>5, <1>6, <1>12, <2>2, <3>2 DEF Earns, Credit
  <2> QED BY <1>10, <2>1, <2>2
<1> QED BY <1>11, <1>12

LEMMA CreditOfOwner ==
    ASSUME CountsInv, CountsInv', NEW c \in Consumers, c = owner, Work(c) \/ Trouble(c), Same,
           NEW o \in Orders
    PROVE  Earns(c, o)
<1>1. /\ ConsumerInv /\ CommandsHaveHandlers /\ SupersededCounted /\ PaymentsCounted(o)
      /\ ConsumerTypeOK /\ PaymentInv /\ OrdersKept
      /\ SupersededCounted' /\ PaymentsCounted(o)' /\ ConsumerTypeOK'
  BY DEF CountsInv, ConsumerInv
<1>2. /\ CallerStep(c) /\ OthersKeepHandlers(c) /\ owner' = owner /\ c \in Callers
  BY <1>1, ConsumerSteps, ConsumersAssumption
<1>3. RowsAdvance
  BY <1>1, <1>2, CallerStepCases, PaymentStepKeeps
<1>4. /\ IsFiniteSet(Late) /\ Cardinality(Late) \in Nat /\ faults \in Nat
      /\ IsFiniteSet(Open(o)) /\ Cardinality(Open(o)) \in Nat
      /\ Open(o) \subseteq PaymentsOf(o) /\ IsFiniteSet(PaymentsOf(o)')
      /\ Cardinality(PaymentsOf(o)) \in Nat
  BY <1>1, CreditTyped DEF PaymentsCounted
<1>5. Late' = Late
  <2>1. \A d \in Consumers : d # c => stage'[d] = stage[d] /\ (Undecided(d)' <=> Undecided(d))
    BY <1>1, <1>2, <1>3, OthersClaim
  <2> QED BY <1>2, <2>1 DEF Late, Superseded
<1>6. PaymentsOf(o) \subseteq PaymentsOf(o)' /\ \A p \in PaymentsOf(o) : p \in Payments /\ Stored(p)
  BY <1>1, <1>3, PaymentsOfGrow
<1>7. faults' = faults \/ faults' = faults + 1
  BY FaultsMove
<1>8. \A p \in PaymentsOf(o) : p \in Open(o)' =>
         p \in Open(o) \/ (faults' = faults + 1 /\ p = plan[c].payment)
  BY <1>1, <1>2, <1>3, <1>6, ClaimsStep DEF Open
<1>9. ASSUME NEW A, A \subseteq PaymentsOf(o),
             Open(o)' \subseteq A \cup (PaymentsOf(o)' \ PaymentsOf(o))
      PROVE  /\ Cardinality(PaymentsOf(o)') \in Nat /\ Cardinality(Open(o)') \in Nat
             /\ Cardinality(Open(o)') + Cardinality(PaymentsOf(o))
                  <= Cardinality(A) + Cardinality(PaymentsOf(o)')
  BY <1>4, <1>6, <1>9, PartGrows
<1>10. Open(o)' \subseteq PaymentsOf(o)'
  BY DEF Open
<1>11. CASE Capturing(c, o)
  <2>1. PICK p \in PaymentsOf(o) : /\ p = plan[c].payment /\ Claims(c, p)
                                   /\ faults' = faults + 1 \/ ~Claims(c, p)'
    BY <1>1, <1>11, CaptureSpends
  <2>2. p \in Open(o)
    BY <2>1 DEF Open
  <2>3. CASE faults' = faults + 1
    <3>1. Open(o)' \subseteq Open(o) \cup (PaymentsOf(o)' \ PaymentsOf(o))
      BY <1>8, <1>10, <2>1, <2>2
    <3> QED BY <1>4, <1>5, <1>9, <2>3, <3>1 DEF Earns, Credit
  <2>4. CASE ~Claims(c, p)'
    <3>1. Open(o)' \subseteq (Open(o) \ {p}) \cup (PaymentsOf(o)' \ PaymentsOf(o))
      <4>1. p \notin Open(o)'
        BY <1>2, <2>4 DEF Open
      <4>2. \A q \in PaymentsOf(o) : q \in Open(o)' => q \in Open(o)
        BY <1>8, <2>1, <2>2, <4>1
      <4> QED BY <1>10, <4>1, <4>2
    <3>2. /\ Cardinality(Open(o) \ {p}) \in Nat
          /\ Cardinality(Open(o) \ {p}) + 1 <= Cardinality(Open(o))
      BY <1>4, <2>2, OneLess
    <3> QED BY <1>4, <1>5, <1>7, <1>9, <3>1, <3>2 DEF Earns, Credit
  <2> QED BY <2>1, <2>3, <2>4
<1>12. CASE ~Capturing(c, o)
  <2>1. CASE faults' = faults + 1
    <3> DEFINE A == Open(o) \cup ({plan[c].payment} \cap PaymentsOf(o))
    <3>1. Open(o)' \subseteq A \cup (PaymentsOf(o)' \ PaymentsOf(o)) /\ A \subseteq PaymentsOf(o)
      BY <1>4, <1>8, <1>10
    <3>2. Cardinality(A) \in Nat /\ Cardinality(A) <= Cardinality(Open(o)) + 1
      <4>1. A \subseteq Open(o) \cup {plan[c].payment}
        OBVIOUS
      <4> HIDE DEF A
      <4> QED BY <1>4, <4>1, OneMore
    <3> HIDE DEF A
    <3> QED BY <1>4, <1>5, <1>9, <1>12, <2>1, <3>1, <3>2 DEF Earns, Credit
  <2>2. CASE faults' = faults
    <3>1. Open(o)' \subseteq Open(o) \cup (PaymentsOf(o)' \ PaymentsOf(o))
      BY <1>4, <1>8, <1>10, <2>2
    <3> QED BY <1>4, <1>5, <1>9, <1>12, <2>2, <3>1 DEF Earns, Credit
  <2> QED BY <1>7, <2>1, <2>2
<1> QED BY <1>11, <1>12

\* The same in the state after a step.
LEMMA CreditTypedAfter ==
    ASSUME CountsInv', NEW o \in Orders
    PROVE  Credit(o)' \in Int
<1>1. /\ IsFiniteSet(Superseded') /\ IsFiniteSet(PaymentsOf(o)') /\ faults' \in Nat
  BY DEF CountsInv, ConsumerInv, ConsumerTypeOK, SupersededCounted, PaymentsCounted
<1>2. Late' \subseteq Superseded' /\ Open(o)' \subseteq PaymentsOf(o)'
  BY DEF Late, Open
<1>3. /\ Cardinality(Late') \in Nat /\ Cardinality(Open(o)') \in Nat
      /\ Cardinality(PaymentsOf(o)') \in Nat
  BY <1>1, <1>2, NoMore
<1> QED BY <1>1, <1>3 DEF Credit

LEMMA AllowanceTyped ==
    ASSUME CountsInv, NEW o \in Orders, IsFiniteSet(RequestsDoing("paid", o))
    PROVE  /\ IsFiniteSet(Paying(o)) /\ Cardinality(Paying(o)) \in Nat
           /\ Cardinality(RequestsDoing("paid", o)) \in Nat
           /\ Credit(o) \in Int /\ Allowance(o) \in Int
<1>1. Paying(o) \subseteq RequestsDoing("paid", o)
  BY DEF Paying
<1>2. /\ IsFiniteSet(Paying(o)) /\ Cardinality(Paying(o)) \in Nat
      /\ Cardinality(RequestsDoing("paid", o)) \in Nat
  BY <1>1, NoMore
<1>3. Credit(o) \in Int
  BY CreditTyped DEF CountsInv, ConsumerInv, PaymentsCounted
<1> QED BY <1>2, <1>3 DEF Allowance

\* The bound is kept when the allowance grows with the charges.
LEMMA CountedWhenEarned ==
    ASSUME ChargesInv, CountsInv', NEW c \in Callers, CallerStep(c), NEW o \in Orders,
           IsFiniteSet(RequestsDoing("paid", o)'),
           Allowance(o) <= Allowance(o)',
           Capturing(c, o) => Allowance(o) + 1 <= Allowance(o)'
    PROVE  ChargesCounted(o)'
<1>1. /\ CountsInv /\ PaymentInv /\ OrdersKept /\ UnstoredUncharged /\ ChargesCounted(o)
  BY DEF ChargesInv, CountsInv, ConsumerInv
<1>2. /\ IsFiniteSet(Charges(o)) /\ IsFiniteSet(RequestsDoing("paid", o))
      /\ Cardinality(Charges(o)) <= Attempts * Allowance(o)
  BY <1>1 DEF ChargesCounted
<1>3. /\ IsFiniteSet(Charges(o)')
      /\ Cardinality(Charges(o)) \in Nat /\ Cardinality(Charges(o)') \in Nat
      /\ \/ Cardinality(Charges(o)') <= Cardinality(Charges(o))
         \/ /\ Capturing(c, o)
            /\ Cardinality(Charges(o)') <= Cardinality(Charges(o)) + Attempts
  BY <1>1, <1>2, ChargesStep
<1>4. Allowance(o) \in Int
  BY <1>1, <1>2, AllowanceTyped
<1>5. Allowance(o)' \in Int
  <2>1. Paying(o)' \subseteq RequestsDoing("paid", o)'
    BY DEF Paying
  <2>2. /\ Cardinality(Paying(o)') \in Nat
        /\ Cardinality(RequestsDoing("paid", o)') \in Nat
    BY <2>1, NoMore
  <2> QED BY <2>2, CreditTypedAfter DEF Allowance
<1> DEFINE x == Cardinality(Charges(o))
           y == Cardinality(Charges(o)')
           b == Allowance(o)
           d == Allowance(o)'
<1>6. /\ Attempts \in Nat /\ x \in Nat /\ y \in Nat /\ b \in Int /\ d \in Int
      /\ x <= Attempts * b
      /\ (y <= x /\ b <= d) \/ (y <= x + Attempts /\ b + 1 <= d)
  BY <1>2, <1>3, <1>4, <1>5, AttemptsAssumption
<1> HIDE DEF x, y, b, d
<1>7. y <= Attempts * d
  BY <1>6, Balanced
<1> QED BY <1>3, <1>7 DEF ChargesCounted, y, d

LEMMA ChargesKeptByConsumer ==
    ASSUME ChargesInv, CountsInv', NEW c \in Consumers, Work(c) \/ Trouble(c), Same
    PROVE  ChargesInv'
<1>1. /\ CountsInv /\ ConsumerInv /\ CommandsHaveHandlers /\ PaymentInv /\ OrdersKept
      /\ UnstoredUncharged
  BY DEF ChargesInv, CountsInv, ConsumerInv
<1>2. CallerStep(c) /\ c \in Callers
  BY <1>1, ConsumerSteps, ConsumersAssumption
<1>3. ASSUME NEW o \in Orders PROVE ChargesCounted(o)'
  <2>1. ChargesCounted(o)
    BY DEF ChargesInv
  <2>2. RequestsDoing("paid", o)' = RequestsDoing("paid", o)
    BY <1>1, <1>2, RequestsStay
  <2>3. Paying(o)' = Paying(o)
    <3>1. \A r \in RequestsDoing("paid", o) : pc'[r] = pc[r]
      BY <1>1, <1>2, CallerStepCases DEF RequestsDoing, HTTPRequests, OthersKeepCommands
    <3> QED BY <2>2, <3>1 DEF Paying
  <2>4. Credit(o) <= Credit(o)' /\ (Capturing(c, o) => Credit(o) + 1 <= Credit(o)')
    BY <1>1, CreditOfOwner, CreditOfSuperseded DEF Earns
  <2>5. /\ Cardinality(Paying(o)) \in Nat /\ Cardinality(RequestsDoing("paid", o)) \in Nat
        /\ Credit(o) \in Int
    BY <1>1, <2>1, AllowanceTyped DEF ChargesCounted
  <2>6. Credit(o)' \in Int
    BY CreditTypedAfter
  <2>7. /\ Allowance(o) <= Allowance(o)'
        /\ Capturing(c, o) => Allowance(o) + 1 <= Allowance(o)'
    BY <2>2, <2>3, <2>4, <2>5, <2>6 DEF Allowance
  <2> QED BY <1>2, <2>1, <2>2, <2>7, CountedWhenEarned DEF ChargesCounted
<1> QED BY <1>1, <1>2, <1>3, UnchargedStays DEF ChargesInv

\* A call to the provider begins with its command.
LEMMA CallsWhenIdle ==
    ASSUME PaymentInv, NEW r \in Callers, Command(r) \/ Refuse(r) \/ Progress(r),
           job[r] # NoJob, pc[r] # "calling"
    PROVE  pc'[r] # "calling"
<1>1. pc \in [Callers -> PCs] /\ pc[r] # "idle"
  BY DEF PaymentInv, TypeOK, CommandsOK
<1>2. Progress(r)
  BY <1>1 DEF Command, Refuse, Create, MarkPaid, MarkFailed, Refund, Decide, Idle
<1> QED BY <1>1, <1>2 DEF Progress, ProviderAccepts, ProviderFails, Save, SaveFails, SaveAnswerLost

\* A request adds to the allowance when it starts, and pays from it when it captures.
LEMMA ChargesKeptByRequest ==
    ASSUME ChargesInv, CountsInv', NEW r \in HTTPRequests,
           Command(r) \/ Refuse(r) \/ Progress(r), UNCHANGED consumerVars
    PROVE  ChargesInv'
<1>1. /\ CountsInv /\ ConsumerInv /\ PaymentInv /\ OrdersKept /\ UnstoredUncharged
      /\ ConsumerTypeOK /\ SupersededCounted
  BY DEF ChargesInv, CountsInv, ConsumerInv
<1>2. /\ r \in Callers /\ r \notin Consumers /\ CallerStep(r)
      /\ UNCHANGED <<stage, plan, owner, faults>> /\ OthersKeepHandlers(r)
  BY DEF HTTPRequests, consumerVars, groupVars, handlerVars, OthersKeepHandlers, CallerStep
<1>3. RowsAdvance /\ OthersKeepCommands(r)
  BY <1>1, <1>2, CallerStepCases, PaymentStepKeeps
<1>4. Late' = Late
  <2>1. \A d \in Consumers : Undecided(d)' <=> Undecided(d)
    BY <1>1, <1>2, <1>3, OthersClaim
  <2> QED BY <1>2, <2>1 DEF Late, Superseded
<1>5. job'[r] = job[r] \/ job[r] = NoJob
  BY <1>1, <1>2, RequestsHoldOn
<1>6. ASSUME NEW o \in Orders PROVE ChargesCounted(o)'
  <2> DEFINE R == RequestsDoing("paid", o)
  <2>1. ChargesCounted(o) /\ IsFiniteSet(R) /\ PaymentsCounted(o) /\ PaymentsCounted(o)'
    BY DEF ChargesInv, CountsInv, ChargesCounted
  <2>2. R \subseteq R' /\ R' \subseteq R \cup {r}
    BY <1>3, <1>5 DEF RequestsDoing, OthersKeepCommands, HTTPRequests
  <2>3. IsFiniteSet(R')
    <3> HIDE DEF R
    <3> QED BY <2>1, <2>2, OneMore
  <2>4. \A q \in HTTPRequests : q # r => pc'[q] = pc[q]
    BY <1>3 DEF OthersKeepCommands, HTTPRequests
  <2>5. Credit(o) <= Credit(o)'
    <3>1. /\ IsFiniteSet(PaymentsOf(o)') /\ Cardinality(Late) \in Nat /\ faults \in Nat
          /\ Open(o) \subseteq PaymentsOf(o)
      BY <1>1, <2>1, CreditTyped DEF PaymentsCounted
    <3>2. PaymentsOf(o) \subseteq PaymentsOf(o)' /\ \A p \in PaymentsOf(o) : p \in Payments /\ Stored(p)
      BY <1>1, <1>3, PaymentsOfGrow
    <3>3. Open(o)' \subseteq Open(o) \cup (PaymentsOf(o)' \ PaymentsOf(o))
      <4>1. owner \in Consumers /\ owner # r
        BY <1>1, <1>2 DEF ConsumerTypeOK
      <4>2. \A p \in PaymentsOf(o) : Claims(owner, p)' => Claims(owner, p)
        BY <1>1, <1>2, <1>3, <3>2, <4>1, OthersClaim
      <4> QED BY <1>2, <4>2 DEF Open
    <3>4. /\ Cardinality(PaymentsOf(o)) \in Nat /\ Cardinality(PaymentsOf(o)') \in Nat
          /\ Cardinality(Open(o)) \in Nat /\ Cardinality(Open(o)') \in Nat
          /\ Cardinality(Open(o)') + Cardinality(PaymentsOf(o))
               <= Cardinality(Open(o)) + Cardinality(PaymentsOf(o)')
      BY <3>1, <3>2, <3>3, PartGrows
    <3> QED BY <1>2, <1>4, <3>1, <3>4 DEF Credit
  <2>6. /\ Cardinality(Paying(o)) \in Nat /\ Cardinality(R) \in Nat /\ IsFiniteSet(Paying(o))
        /\ Credit(o) \in Int /\ Paying(o) \subseteq R
    BY <1>1, <2>1, AllowanceTyped DEF Paying
  <2>7. Credit(o)' \in Int
    BY CreditTypedAfter
  <2>8. CASE Capturing(r, o)
    <3>1. pc[r] = "calling" /\ pc'[r] # "calling" /\ job' = job /\ job[r].op = "paid" /\ job[r].order = o
      BY <1>1, <1>2, <2>8, ProviderCases DEF Capturing, PaymentInv, TypeOK
    <3>2. R' = R /\ r \in R
      BY <1>1, <1>2, <3>1 DEF RequestsDoing, PaymentInv, CommandsOK, Running
    <3>3. r \in Paying(o) /\ Paying(o)' \subseteq Paying(o) \ {r}
      BY <2>4, <3>1, <3>2 DEF Paying, RequestsDoing
    <3>4. Cardinality(Paying(o)') \in Nat /\ Cardinality(Paying(o)') + 1 <= Cardinality(Paying(o))
      BY <2>6, <3>3, OneLess
    <3>5. Allowance(o) + 1 <= Allowance(o)'
      BY <2>5, <2>6, <2>7, <3>2, <3>4 DEF Allowance
    <3>6. Allowance(o) <= Allowance(o)'
      BY <2>5, <2>6, <2>7, <3>2, <3>4 DEF Allowance
    <3> QED BY <1>2, <2>3, <3>5, <3>6, CountedWhenEarned
  <2>9. CASE ~Capturing(r, o)
    <3>1. Paying(o)' \subseteq Paying(o) \cup (R' \ R)
      <4>1. ASSUME NEW q \in Paying(o)', q \in R, q \notin Paying(o) PROVE FALSE
        <5>1. q = r /\ pc'[r] = "calling" /\ pc[r] # "calling"
          BY <2>4, <4>1 DEF Paying, RequestsDoing
        <5>2. job[r] # NoJob
          BY <4>1, <5>1 DEF RequestsDoing
        <5> QED BY <1>1, <1>2, <5>1, <5>2, CallsWhenIdle
      <4> QED BY <4>1 DEF Paying
    <3>2. /\ Cardinality(R') \in Nat /\ Cardinality(Paying(o)') \in Nat
          /\ Cardinality(Paying(o)') + Cardinality(R) <= Cardinality(Paying(o)) + Cardinality(R')
      <4> HIDE DEF R
      <4> QED BY <2>2, <2>3, <2>6, <3>1, PartGrows
    <3>3. Allowance(o) <= Allowance(o)'
      BY <2>5, <2>6, <2>7, <3>2 DEF Allowance
    <3> QED BY <1>2, <2>3, <2>9, <3>3, CountedWhenEarned
  <2> QED BY <2>8, <2>9
<1> QED BY <1>1, <1>2, <1>6, UnchargedStays DEF ChargesInv

(***************************************************************************)
(* A rebalance makes the old owner's handler a late one and opens payments *)
(* to the new owner, which may have been late itself; the one fault it     *)
(* costs covers the difference.                                            *)
(***************************************************************************)
LEMMA CreditOfRebalance ==
    ASSUME CountsInv, CountsInv', NEW d \in Consumers, Rebalance(d), NEW o \in Orders
    PROVE  Credit(o) <= Credit(o)'
<1>1. /\ ConsumerTypeOK /\ SupersededCounted /\ PaymentsCounted(o)
      /\ owner \in Consumers /\ owner # d
  BY DEF CountsInv, ConsumerInv, ConsumerTypeOK, Rebalance
<1>2. /\ owner' = d /\ faults' = faults + 1
      /\ UNCHANGED <<payments, pc, stage, plan>>
  BY DEF Rebalance, Fault, handlerVars, vars
<1>3. /\ \A c \in Consumers : Undecided(c)' <=> Undecided(c)
      /\ \A c \in Consumers, p \in Payments : Claims(c, p)' <=> Claims(c, p)
      /\ PaymentsOf(o)' = PaymentsOf(o)
  BY <1>2 DEF Undecided, Claims, Captured, Holds, OnPayment, PaymentsOf
<1>4. /\ IsFiniteSet(Late) /\ IsFiniteSet(Open(o)) /\ Cardinality(Late) \in Nat
      /\ Cardinality(Open(o)) \in Nat /\ Cardinality(PaymentsOf(o)) \in Nat /\ faults \in Nat
  BY <1>1, CreditTyped DEF PaymentsCounted
<1> DEFINE Pending == {p \in PaymentsOf(o) : payments[p].status = "pending"}
           held(c) == {plan[c].payment}
<1>5. /\ Open(o)' \subseteq Pending \cup (IF Undecided(d) THEN held(d) ELSE {})
      /\ Pending \subseteq Open(o) \cup (IF Undecided(owner) THEN {} ELSE held(owner))
  <2>1. ASSUME NEW p \in Open(o)', p \notin Pending PROVE Undecided(d) /\ p \in held(d)
    <3>1. p \in PaymentsOf(o) /\ Claims(d, p)
      BY <1>2, <1>3, <2>1 DEF Open, PaymentsOf
    <3> QED BY <2>1, <3>1 DEF Claims, Holds, Undecided
  <2>2. ASSUME NEW p \in Pending, p \notin Open(o) PROVE ~Undecided(owner) /\ p \in held(owner)
    <3>1. Captured(owner) /\ Holds(owner, p)
      BY <2>2 DEF Open, Claims
    <3> QED BY <3>1 DEF Undecided, Holds
  <2> QED BY <2>1, <2>2
<1>6. /\ Late' \subseteq Late \cup (IF Undecided(owner) THEN {owner} ELSE {})
      /\ d \notin Late' /\ (Undecided(d) => d \in Late)
  BY <1>1, <1>2, <1>3 DEF Late, Superseded, Undecided
<1> HIDE DEF Pending, held
<1>7. /\ Cardinality(Late') \in Nat /\ Cardinality(Open(o)') \in Nat
      /\ Cardinality(Late') + Cardinality(Open(o)') <= Cardinality(Late) + Cardinality(Open(o)) + 1
  <2>1. CASE Undecided(owner) /\ Undecided(d)
    <3>1. Late' \subseteq (Late \ {d}) \cup {owner} /\ d \in Late
      BY <1>6, <2>1
    <3>2. IsFiniteSet(Late \ {d}) /\ Cardinality(Late \ {d}) + 1 <= Cardinality(Late)
      BY <1>4, <3>1, OneLess
    <3>3. /\ Cardinality(Late \ {d}) \in Nat /\ Cardinality(Late') \in Nat
          /\ Cardinality(Late') <= Cardinality(Late \ {d}) + 1
      BY <3>1, <3>2, OneMore
    <3>4. Open(o)' \subseteq Open(o) \cup {plan[d].payment}
      BY <1>5, <2>1 DEF held
    <3>5. Cardinality(Open(o)') \in Nat /\ Cardinality(Open(o)') <= Cardinality(Open(o)) + 1
      BY <1>4, <3>4, OneMore
    <3> QED BY <1>4, <3>2, <3>3, <3>5
  <2>2. CASE Undecided(owner) /\ ~Undecided(d)
    <3>1. Late' \subseteq Late \cup {owner} /\ Open(o)' \subseteq Open(o)
      BY <1>5, <1>6, <2>2
    <3>2. Cardinality(Late') \in Nat /\ Cardinality(Late') <= Cardinality(Late) + 1
      BY <1>4, <3>1, OneMore
    <3>3. Cardinality(Open(o)') \in Nat /\ Cardinality(Open(o)') <= Cardinality(Open(o))
      BY <1>4, <3>1, NoMore
    <3> QED BY <1>4, <3>2, <3>3
  <2>3. CASE ~Undecided(owner) /\ Undecided(d)
    <3>1. Late' \subseteq Late \ {d} /\ d \in Late
      BY <1>6, <2>3
    <3>2. Cardinality(Late') \in Nat /\ Cardinality(Late') + 1 <= Cardinality(Late)
      BY <1>4, <3>1, OneLess
    <3> DEFINE S == Open(o) \cup {plan[owner].payment}
    <3>3. Open(o)' \subseteq S \cup {plan[d].payment} /\ S \subseteq Open(o) \cup {plan[owner].payment}
      BY <1>5, <2>3 DEF held
    <3> HIDE DEF S
    <3>4. IsFiniteSet(S) /\ Cardinality(S) <= Cardinality(Open(o)) + 1
      BY <1>4, <3>3, OneMore
    <3>5. /\ Cardinality(Open(o)') \in Nat /\ Cardinality(S) \in Nat
          /\ Cardinality(Open(o)') <= Cardinality(S) + 1
      BY <3>3, <3>4, OneMore
    <3> QED BY <1>4, <3>2, <3>4, <3>5
  <2>4. CASE ~Undecided(owner) /\ ~Undecided(d)
    <3>1. Late' \subseteq Late /\ Open(o)' \subseteq Open(o) \cup {plan[owner].payment}
      BY <1>5, <1>6, <2>4 DEF held
    <3>2. Cardinality(Late') \in Nat /\ Cardinality(Late') <= Cardinality(Late)
      BY <1>4, <3>1, NoMore
    <3>3. Cardinality(Open(o)') \in Nat /\ Cardinality(Open(o)') <= Cardinality(Open(o)) + 1
      BY <1>4, <3>1, OneMore
    <3> QED BY <1>4, <3>2, <3>3
  <2> QED BY <2>1, <2>2, <2>3, <2>4
<1> QED BY <1>2, <1>3, <1>4, <1>7 DEF Credit

LEMMA ChargesKeptByRebalance ==
    ASSUME ChargesInv, CountsInv', NEW d \in Consumers, Rebalance(d)
    PROVE  ChargesInv'
<1>1. UNCHANGED vars /\ UNCHANGED <<payments, captures, job, pc>>
  BY DEF Rebalance, vars
<1>2. UnstoredUncharged'
  BY <1>1 DEF ChargesInv, UnstoredUncharged, Stored
<1>3. ASSUME NEW o \in Orders PROVE ChargesCounted(o)'
  <2>1. ChargesCounted(o) /\ CountsInv
    BY DEF ChargesInv
  <2>2. /\ RequestsDoing("paid", o)' = RequestsDoing("paid", o)
        /\ Paying(o)' = Paying(o)
    BY <1>1 DEF Paying, RequestsDoing
  <2>3. Credit(o) <= Credit(o)'
    BY <2>1, CreditOfRebalance
  <2>4. /\ Cardinality(Paying(o)) \in Nat /\ Cardinality(RequestsDoing("paid", o)) \in Nat
        /\ Credit(o) \in Int /\ Credit(o)' \in Int
    BY <2>1, AllowanceTyped, CreditTypedAfter DEF ChargesCounted
  <2>5. Allowance(o) <= Allowance(o)'
    BY <2>2, <2>3, <2>4 DEF Allowance
  <2>6. d \in Callers /\ CallerStep(d) /\ ~Capturing(d, o)
    <3>1. /\ d \in Callers /\ PaymentInv
      BY <2>1, ConsumersAssumption DEF CountsInv, ConsumerInv
    <3>2. ~Capturing(d, o)
      BY <1>1, <3>1, ProviderCases DEF Capturing, PaymentInv, TypeOK
    <3> QED BY <1>1, <3>1, <3>2 DEF CallerStep
  <2> QED BY <2>1, <2>2, <2>5, <2>6, CountedWhenEarned DEF ChargesCounted
<1> QED BY <1>2, <1>3 DEF ChargesInv

LEMMA NextKeepsCharges == ChargesInv /\ [ConsumerNext]_allVars => ChargesInv'
<1> SUFFICES ASSUME ChargesInv, [ConsumerNext]_allVars PROVE ChargesInv'
  OBVIOUS
<1>1. CountsInv'
  BY NextKeepsCounts DEF ChargesInv
<1>2. CASE UNCHANGED allVars
  <2>1. UNCHANGED <<payments, captures, job, pc, stage, plan, owner, faults>>
    BY <1>2 DEF allVars, vars, consumerVars, groupVars, handlerVars
  <2>2. UnstoredUncharged'
    BY <2>1 DEF ChargesInv, UnstoredUncharged, Stored
  <2>3. ASSUME NEW o \in Orders PROVE ChargesCounted(o)'
    <3>1. /\ Charges(o)' = Charges(o) /\ PaymentsOf(o)' = PaymentsOf(o)
          /\ RequestsDoing("paid", o)' = RequestsDoing("paid", o)
      BY <2>1 DEF Charges, PaymentsOf, RequestsDoing
    <3>2. Paying(o)' = Paying(o) /\ Late' = Late /\ Open(o)' = Open(o)
      BY <2>1, <3>1 DEF Paying, Late, Open, Superseded, Undecided, Claims, Captured, Holds, OnPayment
    <3> QED BY <2>1, <3>1, <3>2 DEF ChargesInv, ChargesCounted, Allowance, Credit
  <2> QED BY <1>1, <2>2, <2>3 DEF ChargesInv
<1> QED BY <1>1, <1>2, ChargesKeptByConsumer, ChargesKeptByRebalance, ChargesKeptByRequest
        DEF ConsumerNext, Same

LEMMA InitChargesInv == ConsumerInit => ChargesInv
<1> SUFFICES ASSUME ConsumerInit PROVE ChargesInv
  OBVIOUS
<1>1. /\ CountsInv /\ faults = 0
      /\ \A c \in Consumers : stage[c] = "fetching"
      /\ \A c \in Callers : job[c] = NoJob
      /\ \A p \in Payments : payments[p] = NoRow /\ captures[p] = 0
  BY InitCountsInv DEF ConsumerInit, Init
<1>2. UnstoredUncharged
  BY <1>1 DEF UnstoredUncharged
<1>3. ASSUME NEW o \in Orders PROVE ChargesCounted(o)
  <2>1. PaymentsOf(o) = {} /\ Late = {}
    BY <1>1, NoOrderAssumption DEF PaymentsOf, NoRow, Late, Superseded
  <2>2. Open(o) = {} /\ Charges(o) = {}
    BY <2>1 DEF Open, Charges
  <2>3. RequestsDoing("paid", o) = {} /\ Paying(o) = {}
    BY <1>1 DEF RequestsDoing, HTTPRequests, Paying
  <2>4. IsFiniteSet({}) /\ Cardinality({}) = 0
    BY FS_EmptySet
  <2>5. Allowance(o) = 0
    BY <1>1, <2>1, <2>2, <2>3, <2>4 DEF Allowance, Credit
  <2> QED BY <2>2, <2>3, <2>4, <2>5, AttemptsAssumption DEF ChargesCounted
<1> QED BY <1>1, <1>2, <1>3 DEF ChargesInv

THEOREM ChargesInvariant == ConsumerSpec => []ChargesInv
BY InitChargesInv, NextKeepsCharges, PTL DEF ConsumerSpec

(***************************************************************************)
(* Redelivery alone never charges an order again: the captures of all its  *)
(* payments are those of one paying command, of one more for each failure, *)
(* rebalance, and request that creates or pays, each command counted with  *)
(* the client's Attempts, for every topic, however often it repeats.       *)
(***************************************************************************)
THEOREM ChargesAreExplained == ConsumerSpec => []ChargesExplained
<1>1. ChargesInv => ChargesExplained
  <2> SUFFICES ASSUME ChargesInv, NEW o \in Orders
               PROVE  Cardinality(Charges(o))
                        <= Attempts * (1 + faults + handovers + Cardinality(RequestsDoing("create", o))
                                         + Cardinality(RequestsDoing("paid", o)))
    BY DEF ChargesExplained
  <2>1. /\ CountsInv /\ ConsumerInv /\ PaymentsCounted(o) /\ ChargesCounted(o)
        /\ ConsumerTypeOK /\ SupersededCounted
    BY DEF ChargesInv, CountsInv, ConsumerInv
  <2>2. /\ Cardinality(Late) \in Nat /\ Cardinality(Open(o)) \in Nat /\ faults \in Nat
        /\ Cardinality(Paying(o)) \in Nat /\ Cardinality(RequestsDoing("paid", o)) \in Nat
        /\ Allowance(o) \in Int
    BY <2>1, CreditTyped, AllowanceTyped DEF PaymentsCounted, ChargesCounted
  <2>3. /\ handovers \in Nat /\ Cardinality(PaymentsOf(o)) \in Nat /\ Cardinality(Creators(o)) \in Nat
        /\ Cardinality(RequestsDoing("create", o)) \in Nat
    BY <2>1, PaymentsCountTyped
  <2> DEFINE total == 1 + faults + handovers + Cardinality(RequestsDoing("create", o))
                        + Cardinality(RequestsDoing("paid", o))
             x == Cardinality(Charges(o))
  <2>4. Allowance(o) <= total /\ total \in Int
    BY <2>1, <2>2, <2>3 DEF PaymentsCounted, Allowance, Credit
  <2>5. x \in Nat /\ x <= Attempts * Allowance(o) /\ Attempts \in Nat
    BY <2>1, FS_CardinalityType, AttemptsAssumption DEF ChargesCounted
  <2> HIDE DEF total, x
  <2>6. x <= Attempts * total
    BY <2>2, <2>4, <2>5, Balanced
  <2> QED BY <2>6 DEF total, x
<1> QED BY <1>1, ChargesInvariant, PTL

----------------------------------------------------------------------------
(***************************************************************************)
(* A topic that grows.  The producer appends behind the consumers' backs,  *)
(* and nothing that holds of what they have fetched changes.               *)
(***************************************************************************)
TopicGrows ==
    /\ topic' \in Seq(Messages)
    /\ Len(topic) <= Len(topic')
    /\ \A i \in 1..Len(topic) : topic'[i] = topic[i]
    /\ UNCHANGED <<vars, fits, offset, owner, position, lost, handlerVars, faults, handovers>>

LEMMA GrowthKeepsMessages ==
    ASSUME ConsumerTypeOK, TopicGrows
    PROVE  /\ Len(topic) \in Nat /\ Len(topic') \in Nat /\ 1..Len(topic) \subseteq 1..Len(topic')
           /\ \A c \in Consumers : msg[c] # 0 => Message(c)' = Message(c)
           /\ UNCHANGED <<payments, job, pc, msg, stage, plan, attempt>>
<1>1. Len(topic) \in Nat /\ Len(topic') \in Nat
  BY LenProperties DEF ConsumerTypeOK, TopicGrows
<1>2. UNCHANGED <<payments, job, pc, msg, stage, plan, attempt>>
  BY DEF TopicGrows, vars, handlerVars
<1>3. ASSUME NEW c \in Consumers, msg[c] # 0 PROVE Message(c)' = Message(c)
  BY <1>2, <1>3, InHand DEF TopicGrows, Message
<1> QED BY <1>1, <1>2, <1>3 DEF TopicGrows

LEMMA GrowthKeepsConsumerInv == ConsumerInv /\ TopicGrows => ConsumerInv'
<1> SUFFICES ASSUME ConsumerInv, TopicGrows PROVE ConsumerInv'
  OBVIOUS
<1>1. /\ ConsumerTypeOK
      /\ Len(topic) \in Nat /\ Len(topic') \in Nat /\ 1..Len(topic) \subseteq 1..Len(topic')
      /\ \A c \in Consumers : msg[c] # 0 => Message(c)' = Message(c)
      /\ UNCHANGED <<payments, job, pc, msg, stage, plan, attempt>>
  BY GrowthKeepsMessages DEF ConsumerInv
<1>2. ConsumerTypeOK'
  <2>1. TypeOK'
    BY DEF TopicGrows, vars, tables, ledger, ConsumerInv, ConsumerTypeOK, TypeOK
  <2>2. offset' \in 1..(Len(topic') + 1)
    BY <1>1 DEF TopicGrows, ConsumerTypeOK
  <2>3. position' \in [Consumers -> 1..(Len(topic') + 1)]
    BY <1>1 DEF TopicGrows, ConsumerTypeOK
  <2>4. msg' \in [Consumers -> 0..Len(topic')] /\ lost' \subseteq 1..Len(topic')
    BY <1>1 DEF TopicGrows, ConsumerTypeOK
  <2> QED BY <1>1, <2>1, <2>2, <2>3, <2>4 DEF TopicGrows, ConsumerTypeOK
<1>3. PaymentInv' /\ OrdersKept'
  BY PaymentStepKeeps DEF PaymentStep, TopicGrows, ConsumerInv
<1>4. ASSUME NEW c \in Consumers PROVE HandlerOK(c)'
  BY <1>1, <1>4 DEF ConsumerInv, HandlerOK, PlanFits, CommandFits, OnPayment, Busy
<1>5. \A i \in 1..Len(topic) : Settled(i) => Settled(i)'
  BY <1>1 DEF TopicGrows, Settled, Decided, PaymentsOf
<1>6. CommitsOK'
  BY <1>1, <1>5, Offsets DEF TopicGrows, CommitsOK
<1> QED BY <1>2, <1>3, <1>4, <1>6 DEF ConsumerInv

LEMMA GrowthKeepsCounts == CountsInv /\ TopicGrows => CountsInv'
<1> SUFFICES ASSUME CountsInv, TopicGrows PROVE CountsInv'
  OBVIOUS
<1>1. /\ ConsumerInv /\ ConsumerTypeOK /\ ConsumerInv'
      /\ \A c \in Consumers : msg[c] # 0 => Message(c)' = Message(c)
      /\ UNCHANGED <<payments, job, pc, msg, stage, plan, attempt, owner, handovers>>
  BY GrowthKeepsMessages, GrowthKeepsConsumerInv DEF CountsInv, ConsumerInv, TopicGrows
<1>2. CommandsHaveHandlers' /\ SupersededCounted'
  BY <1>1 DEF CountsInv, CommandsHaveHandlers, SupersededCounted, Superseded, Running
<1>3. ASSUME NEW o \in Orders PROVE PaymentsCounted(o)'
  <2>1. \A c \in Consumers : stage[c] = "issuing" => msg[c] # 0
    BY <1>1, Planned DEF Busy
  <2>2. /\ PaymentsOf(o)' = PaymentsOf(o)
        /\ RequestsDoing("create", o)' = RequestsDoing("create", o)
        /\ Creators(o)' = Creators(o)
    BY <1>1, <2>1 DEF PaymentsOf, RequestsDoing, Creators, Creates, Creating
  <2> QED BY <1>1, <2>2 DEF CountsInv, PaymentsCounted
<1> QED BY <1>1, <1>2, <1>3 DEF CountsInv

LEMMA GrowthKeepsAsked == ConsumerInv /\ AskedInv /\ TopicGrows => AskedInv'
<1> SUFFICES ASSUME ConsumerInv, AskedInv, TopicGrows PROVE AskedInv'
  OBVIOUS
<1>1. /\ Len(topic) \in Nat /\ Len(topic') \in Nat /\ 1..Len(topic) \subseteq 1..Len(topic')
      /\ \A c \in Consumers : msg[c] # 0 => Message(c)' = Message(c)
      /\ UNCHANGED <<payments, job, pc, msg, stage, plan, attempt>>
  BY GrowthKeepsMessages DEF ConsumerInv
<1>2. \A name, o : InTopic(name, o) => InTopic(name, o)'
  BY <1>1 DEF InTopic, TopicGrows
<1>3. \A o : /\ PlacedAsked(o) => PlacedAsked(o)'
             /\ CancelAsked(o) => CancelAsked(o)'
  BY <1>1, <1>2 DEF PlacedAsked, CancelAsked, RequestsDoing
<1>4. PaymentsAskedFor'
  BY <1>1, <1>3 DEF AskedInv, PaymentsAskedFor, Stored
<1>5. \A op, o : AskedFor(op, o) => AskedFor(op, o)'
  BY <1>3 DEF AskedFor
<1>6. CommandsAskedFor'
  BY <1>1, <1>5 DEF AskedInv, CommandsAskedFor
<1>7. ASSUME NEW c \in Consumers PROVE PlanAsked(c)'
  <2>1. stage[c] = "issuing" => msg[c] # 0
    BY Planned DEF Busy
  <2> QED BY <1>1, <1>5, <2>1 DEF AskedInv, PlanAsked
<1> QED BY <1>4, <1>6, <1>7 DEF AskedInv

LEMMA GrowthKeepsQuiet == CountsInv /\ QuietInv /\ TopicGrows => QuietInv'
<1> SUFFICES ASSUME CountsInv, QuietInv, TopicGrows, Quiet' PROVE QuietHandler(owner)' /\ CancelsOK'
  BY DEF QuietInv
<1>1. /\ ConsumerInv /\ ConsumerTypeOK
      /\ Len(topic) \in Nat /\ Len(topic') \in Nat /\ 1..Len(topic) \subseteq 1..Len(topic')
      /\ \A c \in Consumers : msg[c] # 0 => Message(c)' = Message(c)
      /\ UNCHANGED <<payments, job, pc, msg, stage, plan, attempt, owner, lost, handovers, offset, position>>
      /\ owner \in Consumers
  BY GrowthKeepsMessages DEF CountsInv, ConsumerInv, ConsumerTypeOK, TopicGrows
<1>2. Quiet
  BY <1>1 DEF Quiet
<1>3. QuietHandler(owner)'
  <2>1. stage[owner] \in Busy => msg[owner] # 0
    BY <1>1, Planned
  <2>2. /\ "issuing" \in Busy
        /\ \A o : PaymentsOf(o)' = PaymentsOf(o)
        /\ \A o : Creates(owner, o)' <=> Creates(owner, o)
    BY <1>1, <2>1 DEF Busy, PaymentsOf, Creates, Creating
  <2> QED BY <1>1, <1>2, <2>1, <2>2 DEF QuietInv, QuietHandler, StatusSeen
<1>4. \A i \in 1..Len(topic) : CancelSettled(i) => CancelSettled(i)'
  BY <1>1 DEF TopicGrows, CancelSettled, PlacedBefore, Closed, PaymentsOf
<1>5. CancelsOK'
  BY <1>1, <1>2, <1>4, Offsets DEF QuietInv, CancelsOK
<1> QED BY <1>3, <1>5
=============================================================================
