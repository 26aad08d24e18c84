--------------------------- MODULE PaymentService ---------------------------
(***************************************************************************)
(* The payment service: commands that load a payment, let the aggregate    *)
(* decide, call the payment provider where money moves, and save the whole *)
(* row with its outbox events in one transaction.                          *)
(*                                                                         *)
(* A command is issued by a caller, an HTTP request or the consumer of     *)
(* order events.  It takes a step to load and decide, a step for the call  *)
(* to the provider (MarkPaid and Refund only) and a step to save; nothing  *)
(* holds a lock in between and the row has no version.  The provider is    *)
(* outside the transaction and outside the service: what it was made to do *)
(* stays done.                                                             *)
(*                                                                         *)
(* The operators named Mutant... are not part of the specification: each   *)
(* is a definition as a plausible mistake would have it, and a property    *)
(* below fails when it takes the real one's place.                         *)
(***************************************************************************)
EXTENDS Integers, Sequences, FiniteSets

CONSTANTS
    Payments,      \* payment identifiers: each one is the uuid of one NewPayment
    Orders,        \* order identifiers
    Callers,       \* what issues commands: requests, and the consumer
    Reasons,       \* failure reasons that are not blank
    Attempts,      \* PAYMENT_PROVIDER_HTTP_RETRY_MAX_ATTEMPTS
    Concurrent     \* FALSE: a command starts only when no other is running

ASSUME AttemptsAssumption == Attempts \in Nat \ {0}
ASSUME ConcurrentAssumption == Concurrent \in BOOLEAN
ASSUME NoReasonAssumption == "none" \notin Reasons
ASSUME NoOrderAssumption == "none" \notin Orders

VARIABLES
    payments,      \* [Payments -> Rows]: the payments table
    created,       \* payments by created_at, the start of the inserting transaction
    outbox,        \* the payment_outbox table: a sequence of [payment, name]
    captures,      \* [Payments -> Nat]: captures the provider has carried out
    refunds,       \* [Payments -> Nat]: refunds the provider has carried out
    job,           \* [Callers -> Jobs]: the command and the aggregate in memory
    pc             \* [Callers -> PCs]: how far the command has come

tables == <<payments, created, outbox>>
ledger == <<captures, refunds>>
vars == <<payments, created, outbox, captures, refunds, job, pc>>

Statuses == {"pending", "paid", "failed", "refunded"}
Events == {"PaymentConfirmed", "PaymentFailed", "PaymentRefunded"}
Ops == {"create", "paid", "failed", "refund"}

NoRow == [order |-> "none", status |-> "none", reason |-> "none", paidAt |-> FALSE]

Rows == [order : Orders, status : Statuses, reason : Reasons \cup {"none"}, paidAt : BOOLEAN]

(***************************************************************************)
(* A command, and the aggregate as it is to be saved: status and reason    *)
(* after the decision, and the integration event it recorded, if any.  A   *)
(* decision records at most one.                                           *)
(***************************************************************************)
Jobs == [op : Ops, payment : Payments, order : Orders, status : Statuses,
         reason : Reasons \cup {"none"}, event : Events \cup {"none"}]

NoJob == [op |-> "none"]

PCs == {"idle", "calling", "saving", "ok", "refused", "failed"}

TypeOK ==
    /\ payments \in [Payments -> Rows \cup {NoRow}]
    /\ created \in Seq(Payments)
    /\ outbox \in Seq([payment : Payments, name : Events])
    /\ captures \in [Payments -> Nat]
    /\ refunds \in [Payments -> Nat]
    /\ job \in [Callers -> Jobs \cup {NoJob}]
    /\ pc \in [Callers -> PCs]

Init ==
    /\ payments = [p \in Payments |-> NoRow]
    /\ created = <<>>
    /\ outbox = <<>>
    /\ captures = [p \in Payments |-> 0]
    /\ refunds = [p \in Payments |-> 0]
    /\ job = [c \in Callers |-> NoJob]
    /\ pc = [c \in Callers |-> "idle"]

Stored(p) == payments[p] # NoRow
-----------------------------------------------------------------------------
(***************************************************************************)
(* Loading and deciding.                                                   *)
(***************************************************************************)
Running(c) == pc[c] \in {"calling", "saving"}

Idle(c) ==
    /\ pc[c] = "idle"
    /\ Concurrent \/ \A d \in Callers : ~Running(d)

Decide(c, j, next) ==
    /\ Idle(c)
    /\ job' = [job EXCEPT ![c] = j]
    /\ pc' = [pc EXCEPT ![c] = next]
    /\ UNCHANGED <<tables, ledger>>

\* The aggregate that payment p's row gives, after it took status st.
Loaded(op, p, st, reason, event) ==
    [op |-> op, payment |-> p, order |-> payments[p].order, status |-> st,
     reason |-> reason, event |-> event]

\* uuid.NewString never returns an identifier that another payment has.
FreshId(p) == \A i \in 1..Len(created) : created[i] # p

(***************************************************************************)
(* NewPayment accepts the input, and the transaction that will insert the  *)
(* row begins; PaymentInitiated is internal.                               *)
(***************************************************************************)
Create(c, p, o) ==
    /\ FreshId(p)
    /\ Idle(c)
    /\ job' = [job EXCEPT ![c] = [op |-> "create", payment |-> p, order |-> o,
                                 status |-> "pending", reason |-> "none", event |-> "none"]]
    /\ pc' = [pc EXCEPT ![c] = "saving"]
    /\ created' = Append(created, p)
    /\ UNCHANGED <<payments, outbox, ledger>>

(***************************************************************************)
(* A paid payment is accepted again, with no event, and the provider is    *)
(* called all the same.                                                    *)
(***************************************************************************)
MarkPaid(c, p) ==
    \/ /\ payments[p].status = "pending"
       /\ Decide(c, Loaded("paid", p, "paid", "none", "PaymentConfirmed"), "calling")
    \/ /\ payments[p].status = "paid"
       /\ Decide(c, Loaded("paid", p, "paid", payments[p].reason, "none"), "calling")

MutantMarkFailedNoReason(c, p, reason) ==
    /\ payments[p].status = "pending"
    /\ Decide(c, Loaded("failed", p, "failed", "none", "PaymentFailed"), "saving")

\* A failed payment is accepted again with the reason it has.
MarkFailed(c, p, reason) ==
    \/ /\ payments[p].status = "pending"
       /\ Decide(c, Loaded("failed", p, "failed", reason, "PaymentFailed"), "saving")
    \/ /\ payments[p].status = "failed" /\ payments[p].reason = reason
       /\ Decide(c, Loaded("failed", p, "failed", reason, "none"), "saving")

\* A refunded payment is accepted again, and the provider is called again.
Refund(c, p) ==
    \/ /\ payments[p].status = "paid"
       /\ Decide(c, Loaded("refund", p, "refunded", payments[p].reason, "PaymentRefunded"), "calling")
    \/ /\ payments[p].status = "refunded"
       /\ Decide(c, Loaded("refund", p, "refunded", payments[p].reason, "none"), "calling")

(***************************************************************************)
(* A command that changes nothing: invalid input, an unknown payment, a    *)
(* refused transition or a failed read.                                    *)
(***************************************************************************)
Refuse(c) == Decide(c, NoJob, "refused")
-----------------------------------------------------------------------------
(***************************************************************************)
(* The call to the provider.  The client sends a capture or a refund up to *)
(* Attempts times, because an attempt whose answer is lost is retried, and *)
(* the provider carries out n of them.                                     *)
(***************************************************************************)
CarryOut(c, n) ==
    LET p == job[c].payment IN
    IF job[c].op = "paid"
    THEN captures' = [captures EXCEPT ![p] = @ + n] /\ UNCHANGED refunds
    ELSE refunds' = [refunds EXCEPT ![p] = @ + n] /\ UNCHANGED captures

ProviderAccepts(c) ==
    /\ pc[c] = "calling"
    /\ \E n \in 1..Attempts : CarryOut(c, n)
    /\ pc' = [pc EXCEPT ![c] = "saving"]
    /\ UNCHANGED <<tables, job>>

MutantProviderFailsIgnored(c) ==
    /\ pc[c] = "calling"
    /\ pc' = [pc EXCEPT ![c] = "saving"]
    /\ UNCHANGED <<tables, ledger, job>>

MutantProviderFailsAnsweredOk(c) ==
    /\ pc[c] = "calling"
    /\ \E n \in 0..Attempts : CarryOut(c, n)
    /\ pc' = [pc EXCEPT ![c] = "ok"]
    /\ UNCHANGED <<tables, job>>

(***************************************************************************)
(* The call returns an error: a status that is not 2xx, an open circuit,   *)
(* or no answer in time, by which the provider may have done its part.     *)
(***************************************************************************)
ProviderFails(c) ==
    /\ pc[c] = "calling"
    /\ \E n \in 0..Attempts : CarryOut(c, n)
    /\ pc' = [pc EXCEPT ![c] = "failed"]
    /\ UNCHANGED <<tables, job>>
-----------------------------------------------------------------------------
(***************************************************************************)
(* Saving.  upsertPayment overwrites every column with the aggregate's,    *)
(* except paid_at, which the first update to paid sets for good.           *)
(***************************************************************************)
MutantRowAfterPaidAtInserted(j) ==
    [order |-> j.order, status |-> j.status, reason |-> j.reason, paidAt |-> j.status = "paid"]

RowAfter(j) ==
    [order |-> j.order, status |-> j.status, reason |-> j.reason,
     paidAt |-> Stored(j.payment) /\ (payments[j.payment].paidAt \/ j.status = "paid")]

MutantEventsOfInitiated(j) ==
    IF j.op = "create" THEN <<[payment |-> j.payment, name |-> "PaymentInitiated"]>>
    ELSE IF j.event = "none" THEN <<>> ELSE <<[payment |-> j.payment, name |-> j.event]>>

EventsOf(j) ==
    IF j.event = "none" THEN <<>> ELSE <<[payment |-> j.payment, name |-> j.event]>>

MutantSaveTransactionInsertOnly(j) ==
    /\ payments' = IF Stored(j.payment) THEN payments
                   ELSE [payments EXCEPT ![j.payment] = RowAfter(j)]
    /\ outbox' = outbox \o EventsOf(j)
    /\ UNCHANGED created

SaveTransaction(j) ==
    /\ payments' = [payments EXCEPT ![j.payment] = RowAfter(j)]
    /\ outbox' = outbox \o EventsOf(j)
    /\ UNCHANGED created

Save(c) ==
    /\ pc[c] = "saving"
    /\ SaveTransaction(job[c])
    /\ pc' = [pc EXCEPT ![c] = "ok"]
    /\ UNCHANGED <<ledger, job>>

\* The payments by created_at had p never been inserted.
Without(p) ==
    LET k == CHOOSE i \in 1..Len(created) : created[i] = p
    IN  SubSeq(created, 1, k - 1) \o SubSeq(created, k + 1, Len(created))

(***************************************************************************)
(* The transaction rolls back.  Of a Create nothing remains, so its        *)
(* identifier is as good as one never given.                               *)
(***************************************************************************)
SaveFails(c) ==
    /\ pc[c] = "saving"
    /\ pc' = [pc EXCEPT ![c] = "failed"]
    /\ created' = IF job[c].op = "create" THEN Without(job[c].payment) ELSE created
    /\ UNCHANGED <<payments, outbox, ledger, job>>

\* It commits, but the caller gets an error or has been told 503 already.
SaveAnswerLost(c) ==
    /\ pc[c] = "saving"
    /\ SaveTransaction(job[c])
    /\ pc' = [pc EXCEPT ![c] = "failed"]
    /\ UNCHANGED <<ledger, job>>
-----------------------------------------------------------------------------
Command(c) ==
    \E p \in Payments :
        \/ \E o \in Orders : Create(c, p, o)
        \/ MarkPaid(c, p)
        \/ \E reason \in Reasons : MarkFailed(c, p, reason)
        \/ Refund(c, p)

Progress(c) ==
    \/ ProviderAccepts(c)
    \/ ProviderFails(c)
    \/ Save(c)
    \/ SaveFails(c)
    \/ SaveAnswerLost(c)

Next == \E c \in Callers : Command(c) \/ Refuse(c) \/ Progress(c)

Spec == Init /\ [][Next]_vars
-----------------------------------------------------------------------------
Emitted(p, name) == \E i \in 1..Len(outbox) : outbox[i] = [payment |-> p, name |-> name]

(***************************************************************************)
(* Every row can be loaded again: ReconstructPayment refuses a failed      *)
(* payment with no reason and any other with one, and no overlap of saves  *)
(* leaves such a mixture.                                                  *)
(***************************************************************************)
RowsReconstruct ==
    \A p \in Payments : payments[p].status = "failed" <=> payments[p].reason # "none"

(***************************************************************************)
(* The outbox tells the whole story of a row: paid_at is set exactly when  *)
(* PaymentConfirmed has been recorded, and the status a row has now was    *)
(* announced, whatever stale saves overwrote in between.                   *)
(***************************************************************************)
OutboxTellsStatus ==
    \A p \in Payments :
        /\ payments[p].paidAt <=> Emitted(p, "PaymentConfirmed")
        /\ payments[p].status \in {"paid", "refunded"} => payments[p].paidAt
        /\ payments[p].status = "failed" => Emitted(p, "PaymentFailed")
        /\ payments[p].status = "refunded" => Emitted(p, "PaymentRefunded")

(***************************************************************************)
(* No event without the money: PaymentConfirmed is recorded only after the *)
(* provider captured, PaymentRefunded only after it refunded a payment it  *)
(* had captured.                                                           *)
(***************************************************************************)
MoneyBehindEvents ==
    \A p \in Payments :
        /\ Emitted(p, "PaymentConfirmed") => captures[p] > 0
        /\ Emitted(p, "PaymentRefunded") => refunds[p] > 0 /\ Emitted(p, "PaymentConfirmed")

(***************************************************************************)
(* No money without a caller who knows: if the provider captured or        *)
(* refunded and no event says so, a command to do it is still running or   *)
(* was answered with an error.                                             *)
(***************************************************************************)
SilentMoneyWasReported ==
    \A p \in Payments :
        /\ captures[p] > 0 /\ ~Emitted(p, "PaymentConfirmed") =>
             \E c \in Callers :
                 /\ job[c] # NoJob /\ job[c].op = "paid" /\ job[c].payment = p
                 /\ pc[c] # "ok"
        /\ refunds[p] > 0 /\ ~Emitted(p, "PaymentRefunded") =>
             \E c \in Callers :
                 /\ job[c] # NoJob /\ job[c].op = "refund" /\ job[c].payment = p
                 /\ pc[c] # "ok"

Lifecycle == INSTANCE PaymentLifecycle WITH
                 status <- [p \in Payments |-> payments[p].status]

(***************************************************************************)
(* With commands run one at a time, the service implements the payment     *)
(* lifecycle: repeated commands, failed calls and lost answers change      *)
(* neither a status nor the outbox.                                        *)
(***************************************************************************)
ImplementsLifecycle == Lifecycle!Spec

(***************************************************************************)
(* docs/payment-business-rules.md, "Forbidden transitions": any transition *)
(* out of failed.                                                          *)
(***************************************************************************)
FailedIsFinal ==
    [][\A p \in Payments :
          payments[p].status = "failed" => payments'[p].status = "failed"]_vars

(***************************************************************************)
(* docs/payment-business-rules.md, "Forbidden transitions": marking paid   *)
(* more than once.  A MarkPaid that starts when the payment is paid does   *)
(* not end in success.                                                     *)
(***************************************************************************)
PaidOnlyOnce ==
    [][\A c \in Callers :
          pc[c] = "saving" /\ pc'[c] = "ok" /\ job[c].op = "paid"
              => job[c].event = "PaymentConfirmed"]_vars
=============================================================================
