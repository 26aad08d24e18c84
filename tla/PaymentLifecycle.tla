--------------------------- MODULE PaymentLifecycle ---------------------------
(***************************************************************************)
(* What the payment context promises of one payment: the status changes of *)
(* the domain package, each with its integration event in the same instant *)
(* and none of them twice.                                                 *)
(***************************************************************************)
EXTENDS Sequences

CONSTANTS Payments    \* the identifiers of the payments

VARIABLES
    status,           \* the status of every payment, "none" before it exists
    outbox            \* the integration events recorded so far, oldest first

lifecycleVars == <<status, outbox>>

LifecycleInit ==
    /\ status = [p \in Payments |-> "none"]
    /\ outbox = <<>>

\* PaymentInitiated is internal: creating a payment records no event.
Create(p) ==
    /\ status[p] = "none"
    /\ status' = [status EXCEPT ![p] = "pending"]
    /\ UNCHANGED outbox

Change(p, from, to, event) ==
    /\ status[p] = from
    /\ status' = [status EXCEPT ![p] = to]
    /\ outbox' = Append(outbox, [payment |-> p, name |-> event])

LifecycleNext ==
    \E p \in Payments :
        \/ Create(p)
        \/ Change(p, "pending", "paid", "PaymentConfirmed")
        \/ Change(p, "pending", "failed", "PaymentFailed")
        \/ Change(p, "paid", "refunded", "PaymentRefunded")

Spec == LifecycleInit /\ [][LifecycleNext]_lifecycleVars
=============================================================================
