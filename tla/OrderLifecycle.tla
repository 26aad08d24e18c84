--------------------------- MODULE OrderLifecycle ---------------------------
(***************************************************************************)
(* What the order context promises to its clients and to the services that *)
(* read its events, with no requests, no database round trips and no       *)
(* failures: the aggregate's state machine and the integration event that  *)
(* each transition leaves in the outbox in the same instant.               *)
(*                                                                         *)
(* Spec is the lifecycle the domain package enforces on one aggregate.     *)
(* OutboxSpec only promises that a stored status and its event appear      *)
(* together; it says nothing about which transitions are legal.            *)
(***************************************************************************)
EXTENDS Sequences

CONSTANTS Orders      \* the identifiers of the orders

VARIABLES
    orders,           \* the stored status of every order, "none" before it exists
    outbox            \* the integration events recorded so far, oldest first

lifecycleVars == <<orders, outbox>>

Event(o, name) == [order |-> o, name |-> name]

LifecycleInit ==
    /\ orders = [o \in Orders |-> "none"]
    /\ outbox = <<>>

(***************************************************************************)
(* Set order o to status st and record the given events with it.           *)
(***************************************************************************)
Store(o, st, events) ==
    /\ orders' = [orders EXCEPT ![o] = st]
    /\ outbox' = outbox \o events

Place(o) ==
    /\ orders[o] = "none"
    /\ Store(o, "placed", <<Event(o, "OrderPlaced")>>)

Confirm(o) ==
    /\ orders[o] = "placed"
    /\ Store(o, "confirmed", <<>>)

Cancel(o) ==
    /\ orders[o] = "placed"
    /\ Store(o, "cancelled", <<Event(o, "OrderCancelled")>>)

LifecycleNext == \E o \in Orders : Place(o) \/ Confirm(o) \/ Cancel(o)

Spec == LifecycleInit /\ [][LifecycleNext]_lifecycleVars

(***************************************************************************)
(* The weaker promise: a stored order may be overwritten by either         *)
(* decision, but never without that decision's event, and no event appears *)
(* without its write.                                                      *)
(***************************************************************************)
OutboxNext ==
    \E o \in Orders :
        \/ Place(o)
        \/ /\ orders[o] # "none"
           /\ \/ Store(o, "confirmed", <<>>)
              \/ Store(o, "cancelled", <<Event(o, "OrderCancelled")>>)

OutboxSpec == LifecycleInit /\ [][OutboxNext]_lifecycleVars
=============================================================================
