---------------------------- MODULE ProviderClient ----------------------------
(***************************************************************************)
(* The HTTP client of the payment provider: http.Client with a deadline    *)
(* around the circuit breaker, the bulkhead and the retries, in that       *)
(* order.  A call is one Capture or Refund; it holds its slot of the       *)
(* bulkhead through all its attempts and the waits between them, and the   *)
(* breaker sees one result for all of them.                                *)
(*                                                                         *)
(* The deadline of a call may pass at any moment before its end.  What an  *)
(* attempt makes the provider do is decided when the attempt ends, though  *)
(* it may really happen later.  Mutant... operators are as in              *)
(* CircuitBreaker.                                                         *)
(***************************************************************************)
EXTENDS CircuitBreaker, FiniteSets

CONSTANTS
    MaxConcurrent,       \* PAYMENT_PROVIDER_HTTP_MAX_CONCURRENT
    Attempts             \* PAYMENT_PROVIDER_HTTP_RETRY_MAX_ATTEMPTS

ASSUME MaxConcurrentAssumption == MaxConcurrent \in Nat \ {0}
ASSUME AttemptsAssumption == Attempts \in Nat \ {0}

VARIABLES
    stage,               \* [Calls -> Stages]
    expired,             \* [Calls -> BOOLEAN]: the deadline has passed
    slots,               \* how many slots of the bulkhead are taken
    tries,               \* [Calls -> 0..Attempts]: attempts sent
    carried,             \* [Calls -> 0..Attempts]: attempts carried out
    lastErr              \* [Calls -> Errors]: what the last attempt failed with

clientVars == <<stage, expired, slots, tries, carried, lastErr>>
vars == <<breakerVars, clientVars>>

(***************************************************************************)
(* queued: waiting for a slot; trying: about to check the context and send *)
(* an attempt; sent: an attempt is on its way; waiting: between attempts.  *)
(***************************************************************************)
Stages == {"new", "queued", "trying", "sent", "waiting", "ok", "failed"}
Admitted == {"queued", "trying", "sent", "waiting"}
Holding == Admitted \ {"queued"}

\* status: a 429 or 5xx; network: no answer.
Errors == {"none", "status", "network"}

ClientTypeOK ==
    /\ TypeOK
    /\ stage \in [Calls -> Stages]
    /\ expired \in [Calls -> BOOLEAN]
    /\ slots \in 0..MaxConcurrent
    /\ tries \in [Calls -> 0..Attempts]
    /\ carried \in [Calls -> 0..Attempts]
    /\ lastErr \in [Calls -> Errors]

Init ==
    /\ BreakerInit
    /\ stage = [c \in Calls |-> "new"]
    /\ expired = [c \in Calls |-> FALSE]
    /\ slots = 0
    /\ tries = [c \in Calls |-> 0]
    /\ carried = [c \in Calls |-> 0]
    /\ lastErr = [c \in Calls |-> "none"]

GoTo(c, st) == stage' = [stage EXCEPT ![c] = st]

\* The deadline of http.Client, or the end of the caller's own context.
Expire(c) ==
    /\ stage[c] \notin {"ok", "failed"}
    /\ ~expired[c]
    /\ expired' = [expired EXCEPT ![c] = TRUE]
    /\ UNCHANGED <<breakerVars, stage, slots, tries, carried, lastErr>>

\* CircuitBreaker.Do goes on to the bulkhead.
Call(c) ==
    /\ stage[c] = "new" /\ ~expired[c]
    /\ BeforeCall(c)
    /\ GoTo(c, "queued")
    /\ UNCHANGED <<expired, slots, tries, carried, lastErr>>

\* It returns at once: the circuit is open, or the context is over already.
CallFailsFast(c) ==
    /\ stage[c] = "new"
    /\ expired[c] \/ (state = "open" /\ ~elapsed)
    /\ GoTo(c, "failed")
    /\ UNCHANGED <<breakerVars, expired, slots, tries, carried, lastErr>>

\* With its deadline passed too, select may still choose the slot.
TakeSlot(c) ==
    /\ stage[c] = "queued"
    /\ slots < MaxConcurrent
    /\ slots' = slots + 1
    /\ GoTo(c, "trying")
    /\ UNCHANGED <<breakerVars, expired, tries, carried, lastErr>>

\* The bulkhead was full for too long, which the breaker counts as a failure.
LeaveQueue(c) ==
    /\ stage[c] = "queued" /\ expired[c]
    /\ AfterFailure(c)
    /\ GoTo(c, "failed")
    /\ UNCHANGED <<expired, slots, tries, carried, lastErr>>
-----------------------------------------------------------------------------
Send(c) ==
    /\ stage[c] = "trying" /\ ~expired[c]
    /\ tries' = [tries EXCEPT ![c] = @ + 1]
    /\ GoTo(c, "sent")
    /\ UNCHANGED <<breakerVars, expired, slots, carried, lastErr>>

Carry(c, n) == carried' = [carried EXCEPT ![c] = @ + n]

\* A status that is not retryable ends the call well, as the breaker sees it.
ProviderDone(c) ==
    /\ stage[c] = "sent"
    /\ Carry(c, 1)
    /\ slots' = slots - 1
    /\ AfterSuccess(c)
    /\ GoTo(c, "ok")
    /\ UNCHANGED <<expired, tries, lastErr>>

MutantProviderDeclinesAccepted(c) ==
    /\ stage[c] = "sent"
    /\ slots' = slots - 1
    /\ AfterSuccess(c)
    /\ GoTo(c, "ok")
    /\ UNCHANGED <<expired, tries, carried, lastErr>>

\* The provider declines, with a 4xx that HTTPPaymentProvider makes an error.
ProviderDeclines(c) ==
    /\ stage[c] = "sent"
    /\ slots' = slots - 1
    /\ AfterSuccess(c)
    /\ GoTo(c, "failed")
    /\ UNCHANGED <<expired, tries, carried, lastErr>>

MutantGiveUpKeepsSlot(c) ==
    /\ UNCHANGED slots
    /\ AfterFailure(c)
    /\ GoTo(c, "failed")

\* The retry policy gives up: the slot is free and the breaker is told.
GiveUp(c) ==
    /\ slots' = slots - 1
    /\ AfterFailure(c)
    /\ GoTo(c, "failed")

MutantAttemptFailsOnceMore(c, error) ==
    /\ stage[c] = "sent"
    /\ expired[c] => error = "network"
    /\ \E n \in {0, 1} : Carry(c, n)
    /\ lastErr' = [lastErr EXCEPT ![c] = error]
    /\ \/ /\ tries[c] <= Attempts
          /\ GoTo(c, "waiting")
          /\ UNCHANGED <<breakerVars, slots>>
       \/ /\ tries[c] > Attempts
          /\ GiveUp(c)
    /\ UNCHANGED <<expired, tries>>

(***************************************************************************)
(* The attempt ends in an error: a 429 or 5xx, or no answer at all, which  *)
(* is how it always ends once the deadline has passed.  In either case the *)
(* provider may have carried it out.  NewRetryPolicy has filled in an      *)
(* IsRetryable that is true of every error by the time                     *)
(* NewRetryRoundTripper looks for one, so both are retried.                *)
(***************************************************************************)
AttemptFails(c, error) ==
    /\ stage[c] = "sent"
    /\ expired[c] => error = "network"
    /\ \E n \in {0, 1} : Carry(c, n)
    /\ lastErr' = [lastErr EXCEPT ![c] = error]
    /\ \/ /\ tries[c] < Attempts
          /\ GoTo(c, "waiting")
          /\ UNCHANGED <<breakerVars, slots>>
       \/ /\ tries[c] = Attempts
          /\ GiveUp(c)
    /\ UNCHANGED <<expired, tries>>

\* The backoff is over.
Wake(c) ==
    /\ stage[c] = "waiting" /\ ~expired[c]
    /\ GoTo(c, "trying")
    /\ UNCHANGED <<breakerVars, expired, slots, tries, carried, lastErr>>

\* The context is over, seen before an attempt or during a backoff.
Stop(c) ==
    /\ stage[c] \in {"trying", "waiting"} /\ expired[c]
    /\ GiveUp(c)
    /\ UNCHANGED <<expired, tries, carried, lastErr>>
-----------------------------------------------------------------------------
MutantClientStepNoContext(c) ==
    \/ Call(c)
    \/ CallFailsFast(c)
    \/ TakeSlot(c)
    \/ LeaveQueue(c)
    \/ Send(c)
    \/ Wake(c)
    \/ Stop(c)

\* What the client does without the provider.
ClientStep(c) ==
    \/ Call(c)
    \/ CallFailsFast(c)
    \/ TakeSlot(c)
    \/ LeaveQueue(c)
    \/ Send(c)
    \/ Wake(c)
    \/ Stop(c)
    \/ expired[c] /\ AttemptFails(c, "network")

ProviderAnswers(c) ==
    \/ ProviderDone(c)
    \/ ProviderDeclines(c)
    \/ \E error \in {"status", "network"} : AttemptFails(c, error)

Next ==
    \/ OpenTimeoutElapses /\ UNCHANGED clientVars
    \/ \E c \in Calls : Expire(c) \/ ClientStep(c) \/ ProviderAnswers(c)

Spec == Init /\ [][Next]_vars

(***************************************************************************)
(* Goroutines run and timers fire.  The provider owes nobody an answer.    *)
(***************************************************************************)
FairSpec ==
    /\ Spec
    /\ \A c \in Calls : WF_vars(ClientStep(c)) /\ WF_vars(Expire(c))
-----------------------------------------------------------------------------
(***************************************************************************)
(* On every path out of a call, and there are six, its slot is given back  *)
(* and the breaker is told once, so neither leaks: the slots taken are     *)
(* those of the calls past the queue, and the breaker counts as running    *)
(* the calls it let in.                                                    *)
(***************************************************************************)
NothingLeaks ==
    /\ slots = Cardinality({c \in Calls : stage[c] \in Holding})
    /\ running = {c \in Calls : stage[c] \in Admitted}

Promise == INSTANCE ProviderCall WITH
               answer <- [c \in Calls |-> IF stage[c] \in {"ok", "failed"}
                                          THEN stage[c] ELSE "none"]

(***************************************************************************)
(* Every call ends as PaymentService assumes it does: one that succeeds    *)
(* was carried out, and none is carried out more than Attempts times.      *)
(***************************************************************************)
ImplementsProviderCall == Promise!Spec

(***************************************************************************)
(* Every call returns, with a provider that never answers, with a full     *)
(* bulkhead and with an open circuit: no slot is waited for beyond the     *)
(* deadline.                                                               *)
(***************************************************************************)
EveryCallReturns == \A c \in Calls : <>(stage[c] \in {"ok", "failed"})

(***************************************************************************)
(* docs/resilience.md: "Retryable HTTP provider failures are 429 and 5xx;  *)
(* network errors also count as failures", which is what                   *)
(* isHTTPRetryableError says too.  A POST that may have reached the        *)
(* provider is not sent again after a network error.                       *)
(***************************************************************************)
RetriesStatusesOnly ==
    [][\A c \in Calls :
          stage[c] = "trying" /\ stage'[c] = "sent" => lastErr[c] # "network"]_vars
=============================================================================
