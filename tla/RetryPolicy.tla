----------------------------- MODULE RetryPolicy -----------------------------
(***************************************************************************)
(* RetryPolicy.Do of shared/resilience: run an operation again after an    *)
(* error, with a wait between attempts that doubles up to MaxBackoff and   *)
(* is then spread by Jitter.  The consumer of order events and the payment *)
(* provider's client run it with policies from the environment, which may  *)
(* say anything.                                                           *)
(*                                                                         *)
(* Times are in milliseconds and Jitter in percent; the int64 arithmetic   *)
(* of time.Duration is far from its limits for any backoff below a         *)
(* century.  Mutant... operators are not part of the specification: each   *)
(* is a definition as a plausible mistake would have it.                   *)
(***************************************************************************)
EXTENDS Integers

CONSTANTS
    Configs      \* the policies NewRetryPolicy is given

Raw == [maxAttempts : Int, initial : Int, max : Int, jitter : Int, picky : BOOLEAN]

\* picky: the policy comes with an IsRetryable that says no to some errors.
ASSUME ConfigsAssumption == Configs \subseteq Raw

VARIABLES
    config,      \* the policy as it was given; never changes
    policy,      \* the policy as Do normalised it; never changes
    attempt,     \* the attempt being made, or just made
    slept,       \* the wait before this attempt, 0 before the first
    last,        \* what the last operation returned: Results, or "none"
    pc           \* running the operation, sleeping, or how Do ended

rigid == <<config, policy>>
vars == <<rigid, attempt, slept, last, pc>>

Results == {"ok", "retryable", "permanent"}

TypeOK ==
    /\ config \in Raw /\ policy \in Raw
    /\ attempt \in Nat \ {0}
    /\ slept \in Nat
    /\ last \in Results \cup {"none"}
    /\ pc \in {"running", "sleeping", "ok", "error", "cancelled"}

MutantPositiveNotOne(n, default) == IF n <= 1 THEN default ELSE n

Positive(n, default) == IF n <= 0 THEN default ELSE n

\* NewRetryPolicy.
NewRetryPolicy(c) ==
    [maxAttempts |-> Positive(c.maxAttempts, 3),
     initial |-> Positive(c.initial, 100),
     max |-> Positive(c.max, 2000),
     jitter |-> IF c.jitter < 0 THEN 0 ELSE IF c.jitter > 100 THEN 100 ELSE c.jitter,
     picky |-> c.picky]

Init ==
    /\ config \in Configs
    /\ policy = NewRetryPolicy(config)
    /\ attempt = 1
    /\ slept = 0
    /\ last = "none"
    /\ pc = "running"
-----------------------------------------------------------------------------
MutantBackoffDoublesFirst(n) ==
    LET doubled[i \in 0..n] == IF i = 0 THEN policy.initial ELSE 2 * doubled[i - 1] IN
    IF doubled[n] > policy.max THEN policy.max ELSE doubled[n]

\* backoffForAttempt before the jitter: the loop, and the cap after it.
Backoff(n) ==
    LET delay[i \in 1..n] ==
            IF i = 1 THEN policy.initial
            ELSE IF 2 * delay[i - 1] >= policy.max THEN policy.max ELSE 2 * delay[i - 1]
    IN IF delay[n] > policy.max THEN policy.max ELSE delay[n]

\* What backoffForAttempt may return.
Waits(n) ==
    LET delay == Backoff(n)
        spread == (delay * policy.jitter) \div 100
    IN (delay - spread)..(delay + spread)

\* The context may be over before any attempt and during any sleep.
Cancelled ==
    /\ pc \in {"running", "sleeping"}
    /\ pc' = "cancelled"
    /\ UNCHANGED <<rigid, attempt, slept, last>>

IsRetryable(r) == r = "retryable" \/ (r = "permanent" /\ ~policy.picky)

MutantOperateRetriesAll(r) ==
    /\ pc = "running"
    /\ last' = r
    /\ pc' = IF r = "ok" THEN "ok"
             ELSE IF attempt < policy.maxAttempts THEN "sleeping"
             ELSE "error"
    /\ UNCHANGED <<rigid, attempt, slept>>

\* The operation returns, and Do with it unless there is a reason to retry.
Operate(r) ==
    /\ pc = "running"
    /\ last' = r
    /\ pc' = IF r = "ok" THEN "ok"
             ELSE IF IsRetryable(r) /\ attempt < policy.maxAttempts THEN "sleeping"
             ELSE "error"
    /\ UNCHANGED <<rigid, attempt, slept>>

Sleep ==
    /\ pc = "sleeping"
    /\ slept' \in Waits(attempt)
    /\ attempt' = attempt + 1
    /\ pc' = "running"
    /\ UNCHANGED <<rigid, last>>

Next == Cancelled \/ Sleep \/ \E r \in Results : Operate(r)

Spec == Init /\ [][Next]_vars
-----------------------------------------------------------------------------
\* What the configuration asks for, three where it asks for no number of attempts.
Asked == IF config.maxAttempts >= 1 THEN config.maxAttempts ELSE 3

(***************************************************************************)
(* docs/resilience.md, "bounded retries": the operation runs at most as    *)
(* often as the configuration says, or three times where it says zero or   *)
(* less.  Do has success for its answer only after a success, and an error *)
(* only after one that is not to be retried or after exactly that many     *)
(* attempts.  With its context cancelled it may end before the first.      *)
(***************************************************************************)
BoundedAttempts ==
    /\ attempt <= Asked
    /\ pc = "ok" => last = "ok"
    /\ pc = "error" =>
          \/ last = "permanent" /\ config.picky
          \/ last \in {"retryable", "permanent"} /\ attempt = Asked

\* x * 2^k.
Doubled(x, k) ==
    LET double[i \in 0..k] == IF i = 0 THEN x ELSE 2 * double[i - 1] IN double[k]

(***************************************************************************)
(* docs/resilience.md, "exponential backoff and jitter": the k-th wait     *)
(* is initial * 2^(k-1), or max where that is more, give or take its       *)
(* jitter.                                                                 *)
(***************************************************************************)
ExponentialBackoff ==
    attempt > 1 =>
        LET exact == Doubled(policy.initial, attempt - 2)
            delay == IF exact < policy.max THEN exact ELSE policy.max
        IN /\ 100 * (slept - delay) <= policy.jitter * delay
           /\ 100 * (delay - slept) <= policy.jitter * delay

(***************************************************************************)
(* An error that IsRetryable refuses is the answer at once, and one that   *)
(* it accepts only after the last attempt.                                 *)
(***************************************************************************)
RetriesJustified ==
    LET refused == last = "permanent" /\ policy.picky IN
    /\ pc = "error" => refused \/ attempt = policy.maxAttempts
    /\ pc = "sleeping" => ~refused /\ last # "ok"
=============================================================================
