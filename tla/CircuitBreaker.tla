---------------------------- MODULE CircuitBreaker ----------------------------
(***************************************************************************)
(* The circuit breaker of shared/resilience: callers ask before a call     *)
(* whether it may go ahead and report its result afterwards.  A mutex      *)
(* makes each of the two atomic and is not held during the call, so a      *)
(* result may arrive in another state than the one its call began in.      *)
(*                                                                         *)
(* The clock is abstracted to what the code asks of it: whether            *)
(* OpenTimeout has passed since openedAt.  A call that is rejected with    *)
(* ErrCircuitOpen changes nothing and has no action.                       *)
(*                                                                         *)
(* The operators named Mutant... are not part of the specification: each   *)
(* is a definition as a plausible mistake would have it, and a property    *)
(* below fails when it takes the real one's place.                         *)
(***************************************************************************)
EXTENDS Integers, Sequences

CONSTANTS
    Calls,               \* the callers; each has one call at a time
    FailureThreshold,    \* PAYMENT_PROVIDER_CIRCUIT_FAILURE_THRESHOLD
    SuccessThreshold,    \* 1 in the payment service
    IgnoredErrors        \* whether IsFailure ever says no to an error

ASSUME ThresholdsAssumption ==
    FailureThreshold \in Nat \ {0} /\ SuccessThreshold \in Nat \ {0}
ASSUME IgnoredErrorsAssumption == IgnoredErrors \in BOOLEAN

VARIABLES
    state,               \* the circuit
    failures,            \* failures counted since the last success or setting of openedAt
    successes,           \* successes counted in half_open
    elapsed,             \* OpenTimeout has passed since openedAt
    running,             \* the calls between beforeCall and afterCall
    recent               \* history: the last results, and where probing began
                         \* ("armed": a failure that set openedAt)

breaker == <<state, failures, successes, elapsed>>
breakerVars == <<breaker, running, recent>>

CircuitStates == {"closed", "open", "half_open"}

\* How much of the history the properties look at.
Window == FailureThreshold + SuccessThreshold

Remarks == {"ok", "failure", "armed", "probing"}

TypeOK ==
    /\ state \in CircuitStates
    /\ failures \in 0..(FailureThreshold - 1)
    /\ successes \in 0..(SuccessThreshold - 1)
    /\ elapsed \in BOOLEAN
    /\ elapsed => state = "open"
    /\ running \subseteq Calls
    /\ recent \in Seq(Remarks)
    /\ Len(recent) <= Window

BreakerInit ==
    /\ state = "closed"
    /\ failures = 0
    /\ successes = 0
    /\ elapsed = FALSE
    /\ running = {}
    /\ recent = <<>>

Remember(r) ==
    LET longer == Append(recent, r) IN
    recent' = IF Len(longer) > Window THEN Tail(longer) ELSE longer

\* Time passes.
OpenTimeoutElapses ==
    /\ state = "open" /\ ~elapsed
    /\ elapsed' = TRUE
    /\ UNCHANGED <<state, failures, successes, running, recent>>

\* transitionOpenToHalfOpenLocked, which comes first in every method below.
TransitionOpenToHalfOpen ==
    IF state = "open" /\ elapsed
    THEN /\ state' = "half_open" /\ successes' = 0 /\ elapsed' = FALSE
         /\ Remember("probing")
    ELSE UNCHANGED <<state, successes, elapsed, recent>>

MutantBeforeCallNeverProbes(c) ==
    /\ c \notin running
    /\ state # "open"
    /\ running' = running \cup {c}
    /\ UNCHANGED <<breaker, recent>>

\* beforeCall lets the call go ahead; half_open does not limit how many.
BeforeCall(c) ==
    /\ c \notin running
    /\ state # "open" \/ elapsed
    /\ running' = running \cup {c}
    /\ TransitionOpenToHalfOpen
    /\ UNCHANGED failures

\* State() makes the same transition.
ReadState ==
    /\ state = "open" /\ elapsed
    /\ TransitionOpenToHalfOpen
    /\ UNCHANGED <<failures, running>>
-----------------------------------------------------------------------------
\* The circuit opens, or is open, and OpenTimeout begins to run (again).
Arm ==
    /\ Remember("armed")
    /\ state' = "open" /\ elapsed' = FALSE

CountFailure ==
    /\ Remember("failure")
    /\ failures' = failures + 1
    /\ UNCHANGED <<state, elapsed>>

MutantRecordFailureOneMore ==
    /\ successes' = 0
    /\ IF state = "half_open" \/ failures >= FailureThreshold
       THEN Arm /\ failures' = 0
       ELSE CountFailure

MutantRecordFailureKeepsCount ==
    /\ successes' = 0
    /\ IF state = "half_open" \/ failures + 1 >= FailureThreshold
       THEN Arm /\ failures' = failures
       ELSE CountFailure

(***************************************************************************)
(* recordFailureLocked.  In the open state it is the late result of a call *)
(* that began before: it counts, and enough of them set openedAt again.    *)
(***************************************************************************)
RecordFailure ==
    /\ successes' = 0
    /\ IF state = "half_open" \/ failures + 1 >= FailureThreshold
       THEN Arm /\ failures' = 0
       ELSE CountFailure

MutantRecordSuccessKeepsFailures ==
    /\ Remember("ok")
    /\ IF state # "half_open" THEN UNCHANGED <<state, failures, successes, elapsed>>
       ELSE /\ failures' = 0
            /\ IF successes + 1 >= SuccessThreshold
               THEN state' = "closed" /\ successes' = 0
               ELSE successes' = successes + 1 /\ UNCHANGED state
            /\ UNCHANGED elapsed

MutantRecordSuccessAnyState ==
    /\ Remember("ok")
    /\ failures' = 0
    /\ IF state = "closed" THEN UNCHANGED <<state, successes, elapsed>>
       ELSE /\ IF successes + 1 >= SuccessThreshold
               THEN state' = "closed" /\ successes' = 0
               ELSE successes' = successes + 1 /\ UNCHANGED state
            /\ elapsed' = FALSE

(***************************************************************************)
(* recordSuccessLocked.  It closes the circuit from half_open only, where  *)
(* it may also be a late result of a call that began before the opening.   *)
(***************************************************************************)
RecordSuccess ==
    /\ Remember("ok")
    /\ failures' = 0
    /\ IF state # "half_open" THEN UNCHANGED <<state, successes>>
       ELSE IF successes + 1 >= SuccessThreshold
            THEN state' = "closed" /\ successes' = 0
            ELSE successes' = successes + 1 /\ UNCHANGED state
    /\ UNCHANGED elapsed

Finish(c) == c \in running /\ running' = running \ {c}

\* afterCall, by what the operation returned.
AfterFailure(c) == Finish(c) /\ RecordFailure
AfterSuccess(c) == Finish(c) /\ RecordSuccess

\* An error that IsFailure does not count.
AfterIgnored(c) ==
    /\ IgnoredErrors
    /\ Finish(c)
    /\ UNCHANGED <<breaker, recent>>
-----------------------------------------------------------------------------
Return(c) == AfterFailure(c) \/ AfterSuccess(c) \/ AfterIgnored(c)

BreakerNext ==
    \/ OpenTimeoutElapses
    \/ ReadState
    \/ \E c \in Calls : BeforeCall(c) \/ Return(c)

BreakerSpec == BreakerInit /\ [][BreakerNext]_breakerVars

(***************************************************************************)
(* Time passes and calls return: their contexts have deadlines.  That the  *)
(* breaker goes on being called is no property of the code; Recovers is    *)
(* about a breaker that is.                                                *)
(***************************************************************************)
BreakerFairSpec ==
    /\ BreakerSpec
    /\ WF_breakerVars(OpenTimeoutElapses)
    /\ WF_breakerVars(\E c \in Calls : BeforeCall(c))
    /\ \A c \in Calls : WF_breakerVars(Return(c))
-----------------------------------------------------------------------------
EndsWith(s, n, r) == Len(s) >= n /\ \A i \in (Len(s) - n + 1)..Len(s) : s[i] = r

\* The last of n failures in a row set openedAt, and none of the others did.
ArmedByStreak(s, n) ==
    /\ Len(s) >= n /\ s[Len(s)] = "armed"
    /\ \A i \in (Len(s) - n + 1)..(Len(s) - 1) : s[i] = "failure"

(***************************************************************************)
(* One slow failure among working calls does not open a closed circuit,    *)
(* and neither do failures left over from before it was last open: only    *)
(* FailureThreshold failures in a row do, with no success between them.    *)
(***************************************************************************)
TripsOnStreak ==
    [][state = "closed" /\ state' = "open" =>
          ArmedByStreak(recent', FailureThreshold)]_breakerVars

(***************************************************************************)
(* The circuit closes after SuccessThreshold successes in a row, all of    *)
(* them reported since it last became half_open, whenever their calls      *)
(* began; results that arrive while it is open do not close it.            *)
(***************************************************************************)
ClosesOnStreak ==
    [][state # "closed" /\ state' = "closed" =>
          state = "half_open" /\ EndsWith(recent', SuccessThreshold, "ok")]_breakerVars

(***************************************************************************)
(* Calls that began before the circuit opened report into the open one.    *)
(* They put off its probing FailureThreshold failures at a time: openedAt  *)
(* is set again by so many in a row since it was last set, with no success *)
(* between them, by every such streak, and by nothing less, so an          *)
(* OpenTimeout that has passed has to pass again only then.                *)
(***************************************************************************)
RearmsOnStreak ==
    [][state = "open" =>
          /\ elapsed /\ ~elapsed' /\ state' = "open"
                => ArmedByStreak(recent', FailureThreshold)
          /\ ~EndsWith(recent', FailureThreshold, "failure")]_breakerVars

(***************************************************************************)
(* The circuit recovers with its provider: once calls stop failing it      *)
(* closes and stays closed, whatever failures were counted, and however    *)
(* often late results reopened it, before.                                 *)
(***************************************************************************)
Recovers ==
    <>[][\A c \in Calls : ~AfterFailure(c) /\ ~AfterIgnored(c)]_breakerVars
        => <>[](state = "closed")
=============================================================================
