-------------------------- MODULE RetryPolicy_proofs --------------------------
(***************************************************************************)
(* Proofs about RetryPolicy.Do, for every policy the environment may give. *)
(***************************************************************************)
EXTENDS RetryPolicy, TLAPS, FiniteSetTheorems, WellFoundedInduction

(***************************************************************************)
(* A nonempty set of naturals has a least element, because the intervals   *)
(* 1..k are well-founded under strict inclusion.  What holds for every     *)
(* natural is shown by there being no least exception.                     *)
(***************************************************************************)
LEMMA LeastElement ==
    ASSUME NEW S \in SUBSET Nat, S # {}
    PROVE  \E m \in S : \A k \in S : m <= k
<1> DEFINE T == {1..k : k \in S}
<1>1. T \subseteq FiniteSubsetsOf(Nat)
  <2>1. SUFFICES ASSUME NEW k \in S PROVE 1..k \in FiniteSubsetsOf(Nat)
    OBVIOUS
  <2>2. 1 \in Int /\ k \in Int
    OBVIOUS
  <2>3. IsFiniteSet(1..k)
    BY <2>2, FS_Interval
  <2> QED BY <2>3 DEF FiniteSubsetsOf
<1>2. T # {}
  OBVIOUS
<1>3. PICK x \in T : \A y \in T : ~(<<y, x>> \in StrictSubsetOrdering(Nat))
  <2> HIDE DEF T
  <2>1. IsWellFoundedOn(StrictSubsetOrdering(Nat), FiniteSubsetsOf(Nat))
    BY FS_StrictSubsetOrderingWellFounded
  <2> QED BY <1>1, <1>2, <2>1, WFMin
<1>4. PICK m \in S : x = 1..m
  OBVIOUS
<1>5. ASSUME NEW k \in S, ~(m <= k) PROVE FALSE
  <2>1. 1..k \in T
    OBVIOUS
  <2>2. 1..k \subseteq 1..m /\ m \in 1..m /\ m \notin 1..k
    BY <1>5
  <2>3. 1..k \in SUBSET Nat /\ 1..m \in SUBSET Nat
    OBVIOUS
  <2>4. <<1..k, 1..m>> \in StrictSubsetOrdering(Nat)
    BY <2>2, <2>3 DEF StrictSubsetOrdering
  <2> QED BY <1>3, <1>4, <2>1, <2>4
<1> QED BY <1>5

LEMMA NoLeastException ==
    ASSUME NEW S \in SUBSET Nat, \A k \in S : \E j \in S : j < k
    PROVE  S = {}
<1>1. SUFFICES ASSUME S # {} PROVE FALSE
  OBVIOUS
<1>2. PICK m \in S : \A k \in S : m <= k
  BY <1>1, LeastElement
<1>3. PICK j \in S : j < m
  OBVIOUS
<1>4. m \in Nat /\ j \in Nat
  OBVIOUS
<1> QED BY <1>2, <1>3, <1>4

----------------------------------------------------------------------------
(***************************************************************************)
(* The loop of backoffForAttempt, and the doubling it is compared with:    *)
(* the functions that define them exist, one argument after the other.     *)
(***************************************************************************)
DelayUpTo(d, n, initial, max) ==
    d = [i \in 1..n |-> IF i = 1 THEN initial
                        ELSE IF 2 * d[i - 1] >= max THEN max ELSE 2 * d[i - 1]]

LEMMA DelaysExist ==
    ASSUME NEW n \in Nat, NEW initial, NEW max
    PROVE  \E d : DelayUpTo(d, n, initial, max)
<1> DEFINE S == {k \in Nat : ~ \E d : DelayUpTo(d, k, initial, max)}
<1>1. ASSUME NEW k \in S PROVE \E j \in S : j < k
  <2>1. k # 0
    <3>1. DelayUpTo([i \in 1..0 |-> 0], 0, initial, max)
      BY DEF DelayUpTo
    <3> QED BY <3>1
  <2>2. CASE k - 1 \notin S
    <3>1. k - 1 \in Nat
      BY <2>1
    <3>2. PICK d : DelayUpTo(d, k - 1, initial, max)
      BY <2>2, <3>1
    <3> DEFINE e == [i \in 1..k |-> IF i = 1 THEN initial
                                    ELSE IF 2 * d[i - 1] >= max THEN max ELSE 2 * d[i - 1]]
    <3>3. ASSUME NEW i \in 1..k, i # 1 PROVE e[i - 1] = d[i - 1]
      <4>1. i - 1 \in 1..(k - 1) /\ i - 1 \in 1..k
        BY <3>3
      <4>2. e[i - 1] = IF i - 1 = 1 THEN initial
                       ELSE IF 2 * d[i - 1 - 1] >= max THEN max ELSE 2 * d[i - 1 - 1]
        BY <4>1
      <4>3. d[i - 1] = IF i - 1 = 1 THEN initial
                       ELSE IF 2 * d[i - 1 - 1] >= max THEN max ELSE 2 * d[i - 1 - 1]
        BY <3>2, <4>1 DEF DelayUpTo
      <4> QED BY <4>2, <4>3
    <3>4. DelayUpTo(e, k, initial, max)
      BY <3>3 DEF DelayUpTo
    <3> QED BY <3>4
  <2> QED BY <2>1, <2>2
<1>2. S = {}
  <2>1. S \in SUBSET Nat
    OBVIOUS
  <2> HIDE DEF S
  <2> QED BY <1>1, <2>1, NoLeastException
<1> QED BY <1>2

LEMMA BackoffIsItsLoop ==
    ASSUME NEW n \in Nat
    PROVE  \E d : /\ DelayUpTo(d, n, policy.initial, policy.max)
                  /\ Backoff(n) = IF d[n] > policy.max THEN policy.max ELSE d[n]
<1> DEFINE delay == CHOOSE d : DelayUpTo(d, n, policy.initial, policy.max)
<1>1. DelayUpTo(delay, n, policy.initial, policy.max)
  BY DelaysExist
<1>2. Backoff(n) = IF delay[n] > policy.max THEN policy.max ELSE delay[n]
  BY DEF Backoff, DelayUpTo
<1> QED BY <1>1, <1>2

DoublesUpTo(f, k, x) == f = [i \in 0..k |-> IF i = 0 THEN x ELSE 2 * f[i - 1]]

LEMMA DoublesExist ==
    ASSUME NEW n \in Nat, NEW x
    PROVE  \E f : DoublesUpTo(f, n, x)
<1> DEFINE S == {k \in Nat : ~ \E f : DoublesUpTo(f, k, x)}
<1>1. ASSUME NEW k \in S PROVE \E j \in S : j < k
  <2>1. k # 0
    <3> DEFINE f == [i \in 0..0 |-> x]
    <3>1. DoublesUpTo(f, 0, x)
      BY DEF DoublesUpTo
    <3> HIDE DEF f
    <3> QED BY <3>1
  <2>2. CASE k - 1 \notin S
    <3>1. k - 1 \in Nat
      BY <2>1
    <3>2. PICK f : DoublesUpTo(f, k - 1, x)
      BY <2>2, <3>1
    <3> DEFINE g == [i \in 0..k |-> IF i = 0 THEN x ELSE 2 * f[i - 1]]
    <3>3. ASSUME NEW i \in 0..k, i # 0 PROVE g[i - 1] = f[i - 1]
      <4>1. i - 1 \in 0..(k - 1) /\ i - 1 \in 0..k
        BY <3>3
      <4>2. g[i - 1] = IF i - 1 = 0 THEN x ELSE 2 * f[i - 1 - 1]
        BY <4>1
      <4>3. f[i - 1] = IF i - 1 = 0 THEN x ELSE 2 * f[i - 1 - 1]
        BY <3>2, <4>1 DEF DoublesUpTo
      <4> QED BY <4>2, <4>3
    <3>4. DoublesUpTo(g, k, x)
      BY <3>3 DEF DoublesUpTo
    <3> QED BY <3>4
  <2> QED BY <2>1, <2>2
<1>2. S = {}
  <2>1. S \in SUBSET Nat
    OBVIOUS
  <2> HIDE DEF S
  <2> QED BY <1>1, <2>1, NoLeastException
<1> QED BY <1>2

LEMMA DoubledIsItsLoop ==
    ASSUME NEW k \in Nat, NEW x
    PROVE  \E f : DoublesUpTo(f, k, x) /\ Doubled(x, k) = f[k]
<1> DEFINE f == CHOOSE f : DoublesUpTo(f, k, x)
<1>1. DoublesUpTo(f, k, x)
  BY DoublesExist
<1>2. Doubled(x, k) = f[k]
  BY DEF Doubled, DoublesUpTo
<1> QED BY <1>1, <1>2

(***************************************************************************)
(* The loop stops doubling at max, and the cap after it changes nothing    *)
(* but a first delay beyond it: what comes out is the doubling, or max     *)
(* where that is more.                                                     *)
(***************************************************************************)
Normal == policy.initial \in Nat \ {0} /\ policy.max \in Nat \ {0}

Capped(x) == IF x < policy.max THEN x ELSE policy.max

LEMMA BackoffDoubles ==
    ASSUME Normal, NEW n \in Nat \ {0}
    PROVE  /\ Doubled(policy.initial, n - 1) \in Nat
           /\ Backoff(n) = Capped(Doubled(policy.initial, n - 1))
<1> DEFINE initial == policy.initial
           max == policy.max
<1>1. PICK d : /\ DelayUpTo(d, n, initial, max)
               /\ Backoff(n) = IF d[n] > max THEN max ELSE d[n]
  BY BackoffIsItsLoop
<1>2. PICK f : DoublesUpTo(f, n - 1, initial) /\ Doubled(initial, n - 1) = f[n - 1]
  BY DoubledIsItsLoop
<1>3. initial \in Nat \ {0} /\ max \in Nat \ {0}
  BY DEF Normal
<1> DEFINE Follows(i) == /\ f[i - 1] \in Nat /\ d[i] \in Nat
                         /\ i = 1 => d[i] = f[i - 1]
                         /\ i # 1 => d[i] = IF f[i - 1] < max THEN f[i - 1] ELSE max
           S == {k \in Nat : k \in 1..n /\ ~Follows(k)}
<1> HIDE DEF initial, max
<1>4. ASSUME NEW k \in S PROVE \E j \in S : j < k
  <2>1. k \in 1..n /\ k - 1 \in 0..(n - 1) /\ ~Follows(k)
    OBVIOUS
  <2>2. /\ d[k] = IF k = 1 THEN initial ELSE IF 2 * d[k - 1] >= max THEN max ELSE 2 * d[k - 1]
        /\ f[k - 1] = IF k - 1 = 0 THEN initial ELSE 2 * f[k - 1 - 1]
    BY <1>1, <1>2, <2>1 DEF DelayUpTo, DoublesUpTo
  <2>3. k # 1
    BY <1>3, <2>1, <2>2
  <2>4. k - 1 \in Nat /\ k - 1 \in 1..n /\ k - 1 < k
    BY <2>1, <2>3
  <2>5. ASSUME Follows(k - 1) PROVE FALSE
    <3>1. /\ f[k - 1 - 1] \in Nat /\ d[k - 1] \in Nat
          /\ d[k - 1] = f[k - 1 - 1] \/ d[k - 1] = IF f[k - 1 - 1] < max THEN f[k - 1 - 1] ELSE max
      BY <2>5
    <3>2. /\ d[k] = IF 2 * d[k - 1] >= max THEN max ELSE 2 * d[k - 1]
          /\ f[k - 1] = 2 * f[k - 1 - 1]
      BY <2>2, <2>3, <2>4
    <3>3. f[k - 1] \in Nat /\ d[k] \in Nat
      BY <1>3, <3>1, <3>2
    <3>4. d[k] = IF f[k - 1] < max THEN f[k - 1] ELSE max
      BY <1>3, <3>1, <3>2
    <3> QED BY <2>1, <2>3, <3>3, <3>4
  <2> QED BY <2>4, <2>5
<1>5. S = {}
  <2>1. S \in SUBSET Nat
    OBVIOUS
  <2> HIDE DEF S
  <2> QED BY <1>4, <2>1, NoLeastException
<1>6. Follows(n)
  BY <1>5
<1> QED BY <1>1, <1>2, <1>3, <1>6 DEF Capped, initial, max

----------------------------------------------------------------------------
(***************************************************************************)
(* The inductive invariant.  The policy is the given one made sense of, a  *)
(* sleep is followed by an attempt that is still allowed, and an answer    *)
(* comes from an operation that was run.                                   *)
(***************************************************************************)
PolicyInv ==
    /\ TypeOK
    /\ Normal
    /\ policy.picky = config.picky
    /\ policy.maxAttempts = Asked /\ Asked \in Nat \ {0} /\ policy.jitter \in 0..100
    /\ attempt <= policy.maxAttempts
    /\ pc = "sleeping" => attempt < policy.maxAttempts
    /\ pc = "ok" => last = "ok"
    /\ pc \in {"sleeping", "error"} => last \in {"retryable", "permanent"}
    /\ RetriesJustified

LEMMA InitPolicyInv == Init => PolicyInv
<1> SUFFICES ASSUME Init PROVE PolicyInv
  OBVIOUS
<1>1. config \in Raw /\ policy = NewRetryPolicy(config)
  BY ConfigsAssumption DEF Init
<1>2. /\ config.maxAttempts \in Int /\ config.initial \in Int /\ config.max \in Int
      /\ config.jitter \in Int /\ config.picky \in BOOLEAN
  BY <1>1 DEF Raw
<1>3. /\ policy \in Raw /\ policy.initial \in Nat \ {0} /\ policy.max \in Nat \ {0}
      /\ policy.jitter \in 0..100 /\ policy.picky = config.picky
  BY <1>1, <1>2 DEF NewRetryPolicy, Positive, Raw
<1>4. policy.maxAttempts = Asked /\ Asked \in Nat \ {0}
  BY <1>1, <1>2 DEF NewRetryPolicy, Positive, Asked
<1> QED BY <1>1, <1>3, <1>4 DEF Init, PolicyInv, TypeOK, Normal, RetriesJustified

LEMMA ProductBounds ==
    ASSUME NEW d \in Nat, NEW j \in 0..100
    PROVE  d * j = j * d /\ d * j \in Nat /\ d * j <= 100 * d
<1>1. d * (100 - j) >= 0 /\ d * (100 - j) = 100 * d - d * j
  OBVIOUS
<1> QED BY <1>1

\* A wait is the backoff give or take its share of jitter, and never negative.
LEMMA WaitsSpread ==
    ASSUME Normal, policy.jitter \in 0..100, NEW n \in Nat \ {0}, NEW w \in Waits(n)
    PROVE  LET delay == Capped(Doubled(policy.initial, n - 1)) IN
           /\ w \in Nat
           /\ 100 * (w - delay) <= policy.jitter * delay
           /\ 100 * (delay - w) <= policy.jitter * delay
<1> DEFINE delay == Backoff(n)
           spread == (delay * policy.jitter) \div 100
<1>1. delay = Capped(Doubled(policy.initial, n - 1)) /\ delay \in Nat
  BY BackoffDoubles DEF Capped, Normal
<1>2. PICK x \in Nat : x = delay * policy.jitter
  BY <1>1
<1>3. x = policy.jitter * delay /\ x <= 100 * delay
  <2> HIDE DEF delay
  <2> QED BY <1>1, <1>2, ProductBounds
<1>4. spread \in Nat /\ 100 * spread <= x /\ spread = x \div 100
  BY <1>2
<1>5. w \in (delay - spread)..(delay + spread)
  BY DEF Waits
<1> HIDE DEF delay, spread
<1>6. w \in Nat /\ 100 * (w - delay) <= x /\ 100 * (delay - w) <= x
  BY <1>1, <1>3, <1>4, <1>5
<1> QED BY <1>1, <1>3, <1>6

LEMMA NextKeepsPolicyInv == PolicyInv /\ [Next]_vars => PolicyInv'
<1> SUFFICES ASSUME PolicyInv, [Next]_vars PROVE PolicyInv'
  OBVIOUS
<1>1. /\ policy' = policy /\ config' = config /\ Asked' = Asked
      /\ TypeOK /\ attempt \in Nat \ {0} /\ policy.maxAttempts \in Nat \ {0}
  BY DEF Next, Cancelled, Sleep, Operate, vars, rigid, PolicyInv, TypeOK, Asked
<1>2. CASE Cancelled
  BY <1>1, <1>2 DEF Cancelled, PolicyInv, TypeOK, Normal, RetriesJustified
<1>3. CASE Sleep
  <2>1. slept' \in Nat
    <3>1. slept' \in Waits(attempt)
      BY <1>3 DEF Sleep
    <3> QED BY <1>1, <3>1, WaitsSpread DEF PolicyInv
  <2> QED BY <1>1, <1>3, <2>1 DEF Sleep, PolicyInv, TypeOK, Normal, RetriesJustified
<1>4. ASSUME NEW r \in Results, Operate(r) PROVE PolicyInv'
  <2>1. UNCHANGED <<policy, attempt, slept>> /\ last' = r /\ pc = "running"
    BY <1>4 DEF Operate, rigid
  <2>2. CASE r = "ok"
    <3>1. pc' = "ok"
      BY <1>4, <2>2 DEF Operate
    <3> QED BY <1>1, <2>1, <2>2, <3>1 DEF PolicyInv, TypeOK, Normal, RetriesJustified, Results
  <2>3. CASE r # "ok" /\ IsRetryable(r) /\ attempt < policy.maxAttempts
    <3>1. pc' = "sleeping"
      BY <1>4, <2>3 DEF Operate
    <3> QED BY <1>1, <2>1, <2>3, <3>1
            DEF PolicyInv, TypeOK, Normal, RetriesJustified, Results, IsRetryable
  <2>4. CASE r # "ok" /\ ~(IsRetryable(r) /\ attempt < policy.maxAttempts)
    <3>1. pc' = "error"
      BY <1>4, <2>4 DEF Operate
    <3> QED BY <1>1, <2>1, <2>4, <3>1
            DEF PolicyInv, TypeOK, Normal, RetriesJustified, Results, IsRetryable
  <2> QED BY <2>2, <2>3, <2>4
<1>5. CASE UNCHANGED vars
  BY <1>1, <1>5 DEF vars, PolicyInv, TypeOK, Normal, RetriesJustified
<1> QED BY <1>2, <1>3, <1>4, <1>5 DEF Next

THEOREM PolicyInvariant == Spec => []PolicyInv
BY InitPolicyInv, NextKeepsPolicyInv, PTL DEF Spec

\* Every policy NewRetryPolicy makes is typed, and so are the waits it leads to.
THEOREM PolicyTypeCorrect == Spec => []TypeOK
<1>1. PolicyInv => TypeOK
  BY DEF PolicyInv
<1> QED BY <1>1, PolicyInvariant, PTL

(***************************************************************************)
(* Do runs the operation never more often than it was configured to, three *)
(* times where that is no number of attempts, and gives up an error worth  *)
(* retrying only when it has run it exactly that often.                    *)
(***************************************************************************)
THEOREM AttemptsAreBounded == Spec => []BoundedAttempts
<1>1. PolicyInv => BoundedAttempts
  BY DEF PolicyInv, TypeOK, BoundedAttempts, RetriesJustified
<1> QED BY <1>1, PolicyInvariant, PTL

(***************************************************************************)
(* Unless its context is cancelled, Do gives up only on a refused error or *)
(* after the last attempt, and it retries no refused one.                  *)
(***************************************************************************)
THEOREM RetriesAreJustified == Spec => []RetriesJustified
<1>1. PolicyInv => RetriesJustified
  BY DEF PolicyInv
<1> QED BY <1>1, PolicyInvariant, PTL

(***************************************************************************)
(* The wait before attempt k + 1 is initial * 2^(k-1), or max where that   *)
(* is more, within the policy's jitter, for every policy and every k: the  *)
(* loop's early stop at max loses nothing.                                 *)
(***************************************************************************)
THEOREM BackoffIsExponential == Spec => []ExponentialBackoff
<1>1. Init => ExponentialBackoff
  BY DEF Init, ExponentialBackoff
<1>2. PolicyInv /\ ExponentialBackoff /\ [Next]_vars => ExponentialBackoff'
  <2> SUFFICES ASSUME PolicyInv, ExponentialBackoff, [Next]_vars PROVE ExponentialBackoff'
    OBVIOUS
  <2>1. CASE Sleep
    <3>1. /\ attempt \in Nat \ {0} /\ policy' = policy /\ attempt' = attempt + 1
          /\ slept' \in Waits(attempt) /\ Normal /\ policy.jitter \in 0..100
      BY <2>1 DEF Sleep, rigid, PolicyInv, TypeOK
    <3>2. attempt' - 2 = attempt - 1
      BY <3>1
    <3> QED BY <3>1, <3>2, WaitsSpread DEF ExponentialBackoff, Capped
  <2>2. CASE UNCHANGED <<policy, attempt, slept>>
    BY <2>2 DEF ExponentialBackoff
  <2> QED BY <2>1, <2>2 DEF Next, Cancelled, Operate, vars, rigid
<1> QED BY <1>1, <1>2, PolicyInvariant, PTL DEF Spec
=============================================================================
