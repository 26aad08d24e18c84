------------------------ MODULE ProviderClient_proofs ------------------------
(***************************************************************************)
(* Proofs about the client of the payment provider for every set of calls, *)
(* every size of the bulkhead, number of attempts and threshold.  The      *)
(* circuit breaker comes first, by itself: its theorems are about          *)
(* BreakerSpec, whose callers are any set, and use nothing of the client.  *)
(***************************************************************************)
EXTENDS ProviderClient, SequenceTheorems, FiniteSetTheorems, TLAPS

----------------------------------------------------------------------------
(***************************************************************************)
(* The counters are what the history says.  Outside half_open the failures *)
(* counted are the last results, in a row; a circuit that starts probing   *)
(* keeps failures counted while it was open, which a result clears before  *)
(* they can be mistaken for a streak.  In an open circuit they are all the *)
(* failures there were in a row since openedAt was set.  The successes     *)
(* counted are the last results too, and there are none outside half_open. *)
(***************************************************************************)
CountersTell ==
    /\ state # "half_open" => EndsWith(recent, failures, "failure")
    /\ state = "open" => ~EndsWith(recent, failures + 1, "failure")
    /\ EndsWith(recent, successes, "ok")
    /\ state # "half_open" => successes = 0

BreakerInv == TypeOK /\ CountersTell

----------------------------------------------------------------------------
LEMMA WindowPositive ==
    /\ FailureThreshold \in Nat /\ SuccessThreshold \in Nat /\ Window \in Nat
    /\ FailureThreshold > 0 /\ SuccessThreshold > 0
    /\ FailureThreshold < Window /\ SuccessThreshold < Window
BY ThresholdsAssumption DEF Window

LEMMA NoStreak == \A s, r : Len(s) \in Nat => EndsWith(s, 0, r)
BY DEF EndsWith

LEMMA ShorterStreak ==
    ASSUME NEW s, NEW r, Len(s) \in Nat, NEW n \in Nat, NEW m \in Nat, m <= n, EndsWith(s, n, r)
    PROVE  EndsWith(s, m, r)
BY DEF EndsWith

(***************************************************************************)
(* The history holds the last Window results, and one that is remembered   *)
(* comes after a streak that was there, and prolongs it if it is like it.  *)
(***************************************************************************)
LEMMA Remembered ==
    ASSUME TypeOK, NEW r \in Remarks, Remember(r)
    PROVE  /\ recent' \in Seq(Remarks)
           /\ Len(recent') \in Nat /\ 0 < Len(recent') /\ Len(recent') <= Window
           /\ recent'[Len(recent')] = r
           /\ \A q : \A n \in Nat : EndsWith(recent, n, q) /\ n < Window =>
                /\ n < Len(recent')
                /\ \A i \in (Len(recent') - n)..(Len(recent') - 1) : recent'[i] = q
           /\ \A q : \A n \in Nat : EndsWith(recent', n + 1, q) => EndsWith(recent, n, q)
<1> DEFINE longer == Append(recent, r)
<1>1. /\ recent \in Seq(Remarks)
      /\ Len(recent) \in Nat /\ Len(recent) <= Window /\ Window \in Nat /\ Window > 0
  BY WindowPositive DEF TypeOK
<1>2. /\ longer \in Seq(Remarks) /\ Len(longer) = Len(recent) + 1
      /\ \A i \in 1..Len(recent) : longer[i] = recent[i]
      /\ longer[Len(recent) + 1] = r
  BY <1>1
<1>3. recent' = IF Len(longer) > Window THEN Tail(longer) ELSE longer
  BY DEF Remember
<1> HIDE DEF longer
<1>4. PICK k \in {0, 1} :
        /\ recent' \in Seq(Remarks) /\ Len(recent') = Len(recent) + 1 - k
        /\ k = 1 => Len(recent) = Window
        /\ \A i \in 1..Len(recent') : recent'[i] = longer[i + k]
  <2>1. CASE Len(longer) > Window
    <3>1. /\ recent' \in Seq(Remarks) /\ Len(recent') = Len(recent) /\ Len(recent) = Window
          /\ \A i \in 1..Len(recent) : recent'[i] = longer[i + 1]
      BY <1>1, <1>2, <1>3, <2>1
    <3> QED BY <1>1, <3>1
  <2>2. CASE ~(Len(longer) > Window)
    BY <1>1, <1>2, <1>3, <2>2
  <2> QED BY <2>1, <2>2
<1>5. /\ recent' \in Seq(Remarks)
      /\ Len(recent') \in Nat /\ 0 < Len(recent') /\ Len(recent') <= Window
  BY <1>1, <1>4, <1>2, <1>3
<1>6. recent'[Len(recent')] = r
  BY <1>1, <1>2, <1>4, <1>5
<1>7. \A i \in 1..(Len(recent') - 1) : recent'[i] = recent[i + k] /\ i + k \in 1..Len(recent)
  BY <1>1, <1>2, <1>4, <1>5
<1>8. ASSUME NEW n \in Nat, NEW q, EndsWith(recent, n, q), n < Window
      PROVE  /\ n < Len(recent')
             /\ \A i \in (Len(recent') - n)..(Len(recent') - 1) : recent'[i] = q
  <2>1. n <= Len(recent) /\ \A i \in (Len(recent) - n + 1)..Len(recent) : recent[i] = q
    BY <1>8 DEF EndsWith
  <2>2. n < Len(recent')
    BY <1>1, <1>4, <1>8, <2>1
  <2>3. ASSUME NEW i \in (Len(recent') - n)..(Len(recent') - 1)
        PROVE  recent'[i] = q
    <3>1. i \in 1..(Len(recent') - 1) /\ i + k \in (Len(recent) - n + 1)..Len(recent)
      <4>1. /\ Len(recent) \in Int /\ Len(recent') \in Int /\ n \in Int /\ i \in Int
            /\ Len(recent') + k = Len(recent) + 1 /\ k \in Int
            /\ Len(recent') - n <= i /\ i <= Len(recent') - 1 /\ n < Len(recent')
        BY <1>1, <1>4, <1>5, <2>2
      <4> QED BY <4>1
    <3> QED BY <1>7, <2>1, <3>1
  <2> QED BY <2>2, <2>3
<1>9. ASSUME NEW n \in Nat, NEW q, EndsWith(recent', n + 1, q)
      PROVE  EndsWith(recent, n, q)
  <2>1. /\ n + 1 <= Len(recent')
        /\ \A i \in (Len(recent') - n)..Len(recent') : recent'[i] = q
    BY <1>5, <1>9 DEF EndsWith
  <2>2. n <= Len(recent)
    BY <1>1, <1>4, <2>1
  <2>3. ASSUME NEW j \in (Len(recent) - n + 1)..Len(recent)
        PROVE  recent[j] = q
    <3>1. j - k \in 1..(Len(recent') - 1) /\ j - k \in (Len(recent') - n)..Len(recent')
      BY <1>1, <1>4, <1>5, <2>1
    <3>2. recent'[j - k] = recent[(j - k) + k] /\ (j - k) + k = j
      BY <1>1, <1>7, <3>1
    <3> QED BY <2>1, <3>1, <3>2
  <2> QED BY <2>2, <2>3 DEF EndsWith
<1> QED BY <1>5, <1>6, <1>8, <1>9

\* The two ways a remark goes on with a streak, and how it ends any other.
LEMMA StreakGoesOn ==
    ASSUME TypeOK, NEW r \in Remarks, Remember(r), NEW n \in Nat, n < Window
    PROVE  /\ EndsWith(recent, n, r) => EndsWith(recent', n + 1, r)
           /\ r = "armed" /\ EndsWith(recent, n, "failure") => ArmedByStreak(recent', n + 1)
           /\ \A q : q # r => ~EndsWith(recent', n + 1, q)
<1> DEFINE l == Len(recent')
<1>1. l \in Nat /\ 0 < l /\ recent'[l] = r
  BY Remembered
<1>2. \A q : EndsWith(recent, n, q) => n < l /\ \A i \in (l - n)..(l - 1) : recent'[i] = q
  BY Remembered
<1> HIDE DEF l
<1>3. EndsWith(recent, n, r) => EndsWith(recent', n + 1, r)
  <2> SUFFICES ASSUME EndsWith(recent, n, r) PROVE EndsWith(recent', n + 1, r)
    OBVIOUS
  <2>1. n < l /\ \A i \in (l - n)..(l - 1) : recent'[i] = r
    BY <1>2
  <2>2. \A i \in (l - n)..l : recent'[i] = r
    BY <1>1, <2>1
  <2>3. l - (n + 1) + 1 = l - n /\ l >= n + 1
    BY <1>1, <2>1
  <2> QED BY <2>2, <2>3 DEF EndsWith, l
<1>4. r = "armed" /\ EndsWith(recent, n, "failure") => ArmedByStreak(recent', n + 1)
  <2> SUFFICES ASSUME r = "armed", EndsWith(recent, n, "failure")
               PROVE  ArmedByStreak(recent', n + 1)
    OBVIOUS
  <2>1. n < l /\ \A i \in (l - n)..(l - 1) : recent'[i] = "failure"
    BY <1>2
  <2>2. l - (n + 1) + 1 = l - n /\ l >= n + 1
    BY <1>1, <2>1
  <2> QED BY <1>1, <2>1, <2>2 DEF ArmedByStreak, l
<1>5. \A q : q # r => ~EndsWith(recent', n + 1, q)
  <2> SUFFICES ASSUME NEW q, EndsWith(recent', n + 1, q) PROVE q = r
    OBVIOUS
  <2>1. \A i \in (l - (n + 1) + 1)..l : recent'[i] = q
    BY DEF EndsWith, l
  <2>2. l \in (l - (n + 1) + 1)..l
    BY <1>1
  <2> QED BY <1>1, <2>1, <2>2
<1> QED BY <1>3, <1>4, <1>5

(***************************************************************************)
(* The steps, one lemma for each kind.                                     *)
(***************************************************************************)
LEMMA TransitionKeepsBreakerInv ==
    ASSUME BreakerInv, TransitionOpenToHalfOpen, UNCHANGED failures, running' \subseteq Calls
    PROVE  BreakerInv'
<1>1. CASE state = "open" /\ elapsed
  <2>1. /\ state' = "half_open" /\ successes' = 0 /\ elapsed' = FALSE /\ Remember("probing")
    BY <1>1 DEF TransitionOpenToHalfOpen
  <2>2. /\ recent' \in Seq(Remarks)
        /\ Len(recent') \in Nat /\ Len(recent') <= Window
    BY <2>1, Remembered DEF BreakerInv, Remarks
  <2>3. EndsWith(recent', successes', "ok")
    BY <2>1, <2>2, NoStreak
  <2>4. elapsed' \in BOOLEAN /\ (elapsed' => state' = "open")
    BY <2>1
  <2> QED BY <2>1, <2>2, <2>3, <2>4, WindowPositive
          DEF BreakerInv, TypeOK, CircuitStates, CountersTell
<1>2. CASE ~(state = "open" /\ elapsed)
  BY <1>2 DEF TransitionOpenToHalfOpen, BreakerInv, TypeOK, CountersTell
<1> QED BY <1>1, <1>2

LEMMA FailureKeepsBreakerInv ==
    ASSUME BreakerInv, RecordFailure, running' \subseteq Calls
    PROVE  BreakerInv'
<1>1. /\ TypeOK /\ successes' = 0
      /\ failures \in Nat /\ failures < Window
      /\ "failure" \in Remarks /\ "armed" \in Remarks
  BY WindowPositive DEF RecordFailure, BreakerInv, TypeOK, Remarks
<1>2. CASE state = "half_open" \/ failures + 1 >= FailureThreshold
  <2>1. state' = "open" /\ elapsed' = FALSE /\ failures' = 0 /\ Remember("armed")
    BY <1>2 DEF RecordFailure, Arm
  <2>2. /\ recent' \in Seq(Remarks)
        /\ Len(recent') \in Nat /\ 0 < Len(recent') /\ Len(recent') <= Window
    BY <1>1, <2>1, Remembered
  <2>3. ~EndsWith(recent', 0 + 1, "failure")
    BY <1>1, <2>1, StreakGoesOn, WindowPositive
  <2>4. EndsWith(recent', successes', "ok") /\ EndsWith(recent', failures', "failure")
    BY <1>1, <2>1, <2>2, NoStreak
  <2>5. elapsed' \in BOOLEAN /\ (elapsed' => state' = "open")
    BY <2>1
  <2> QED BY <1>1, <2>1, <2>2, <2>3, <2>4, <2>5, WindowPositive
          DEF BreakerInv, TypeOK, CircuitStates, CountersTell
<1>3. CASE ~(state = "half_open" \/ failures + 1 >= FailureThreshold)
  <2>1. failures' = failures + 1 /\ UNCHANGED <<state, elapsed>> /\ Remember("failure")
    BY <1>3 DEF RecordFailure, CountFailure
  <2>2. /\ recent' \in Seq(Remarks)
        /\ Len(recent') \in Nat /\ Len(recent') <= Window
        /\ \A n \in Nat : EndsWith(recent', n + 1, "failure") => EndsWith(recent, n, "failure")
    BY <1>1, <2>1, Remembered
  <2>3. EndsWith(recent', failures', "failure")
    BY <1>1, <1>3, <2>1, StreakGoesOn DEF BreakerInv, CountersTell
  <2>4. state = "open" => ~EndsWith(recent', failures' + 1, "failure")
    <3>1. failures + 1 \in Nat
      BY <1>1
    <3> QED BY <2>1, <2>2, <3>1 DEF BreakerInv, CountersTell
  <2>5. failures' \in 0..(FailureThreshold - 1)
    BY <1>1, <1>3, <2>1, WindowPositive
  <2> QED BY <1>1, <2>1, <2>2, <2>3, <2>4, <2>5, NoStreak, WindowPositive
          DEF BreakerInv, TypeOK, CountersTell
<1> QED BY <1>2, <1>3

LEMMA SuccessKeepsBreakerInv ==
    ASSUME BreakerInv, RecordSuccess, running' \subseteq Calls
    PROVE  BreakerInv'
<1>1. /\ recent' \in Seq(Remarks)
      /\ Len(recent') \in Nat /\ Len(recent') <= Window
      /\ Remember("ok") /\ "ok" \in Remarks
  BY Remembered DEF RecordSuccess, BreakerInv, Remarks
<1>2. failures' = 0 /\ UNCHANGED elapsed
  BY DEF RecordSuccess
<1>3. ~EndsWith(recent', failures' + 1, "failure")
  BY <1>1, <1>2, StreakGoesOn, WindowPositive DEF BreakerInv
<1>4. CASE state # "half_open"
  <2>1. UNCHANGED <<state, successes>>
    BY <1>4 DEF RecordSuccess
  <2> QED BY <1>1, <1>2, <1>3, <1>4, <2>1, NoStreak, WindowPositive
          DEF BreakerInv, TypeOK, CountersTell
<1>5. CASE state = "half_open" /\ successes + 1 >= SuccessThreshold
  <2>1. state' = "closed" /\ successes' = 0
    BY <1>5 DEF RecordSuccess
  <2> QED BY <1>1, <1>2, <1>5, <2>1, NoStreak, WindowPositive
          DEF BreakerInv, TypeOK, CircuitStates, CountersTell
<1>6. CASE state = "half_open" /\ ~(successes + 1 >= SuccessThreshold)
  <2>1. successes' = successes + 1 /\ UNCHANGED state
    BY <1>6 DEF RecordSuccess
  <2>2. successes \in Nat /\ successes < Window /\ successes' \in 0..(SuccessThreshold - 1)
    BY <1>6, <2>1, WindowPositive DEF BreakerInv, TypeOK
  <2>3. EndsWith(recent', successes', "ok")
    BY <1>1, <2>1, <2>2, StreakGoesOn DEF BreakerInv, CountersTell
  <2> QED BY <1>1, <1>2, <1>6, <2>1, <2>2, <2>3, WindowPositive
          DEF BreakerInv, TypeOK, CountersTell
<1> QED BY <1>4, <1>5, <1>6

LEMMA BreakerStepKeepsInv ==
    ASSUME BreakerInv, [BreakerNext]_breakerVars
    PROVE  BreakerInv'
<1>1. CASE OpenTimeoutElapses
  BY <1>1 DEF OpenTimeoutElapses, BreakerInv, TypeOK, CountersTell
<1>2. CASE ReadState
  BY <1>2, TransitionKeepsBreakerInv DEF ReadState, BreakerInv, TypeOK
<1>3. ASSUME NEW c \in Calls, BeforeCall(c)
      PROVE  BreakerInv'
  BY <1>3, TransitionKeepsBreakerInv DEF BeforeCall, BreakerInv, TypeOK
<1>4. ASSUME NEW c \in Calls, Return(c)
      PROVE  BreakerInv'
  <2>1. CASE AfterIgnored(c)
    BY <2>1 DEF AfterIgnored, Finish, breaker, BreakerInv, TypeOK, CountersTell
  <2>2. CASE AfterFailure(c)
    BY <2>2, FailureKeepsBreakerInv DEF AfterFailure, Finish, BreakerInv, TypeOK
  <2>3. CASE AfterSuccess(c)
    BY <2>3, SuccessKeepsBreakerInv DEF AfterSuccess, Finish, BreakerInv, TypeOK
  <2> QED BY <1>4, <2>1, <2>2, <2>3 DEF Return
<1>5. CASE UNCHANGED breakerVars
  BY <1>5 DEF breakerVars, breaker, BreakerInv, TypeOK, CountersTell
<1> QED BY <1>1, <1>2, <1>3, <1>4, <1>5 DEF BreakerNext

LEMMA BreakerInitInv == BreakerInit => BreakerInv
<1> SUFFICES ASSUME BreakerInit PROVE BreakerInv
  OBVIOUS
<1>1. recent \in Seq(Remarks) /\ Len(recent) = 0
  BY DEF BreakerInit
<1>2. EndsWith(recent, successes, "ok") /\ EndsWith(recent, failures, "failure")
  BY <1>1, NoStreak DEF BreakerInit
<1>3. elapsed \in BOOLEAN /\ (elapsed => state = "open")
  BY DEF BreakerInit
<1> QED BY <1>1, <1>2, <1>3, WindowPositive
        DEF BreakerInit, BreakerInv, TypeOK, CircuitStates, CountersTell

THEOREM BreakerInvariant == BreakerSpec => []BreakerInv
<1> QED BY BreakerInitInv, BreakerStepKeepsInv, PTL DEF BreakerSpec

(***************************************************************************)
(* The counters stay below their thresholds, the timeout elapses only for  *)
(* an open circuit, and the history holds no more than Window results.     *)
(***************************************************************************)
THEOREM BreakerTypeCorrect == BreakerSpec => []TypeOK
<1>1. BreakerInv => TypeOK
  BY DEF BreakerInv
<1> QED BY <1>1, BreakerInvariant, PTL

----------------------------------------------------------------------------
(***************************************************************************)
(* What a step of the breaker may do to the circuit.                       *)
(***************************************************************************)
LEMMA ArmsInARow ==
    ASSUME BreakerInv, RecordFailure, state # "half_open", failures + 1 >= FailureThreshold
    PROVE  ArmedByStreak(recent', FailureThreshold)
<1>1. /\ failures \in Nat /\ failures + 1 = FailureThreshold /\ failures < Window
      /\ "armed" \in Remarks /\ TypeOK /\ EndsWith(recent, failures, "failure")
  BY WindowPositive DEF BreakerInv, TypeOK, CountersTell, Remarks
<1>2. Remember("armed")
  BY DEF RecordFailure, Arm
<1>3. ArmedByStreak(recent', failures + 1)
  BY <1>1, <1>2, StreakGoesOn
<1> QED BY <1>1, <1>3

LEMMA TripsInARow ==
    ASSUME BreakerInv, [BreakerNext]_breakerVars, state = "closed", state' = "open"
    PROVE  ArmedByStreak(recent', FailureThreshold)
<1>1. PICK c \in Calls : AfterFailure(c)
  BY DEF BreakerNext, breakerVars, breaker, OpenTimeoutElapses, ReadState, BeforeCall,
         TransitionOpenToHalfOpen, Return, AfterSuccess, RecordSuccess, AfterIgnored
<1>2. failures + 1 >= FailureThreshold /\ RecordFailure
  BY <1>1 DEF AfterFailure, RecordFailure, CountFailure
<1> QED BY <1>2, ArmsInARow

\* In the open state only late failures bring the timeout back, and none is passed over.
LEMMA RearmsInARow ==
    ASSUME BreakerInv, [BreakerNext]_breakerVars, state = "open"
    PROVE  /\ elapsed /\ ~elapsed' /\ state' = "open" => ArmedByStreak(recent', FailureThreshold)
           /\ ~EndsWith(recent', FailureThreshold, "failure")
<1>1. /\ failures \in Nat /\ FailureThreshold \in Nat /\ failures + 1 <= FailureThreshold
      /\ Len(recent) \in Nat /\ FailureThreshold < Window /\ 0 < FailureThreshold
      /\ TypeOK /\ ~EndsWith(recent, failures + 1, "failure")
  BY WindowPositive DEF BreakerInv, TypeOK, CountersTell
<1>2. ~EndsWith(recent, FailureThreshold, "failure")
  BY <1>1, ShorterStreak
<1>3. ASSUME NEW r \in Remarks, Remember(r), r # "failure"
      PROVE  ~EndsWith(recent', FailureThreshold, "failure")
  <2>1. /\ FailureThreshold - 1 \in Nat /\ FailureThreshold - 1 < Window
        /\ (FailureThreshold - 1) + 1 = FailureThreshold
    BY <1>1, WindowPositive
  <2>2. ~EndsWith(recent', (FailureThreshold - 1) + 1, "failure")
    BY <1>1, <1>3, <2>1, StreakGoesOn
  <2> QED BY <2>1, <2>2
<1>4. ASSUME NEW c \in Calls, AfterFailure(c)
      PROVE  /\ elapsed /\ ~elapsed' => ArmedByStreak(recent', FailureThreshold)
             /\ ~EndsWith(recent', FailureThreshold, "failure")
  <2>1. CASE failures + 1 >= FailureThreshold
    <3>1. RecordFailure /\ Remember("armed") /\ "armed" \in Remarks
      BY <1>4, <2>1 DEF AfterFailure, RecordFailure, Arm, Remarks
    <3> QED BY <1>3, <2>1, <3>1, ArmsInARow
  <2>2. CASE ~(failures + 1 >= FailureThreshold)
    <3>1. Remember("failure") /\ UNCHANGED elapsed /\ "failure" \in Remarks
      BY <1>4, <2>2 DEF AfterFailure, RecordFailure, CountFailure, Remarks
    <3>2. \A n \in Nat : EndsWith(recent', n + 1, "failure") => EndsWith(recent, n, "failure")
      BY <1>1, <3>1, Remembered
    <3>3. FailureThreshold - 1 \in Nat /\ failures + 1 <= FailureThreshold - 1
      BY <1>1, <2>2
    <3>4. ~EndsWith(recent, FailureThreshold - 1, "failure")
      BY <1>1, <3>3, ShorterStreak
    <3>5. (FailureThreshold - 1) + 1 = FailureThreshold
      BY <1>1
    <3> QED BY <3>1, <3>2, <3>3, <3>4, <3>5
  <2> QED BY <2>1, <2>2
<1>5. ASSUME TransitionOpenToHalfOpen
      PROVE  /\ elapsed => state' # "open"
             /\ ~EndsWith(recent', FailureThreshold, "failure")
  BY <1>2, <1>3, <1>5 DEF TransitionOpenToHalfOpen, Remarks
<1>6. ASSUME NEW c \in Calls, AfterSuccess(c)
      PROVE  UNCHANGED elapsed /\ ~EndsWith(recent', FailureThreshold, "failure")
  BY <1>3, <1>6 DEF AfterSuccess, RecordSuccess, Remarks
<1>7. CASE OpenTimeoutElapses \/ UNCHANGED breakerVars
  BY <1>2, <1>7 DEF OpenTimeoutElapses, breakerVars, breaker
<1>8. ASSUME NEW c \in Calls, AfterIgnored(c)
      PROVE  UNCHANGED elapsed /\ ~EndsWith(recent', FailureThreshold, "failure")
  BY <1>2, <1>8 DEF AfterIgnored, breaker
<1>9. CASE ReadState \/ \E c \in Calls : BeforeCall(c)
  BY <1>5, <1>9 DEF ReadState, BeforeCall
<1> QED BY <1>4, <1>6, <1>7, <1>8, <1>9 DEF BreakerNext, Return

LEMMA ClosesInARow ==
    ASSUME BreakerInv, [BreakerNext]_breakerVars, state # "closed", state' = "closed"
    PROVE  state = "half_open" /\ EndsWith(recent', SuccessThreshold, "ok")
<1>1. PICK c \in Calls : AfterSuccess(c)
  BY DEF BreakerNext, breakerVars, breaker, OpenTimeoutElapses, ReadState, BeforeCall,
         TransitionOpenToHalfOpen, Return, AfterFailure, RecordFailure, Arm, CountFailure,
         AfterIgnored
<1>2. state = "half_open" /\ successes + 1 >= SuccessThreshold /\ Remember("ok")
  BY <1>1 DEF AfterSuccess, RecordSuccess
<1>3. successes \in Nat /\ successes + 1 = SuccessThreshold /\ successes < Window
  BY <1>2, WindowPositive DEF BreakerInv, TypeOK
<1>4. EndsWith(recent, successes, "ok")
  BY DEF BreakerInv, CountersTell
<1>5. EndsWith(recent', successes + 1, "ok")
  BY <1>2, <1>3, <1>4, StreakGoesOn DEF BreakerInv, Remarks
<1> QED BY <1>2, <1>3, <1>5

(***************************************************************************)
(* Only FailureThreshold failures in a row, none of them left over from    *)
(* before the circuit was last open, open a closed circuit.                *)
(***************************************************************************)
THEOREM TripsOnlyOnStreak == BreakerSpec => TripsOnStreak
<1>1. BreakerInv /\ [BreakerNext]_breakerVars =>
        [state = "closed" /\ state' = "open" =>
            ArmedByStreak(recent', FailureThreshold)]_breakerVars
  BY TripsInARow
<1> QED BY <1>1, BreakerInvariant, PTL DEF BreakerSpec, TripsOnStreak

(***************************************************************************)
(* Only SuccessThreshold successes in a row, all reported since it became  *)
(* half_open, close it.                                                    *)
(***************************************************************************)
THEOREM ClosesOnlyOnStreak == BreakerSpec => ClosesOnStreak
<1>1. BreakerInv /\ [BreakerNext]_breakerVars =>
        [state # "closed" /\ state' = "closed" =>
            state = "half_open" /\ EndsWith(recent', SuccessThreshold, "ok")]_breakerVars
  BY ClosesInARow
<1> QED BY <1>1, BreakerInvariant, PTL DEF BreakerSpec, ClosesOnStreak

(***************************************************************************)
(* Late failures set openedAt again by streaks of FailureThreshold, each   *)
(* counted from when it was last set; no such streak is passed over, and   *)
(* nothing else makes a timeout that has passed pass again.                *)
(***************************************************************************)
THEOREM RearmsOnlyOnStreak == BreakerSpec => RearmsOnStreak
<1>1. BreakerInv /\ [BreakerNext]_breakerVars =>
        [state = "open" =>
            /\ elapsed /\ ~elapsed' /\ state' = "open" => ArmedByStreak(recent', FailureThreshold)
            /\ ~EndsWith(recent', FailureThreshold, "failure")]_breakerVars
  BY RearmsInARow
<1> QED BY <1>1, BreakerInvariant, PTL DEF BreakerSpec, RearmsOnStreak

----------------------------------------------------------------------------
(***************************************************************************)
(* What a call has used up: an attempt is sent only while attempts are     *)
(* left, and the provider carries out an attempt at most once.             *)
(***************************************************************************)
AttemptsCounted ==
    \A c \in Calls :
        /\ stage[c] \in {"new", "queued"} => tries[c] = 0
        /\ stage[c] \in {"trying", "waiting"} => tries[c] < Attempts
        /\ stage[c] = "sent" => carried[c] < tries[c]
        /\ carried[c] <= tries[c]

Holders == {c \in Calls : stage[c] \in Holding}

\* Only as many calls hold a slot as steps took one, whatever Calls is.
HoldersFinite == IsFiniteSet(Holders)

ClientInv == ClientTypeOK /\ CountersTell /\ NothingLeaks /\ HoldersFinite /\ AttemptsCounted

----------------------------------------------------------------------------
LEMMA StageSets ==
    /\ Admitted = {"queued", "trying", "sent", "waiting"}
    /\ Holding = {"trying", "sent", "waiting"}
BY DEF Admitted, Holding

\* A call does to the breaker what some caller of it may do.
LEMMA ClientStepIsBreakerStep ==
    ASSUME [Next]_vars
    PROVE  [BreakerNext]_breakerVars
<1>1. ASSUME NEW c \in Calls, ClientStep(c) \/ ProviderAnswers(c)
      PROVE  [BreakerNext]_breakerVars
  BY <1>1 DEF ClientStep, ProviderAnswers, Call, CallFailsFast, TakeSlot, LeaveQueue, Send,
       Wake, Stop, ProviderDone, ProviderDeclines, AttemptFails, GiveUp, BreakerNext, Return
<1>2. ASSUME NEW c \in Calls, Expire(c)
      PROVE  [BreakerNext]_breakerVars
  BY <1>2 DEF Expire
<1> QED BY <1>1, <1>2 DEF Next, vars, BreakerNext

(***************************************************************************)
(* The moves of a call between the stages, with what each does to the      *)
(* slots and to the breaker's calls.                                       *)
(***************************************************************************)
Stays(c) ==
    /\ \E s \in Holding : stage[c] \in Holding /\ GoTo(c, s)
    /\ UNCHANGED <<slots, running>>

Takes(c) ==
    /\ stage[c] = "queued" /\ GoTo(c, "trying")
    /\ slots < MaxConcurrent /\ slots' = slots + 1
    /\ UNCHANGED running

Enters(c) ==
    /\ stage[c] = "new" /\ GoTo(c, "queued")
    /\ running' = running \cup {c}
    /\ UNCHANGED slots

Skips(c) ==
    /\ stage[c] = "new" /\ GoTo(c, "failed")
    /\ UNCHANGED <<slots, running>>

Leaves(c) ==
    /\ stage[c] = "queued" /\ GoTo(c, "failed")
    /\ running' = running \ {c}
    /\ UNCHANGED slots

Ends(c) ==
    /\ stage[c] \in Holding
    /\ \E s \in {"ok", "failed"} : GoTo(c, s)
    /\ slots' = slots - 1
    /\ running' = running \ {c}

Moves(c) == Stays(c) \/ Takes(c) \/ Enters(c) \/ Skips(c) \/ Leaves(c) \/ Ends(c)

LEMMA StepMoves ==
    ASSUME NEW c \in Calls, ClientStep(c) \/ ProviderAnswers(c)
    PROVE  Moves(c) /\ UNCHANGED expired
<1>1. CASE Call(c)
  BY <1>1 DEF Call, BeforeCall, Moves, Enters
<1>2. CASE CallFailsFast(c)
  BY <1>2 DEF CallFailsFast, breakerVars, Moves, Skips
<1>3. CASE TakeSlot(c)
  BY <1>3 DEF TakeSlot, breakerVars, Moves, Takes
<1>4. CASE LeaveQueue(c)
  BY <1>4 DEF LeaveQueue, AfterFailure, Finish, Moves, Leaves
<1>5. CASE Send(c)
  BY <1>5, StageSets DEF Send, breakerVars, Moves, Stays
<1>6. CASE Wake(c)
  BY <1>6, StageSets DEF Wake, breakerVars, Moves, Stays
<1>7. CASE Stop(c)
  BY <1>7, StageSets DEF Stop, GiveUp, AfterFailure, Finish, Moves, Ends
<1>8. CASE ProviderDone(c) \/ ProviderDeclines(c)
  BY <1>8, StageSets DEF ProviderDone, ProviderDeclines, AfterSuccess, Finish, Moves, Ends
<1>9. ASSUME NEW error, AttemptFails(c, error)
      PROVE  Moves(c) /\ UNCHANGED expired
  BY <1>9, StageSets
     DEF AttemptFails, GiveUp, AfterFailure, Finish, breakerVars, Moves, Ends, Stays
<1> QED BY <1>1, <1>2, <1>3, <1>4, <1>5, <1>6, <1>7, <1>8, <1>9 DEF ClientStep, ProviderAnswers

(***************************************************************************)
(* No move leaks a slot or a call of the breaker.                          *)
(***************************************************************************)
LEMMA MovesLeakNothing ==
    ASSUME ClientInv, NEW c \in Calls, Moves(c)
    PROVE  NothingLeaks' /\ HoldersFinite' /\ slots' \in 0..MaxConcurrent
           /\ stage' \in [Calls -> Stages]
<1> USE DEF ClientInv
<1>1. /\ IsFiniteSet(Holders) /\ slots = Cardinality(Holders) /\ slots \in Nat
      /\ slots <= MaxConcurrent /\ MaxConcurrent \in Nat
      /\ running = {d \in Calls : stage[d] \in Admitted}
      /\ stage \in [Calls -> Stages]
  BY MaxConcurrentAssumption DEF HoldersFinite, NothingLeaks, Holders, ClientTypeOK
<1>2. PICK s \in Stages : GoTo(c, s)
  BY StageSets DEF Moves, Stays, Takes, Enters, Skips, Leaves, Ends, Stages
<1>3. /\ stage' \in [Calls -> Stages] /\ stage'[c] = s
      /\ \A d \in Calls : d # c => stage'[d] = stage[d]
  BY <1>1, <1>2 DEF GoTo
<1>4. Holders' = IF s \in Holding THEN Holders \cup {c} ELSE Holders \ {c}
  BY <1>3 DEF Holders
<1>5. running' = {d \in Calls : stage'[d] \in Admitted}
  <2>1. Stays(c) \/ Takes(c) => stage[c] \in Admitted /\ s \in Admitted /\ UNCHANGED running
    BY <1>1, <1>2, <1>3, StageSets DEF Stays, Takes, GoTo
  <2>2. Enters(c) => s \in Admitted /\ running' = running \cup {c}
    BY <1>1, <1>3, StageSets DEF Enters, GoTo
  <2>3. Skips(c) => stage[c] \notin Admitted /\ s \notin Admitted /\ UNCHANGED running
    BY <1>1, <1>3, StageSets DEF Skips, GoTo
  <2>4. Leaves(c) \/ Ends(c) => s \notin Admitted /\ running' = running \ {c}
    BY <1>1, <1>3, StageSets DEF Leaves, Ends, GoTo
  <2> QED BY <1>1, <1>3, <2>1, <2>2, <2>3, <2>4 DEF Moves
<1>6. CASE Takes(c)
  <2>1. c \notin Holders /\ Holders' = Holders \cup {c}
    BY <1>1, <1>3, <1>4, <1>6, StageSets DEF Takes, GoTo, Holders
  <2>2. IsFiniteSet(Holders') /\ Cardinality(Holders') = Cardinality(Holders) + 1
    BY <1>1, <2>1, FS_AddElement
  <2> QED BY <1>1, <1>3, <1>5, <1>6, <2>2 DEF Takes, NothingLeaks, HoldersFinite, Holders
<1>7. CASE Ends(c)
  <2>1. c \in Holders /\ Holders' = Holders \ {c}
    BY <1>1, <1>3, <1>4, <1>7, StageSets DEF Ends, GoTo, Holders
  <2>2. /\ IsFiniteSet(Holders') /\ Cardinality(Holders') = Cardinality(Holders) - 1
        /\ Cardinality(Holders') \in Nat
    BY <1>1, <2>1, FS_RemoveElement, FS_CardinalityType
  <2> QED BY <1>1, <1>3, <1>5, <1>7, <2>2 DEF Ends, NothingLeaks, HoldersFinite, Holders
<1>8. CASE Stays(c) \/ Enters(c) \/ Skips(c) \/ Leaves(c)
  <2>1. c \in Holders <=> s \in Holding
    BY <1>1, <1>2, <1>3, <1>8, StageSets DEF Stays, Enters, Skips, Leaves, GoTo, Holders
  <2>2. Holders' = Holders /\ UNCHANGED slots
    BY <1>4, <1>8, <2>1 DEF Stays, Enters, Skips, Leaves
  <2> QED BY <1>1, <1>3, <1>5, <2>2 DEF NothingLeaks, HoldersFinite, Holders
<1> QED BY <1>6, <1>7, <1>8 DEF Moves

(***************************************************************************)
(* The attempts: only Send adds to tries, only an attempt that ends adds   *)
(* to carried.                                                             *)
(***************************************************************************)
LEMMA StepCounts ==
    ASSUME ClientInv, NEW c \in Calls, ClientStep(c) \/ ProviderAnswers(c)
    PROVE  /\ AttemptsCounted'
           /\ tries' \in [Calls -> 0..Attempts]
           /\ carried' \in [Calls -> 0..Attempts]
           /\ lastErr' \in [Calls -> Errors]
<1> USE DEF ClientInv
<1>1. /\ stage \in [Calls -> Stages] /\ tries \in [Calls -> 0..Attempts]
      /\ carried \in [Calls -> 0..Attempts] /\ lastErr \in [Calls -> Errors]
      /\ Attempts \in Nat /\ Attempts > 0
  BY AttemptsAssumption DEF ClientTypeOK
<1>2. \A d \in Calls : tries[d] \in 0..Attempts /\ carried[d] \in 0..Attempts
  BY <1>1
<1>3. ASSUME UNCHANGED <<tries, carried, lastErr>>,
             NEW s \in {"queued", "trying", "failed"}, GoTo(c, s),
             s = "queued" => stage[c] = "new",
             s = "trying" => stage[c] \in {"queued", "waiting"}
      PROVE  AttemptsCounted'
  <2>1. stage'[c] = s /\ \A d \in Calls : d # c => stage'[d] = stage[d]
    BY <1>1, <1>3 DEF GoTo
  <2> QED BY <1>1, <1>2, <1>3, <2>1 DEF AttemptsCounted
<1>4. CASE Call(c) \/ CallFailsFast(c) \/ TakeSlot(c) \/ LeaveQueue(c) \/ Wake(c) \/ Stop(c)
  <2>1. UNCHANGED <<tries, carried, lastErr>>
    BY <1>4 DEF Call, CallFailsFast, TakeSlot, LeaveQueue, Wake, Stop
  <2>2. \E s \in {"queued", "trying", "failed"} :
          /\ GoTo(c, s)
          /\ s = "queued" => stage[c] = "new"
          /\ s = "trying" => stage[c] \in {"queued", "waiting"}
    BY <1>4 DEF Call, CallFailsFast, TakeSlot, LeaveQueue, Wake, Stop, GiveUp
  <2> QED BY <1>1, <1>3, <2>1, <2>2
<1>5. CASE Send(c)
  <2>1. /\ stage[c] = "trying" /\ stage'[c] = "sent"
        /\ tries' = [tries EXCEPT ![c] = @ + 1] /\ UNCHANGED <<carried, lastErr>>
        /\ \A d \in Calls : d # c => stage'[d] = stage[d]
    BY <1>1, <1>5 DEF Send, GoTo
  <2>2. tries[c] < Attempts /\ carried[c] <= tries[c]
    BY <2>1 DEF AttemptsCounted
  <2>3. /\ tries' \in [Calls -> 0..Attempts] /\ tries'[c] = tries[c] + 1
        /\ \A d \in Calls : d # c => tries'[d] = tries[d]
    BY <1>1, <1>2, <2>1, <2>2
  <2> QED BY <1>1, <1>2, <2>1, <2>2, <2>3 DEF AttemptsCounted
<1>6. ASSUME stage[c] = "sent", UNCHANGED tries, lastErr' \in [Calls -> Errors],
             NEW n \in {0, 1}, carried' = [carried EXCEPT ![c] = @ + n],
             NEW s \in {"waiting", "ok", "failed"}, GoTo(c, s),
             s = "waiting" => tries[c] < Attempts
      PROVE  AttemptsCounted' /\ carried' \in [Calls -> 0..Attempts]
  <2>1. stage'[c] = s /\ \A d \in Calls : d # c => stage'[d] = stage[d]
    BY <1>1, <1>6 DEF GoTo
  <2>2. carried[c] < tries[c]
    BY <1>6 DEF AttemptsCounted
  <2>3. /\ carried'[c] = carried[c] + n /\ carried'[c] <= tries[c]
        /\ carried' \in [Calls -> 0..Attempts]
        /\ \A d \in Calls : d # c => carried'[d] = carried[d]
    BY <1>1, <1>2, <1>6, <2>2
  <2> QED BY <1>1, <1>2, <1>6, <2>1, <2>3 DEF AttemptsCounted
<1>7. CASE ProviderDone(c)
  BY <1>1, <1>6, <1>7 DEF ProviderDone, Carry
<1>8. CASE ProviderDeclines(c)
  <2>1. carried' = [carried EXCEPT ![c] = @ + 0]
    BY <1>1, <1>2, <1>8 DEF ProviderDeclines
  <2> QED BY <1>1, <1>6, <1>8, <2>1 DEF ProviderDeclines
<1>9. ASSUME NEW error \in {"status", "network"}, AttemptFails(c, error)
      PROVE  /\ AttemptsCounted' /\ UNCHANGED tries
             /\ carried' \in [Calls -> 0..Attempts] /\ lastErr' \in [Calls -> Errors]
  <2>1. lastErr' \in [Calls -> Errors]
    BY <1>1, <1>9 DEF AttemptFails, Errors
  <2>2. \E s \in {"waiting", "failed"} : GoTo(c, s) /\ (s = "waiting" => tries[c] < Attempts)
    BY <1>9 DEF AttemptFails, GiveUp
  <2> QED BY <1>6, <1>9, <2>1, <2>2 DEF AttemptFails, Carry
<1> QED BY <1>1, <1>4, <1>5, <1>7, <1>8, <1>9
        DEF ClientStep, ProviderAnswers, Call, CallFailsFast, TakeSlot, LeaveQueue, Wake, Stop,
            ProviderDone, ProviderDeclines, Send

LEMMA InitClientInv == Init => ClientInv
<1> SUFFICES ASSUME Init PROVE ClientInv
  OBVIOUS
<1>1. TypeOK /\ CountersTell
  BY BreakerInitInv DEF Init, BreakerInv
<1>2. ClientTypeOK
  BY <1>1, AttemptsAssumption, MaxConcurrentAssumption DEF Init, ClientTypeOK, Stages, Errors
<1>3. Holders = {} /\ IsFiniteSet(Holders) /\ Cardinality(Holders) = 0
  <2>1. Holders = {}
    BY StageSets DEF Init, Holders
  <2> QED BY <2>1, FS_EmptySet
<1>4. NothingLeaks
  BY <1>3, StageSets DEF Init, BreakerInit, NothingLeaks, Holders
<1>5. AttemptsCounted
  <2>1. \A c \in Calls : stage[c] = "new" /\ tries[c] = 0 /\ carried[c] = 0
    BY DEF Init
  <2>2. ASSUME NEW c \in Calls
        PROVE  /\ stage[c] \notin {"trying", "waiting", "sent"}
               /\ tries[c] = 0 /\ carried[c] <= tries[c]
    <3>1. carried[c] = 0 /\ tries[c] = 0 /\ stage[c] = "new"
      BY <2>1
    <3>2. carried[c] <= tries[c]
      BY <3>1
    <3> QED BY <3>1, <3>2
  <2> QED BY <2>2 DEF AttemptsCounted
<1> QED BY <1>1, <1>2, <1>3, <1>4, <1>5 DEF ClientInv, HoldersFinite

LEMMA NextKeepsClientInv ==
    ASSUME ClientInv, [Next]_vars
    PROVE  ClientInv'
<1>1. TypeOK' /\ CountersTell'
  BY ClientStepIsBreakerStep, BreakerStepKeepsInv DEF BreakerInv, ClientInv, ClientTypeOK
<1>2. ASSUME NEW c \in Calls, ClientStep(c) \/ ProviderAnswers(c)
      PROVE  ClientInv'
  <2>1. NothingLeaks' /\ HoldersFinite' /\ slots' \in 0..MaxConcurrent /\ UNCHANGED expired
        /\ stage' \in [Calls -> Stages]
    BY <1>2, StepMoves, MovesLeakNothing
  <2>2. AttemptsCounted' /\ tries' \in [Calls -> 0..Attempts]
        /\ carried' \in [Calls -> 0..Attempts] /\ lastErr' \in [Calls -> Errors]
    BY <1>2, StepCounts
  <2> QED BY <1>1, <2>1, <2>2 DEF ClientInv, ClientTypeOK
<1>3. ASSUME UNCHANGED <<stage, slots, running, tries, carried, lastErr>>,
             expired' \in [Calls -> BOOLEAN]
      PROVE  ClientInv'
  BY <1>1, <1>3 DEF ClientInv, ClientTypeOK, NothingLeaks, HoldersFinite, Holders, AttemptsCounted
<1>4. ASSUME NEW c \in Calls, Expire(c)
      PROVE  ClientInv'
  BY <1>3, <1>4 DEF Expire, breakerVars, ClientInv, ClientTypeOK
<1>5. CASE OpenTimeoutElapses /\ UNCHANGED clientVars
  BY <1>3, <1>5 DEF OpenTimeoutElapses, clientVars, ClientInv, ClientTypeOK
<1>6. CASE UNCHANGED vars
  BY <1>3, <1>6 DEF vars, breakerVars, clientVars, ClientInv, ClientTypeOK
<1> QED BY <1>2, <1>4, <1>5, <1>6 DEF Next

THEOREM ClientInvariant == Spec => []ClientInv
<1> QED BY InitClientInv, NextKeepsClientInv, PTL DEF Spec

(***************************************************************************)
(* The bulkhead never gives out more slots than it has, and no call sends  *)
(* or has carried out more than Attempts attempts.                         *)
(***************************************************************************)
THEOREM ClientTypeCorrect == Spec => []ClientTypeOK
<1>1. ClientInv => ClientTypeOK
  BY DEF ClientInv
<1> QED BY <1>1, ClientInvariant, PTL

(***************************************************************************)
(* On every path out of a call its slot is given back and the breaker is   *)
(* told once.                                                              *)
(***************************************************************************)
THEOREM ClientLeaksNothing == Spec => []NothingLeaks
<1>1. ClientInv => NothingLeaks
  BY DEF ClientInv
<1> QED BY <1>1, ClientInvariant, PTL

(***************************************************************************)
(* Behind the bulkhead and the retries the circuit is the breaker of       *)
(* CircuitBreaker: what is proved of that breaker holds of this one.       *)
(***************************************************************************)
THEOREM ClientKeepsTheBreaker == Spec => BreakerSpec
<1>1. Init => BreakerInit
  BY DEF Init
<1> QED BY <1>1, ClientStepIsBreakerStep, PTL DEF Spec, BreakerSpec

----------------------------------------------------------------------------
(***************************************************************************)
(* The promise of a call.                                                  *)
(***************************************************************************)
Answer == [c \in Calls |-> IF stage[c] \in {"ok", "failed"} THEN stage[c] ELSE "none"]

(***************************************************************************)
(* A call that is not over moves once: the provider carries out n more     *)
(* attempts of it and it goes to stage s, with success only if one of its  *)
(* attempts was carried out.                                               *)
(***************************************************************************)
LEMMA StepAnswers ==
    ASSUME ClientInv, NEW c \in Calls, ClientStep(c) \/ ProviderAnswers(c)
    PROVE  /\ stage[c] \notin {"ok", "failed"}
           /\ \E s \in Stages, n \in {0, 1} :
                /\ GoTo(c, s)
                /\ carried' = [carried EXCEPT ![c] = @ + n]
                /\ s = "ok" => n = 1
<1>1. /\ stage \in [Calls -> Stages] /\ carried \in [Calls -> 0..Attempts] /\ Attempts \in Nat
  BY AttemptsAssumption DEF ClientInv, ClientTypeOK
<1>2. UNCHANGED carried => carried' = [carried EXCEPT ![c] = @ + 0]
  BY <1>1
<1>3. CASE Call(c) \/ CallFailsFast(c) \/ TakeSlot(c) \/ LeaveQueue(c) \/ Send(c) \/ Wake(c)
           \/ Stop(c) \/ ProviderDeclines(c)
  <2>1. \E s \in Stages \ {"ok"} : GoTo(c, s)
    BY <1>3 DEF Call, CallFailsFast, TakeSlot, LeaveQueue, Send, Wake, Stop, GiveUp,
                ProviderDeclines, Stages
  <2>2. UNCHANGED carried /\ stage[c] \notin {"ok", "failed"}
    BY <1>3 DEF Call, CallFailsFast, TakeSlot, LeaveQueue, Send, Wake, Stop, ProviderDeclines
  <2> QED BY <1>2, <2>1, <2>2
<1>4. CASE ProviderDone(c)
  BY <1>4 DEF ProviderDone, Carry, Stages
<1>5. ASSUME NEW error, AttemptFails(c, error)
      PROVE  /\ stage[c] = "sent"
             /\ \E s \in {"waiting", "failed"}, n \in {0, 1} :
                  GoTo(c, s) /\ carried' = [carried EXCEPT ![c] = @ + n]
  BY <1>5 DEF AttemptFails, GiveUp, Carry
<1> QED BY <1>3, <1>4, <1>5 DEF ClientStep, ProviderAnswers, Stages

LEMMA StepKeepsThePromise ==
    ASSUME ClientInv, [Next]_vars
    PROVE  [Promise!Next]_<<Answer, carried>>
<1>1. /\ stage \in [Calls -> Stages] /\ carried \in [Calls -> 0..Attempts] /\ Attempts \in Nat
      /\ \A c \in Calls : carried[c] \in 0..Attempts
      /\ \A c \in Calls : Answer[c] = IF stage[c] \in {"ok", "failed"} THEN stage[c] ELSE "none"
  BY AttemptsAssumption DEF ClientInv, ClientTypeOK, Answer
<1>2. ASSUME NEW c \in Calls, ClientStep(c) \/ ProviderAnswers(c)
      PROVE  Promise!Next
  <2>1. PICK s \in Stages, n \in {0, 1} :
          /\ GoTo(c, s)
          /\ carried' = [carried EXCEPT ![c] = @ + n]
          /\ s = "ok" => n = 1
    BY <1>2, StepAnswers
  <2>2. Answer[c] = "none" /\ stage[c] \notin {"ok", "failed"}
    BY <1>1, <1>2, StepAnswers
  <2>3. stage' = [stage EXCEPT ![c] = s]
    BY <2>1 DEF GoTo
  <2>4. carried'[c] \in carried[c]..Attempts /\ carried' = [carried EXCEPT ![c] = carried'[c]]
    <3>1. carried' \in [Calls -> 0..Attempts]
      BY <1>2, StepCounts
    <3> QED BY <1>1, <2>1, <3>1
  <2>5. Promise!CarryOut(c)
    BY <2>2, <2>4 DEF Promise!CarryOut, Answer
  <2>6. CASE s \notin {"ok", "failed"}
    <3>1. UNCHANGED Answer
      BY <1>1, <2>2, <2>3, <2>6 DEF Answer
    <3> QED BY <2>5, <3>1 DEF Promise!Next, Answer
  <2>7. CASE s = "ok"
    <3>1. Answer' = [Answer EXCEPT ![c] = "ok"]
      BY <1>1, <2>2, <2>3, <2>7 DEF Answer
    <3>2. carried'[c] > 0
      BY <1>1, <2>1, <2>7
    <3> QED BY <2>5, <3>1, <3>2 DEF Promise!Next, Promise!Answer, Answer
  <2>8. CASE s = "failed"
    <3>1. Answer' = [Answer EXCEPT ![c] = "failed"]
      BY <1>1, <2>2, <2>3, <2>8 DEF Answer
    <3> QED BY <2>5, <3>1 DEF Promise!Next, Promise!Answer, Answer
  <2> QED BY <2>6, <2>7, <2>8
<1>3. ASSUME UNCHANGED <<stage, carried>>
      PROVE  UNCHANGED <<Answer, carried>>
  BY <1>3 DEF Answer
<1> QED BY <1>2, <1>3 DEF Next, Expire, vars, clientVars

(***************************************************************************)
(* Through the breaker, the bulkhead, the deadline and every retry, a call *)
(* keeps the promise PaymentService relies on: one that succeeds was       *)
(* carried out, and none is carried out more than Attempts times or after  *)
(* it was answered.                                                        *)
(***************************************************************************)
THEOREM ProviderCallRefinement == Spec => ImplementsProviderCall
<1>1. Init => Promise!Init
  BY DEF Init, Promise!Init
<1> QED BY <1>1, StepKeepsThePromise, ClientInvariant, PTL
        DEF Spec, ImplementsProviderCall, Promise!Spec, Answer
==============================================================================
