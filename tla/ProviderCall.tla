---------------------------- MODULE ProviderCall ----------------------------
(***************************************************************************)
(* What a Capture or Refund promises PaymentService: a call that succeeds  *)
(* made the provider carry it out, between once and Attempts times, and    *)
(* one that fails says nothing: it was carried out up to Attempts times.   *)
(***************************************************************************)
EXTENDS Naturals

CONSTANTS Calls, Attempts

VARIABLES
    answer,      \* [Calls -> {"none", "ok", "failed"}]
    carried      \* [Calls -> 0..Attempts]: times the provider carried it out

Init ==
    /\ answer = [c \in Calls |-> "none"]
    /\ carried = [c \in Calls |-> 0]

CarryOut(c) ==
    /\ answer[c] = "none"
    /\ \E n \in carried[c]..Attempts : carried' = [carried EXCEPT ![c] = n]

Answer(c, a) == answer' = [answer EXCEPT ![c] = a]

Next ==
    \E c \in Calls :
        /\ CarryOut(c)
        /\ \/ UNCHANGED answer
           \/ Answer(c, "ok") /\ carried'[c] > 0
           \/ Answer(c, "failed")

Spec == Init /\ [][Next]_<<answer, carried>>
=============================================================================
