-------------------------- MODULE MCPaymentService --------------------------
(* Small instances of PaymentService: payments and callers are            *)
(* interchangeable.                                                        *)
EXTENDS PaymentService, TLC

Symmetry == Permutations(Payments) \cup Permutations(Callers) \cup Permutations(Reasons)
=============================================================================
