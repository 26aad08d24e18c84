--------------------------- MODULE MCOrderPipeline ---------------------------
(* Small instances of OrderPipeline.  With no liveness to check, requests,  *)
(* consumers and payments are interchangeable.                              *)
EXTENDS OrderPipeline, TLC

Symmetry == Permutations(Requests) \cup Permutations(Consumers) \cup Permutations(Payments)
=============================================================================
