--------------------------- MODULE MCOrderService ---------------------------
(* Small instances of OrderService: orders and requests are interchangeable. *)
EXTENDS OrderService, TLC

Symmetry == Permutations(Orders) \cup Permutations(Requests)
=============================================================================
