---------------------------- MODULE MCOutboxRelay ----------------------------
(* Small instances of OutboxRelay: replicas and keys are interchangeable. *)
EXTENDS OutboxRelay, TLC

Symmetry == Permutations(Keys) \cup Permutations(Relays)
=============================================================================
